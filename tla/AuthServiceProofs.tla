------------------------- MODULE AuthServiceProofs --------------------------
(***************************************************************************)
(* Proofs about AuthService for any number of requests, addresses,         *)
(* passwords, keys and connections.                                        *)
(*                                                                         *)
(* An answer may only be given for what the commit wrote, and the commit   *)
(* publishes what the transaction has written before.  IndInv says what    *)
(* that is: a request that lets somebody in holds an account that is its   *)
(* own, uncommitted and the only one for the address, or one it read and   *)
(* whose password it compared; accounts, once committed, never change.     *)
(***************************************************************************)
EXTENDS AuthService, TLAPS, FiniteSetTheorems, WellFoundedInduction

(* Requests that let somebody into the organization. *)
LetsIn(r) == r.op \in {"accept", "acs"}

Busy(r) == r.pc \notin {"idle", "done"}

(* Statements after which the account of the request is settled. *)
WithAccount == {"select member", "insert member", "update member", "mark", "commit"}

(* The address, the password and the role a request goes on with. *)
InputInv(r) ==
  /\ Busy(r) /\ r.op # "org" => r.e \in Emails
  /\ LetsIn(r) => r.e \in Emails
  /\ Busy(r) /\ (LetsIn(r) \/ r.op = "register") => r.pw # None
  /\ Busy(r) /\ LetsIn(r) => r.role # None
  /\ r.pc = "insert user" => LetsIn(r) \/ r.op = "register"
  /\ r.pc = "user" => LetsIn(r)
  /\ LetsIn(r) => r.pc \in {"user", "insert user", "done"} \cup WithAccount

(* An account that is inserted and not committed. *)
WriteInv(r, us) ==
  r.w.user # None => Busy(r) /\ r.op # "org" /\ us[r.e] = None /\ r.w.user = r.pw

(* The account of a request that lets somebody in. *)
AccountInv(r, us) ==
  LetsIn(r) /\ r.pc \in WithAccount =>
    \/ r.w.user # None
    \/ us[r.e] # None /\ (r.op = "accept" => us[r.e] = r.pw)

(* A request that writes an open invitation names a role. *)
RoleInv(r) ==
  \/ r.pc \in {"pending", "refresh invite", "insert invite"}
  \/ r.w.invite \in {"insert", "refresh"}
  => r.role # None

MemberInv(r) == LetsIn(r) /\ r.pc \in {"mark", "commit"} => r.w.member # None

AnswerInv(r, us, ms) ==
  /\ r.answer = "200" => r.pc = "done"
  /\ LetsIn(r) /\ r.answer = "200" =>
       us[r.e] # None /\ ms[r.e] # None /\ (r.op = "accept" => us[r.e] = r.pw)

ReqInv(r, us, ms) ==
  /\ InputInv(r) /\ WriteInv(r, us) /\ AccountInv(r, us) /\ RoleInv(r) /\ MemberInv(r)
  /\ AnswerInv(r, us, ms)

(* Of the transactions that insert an account for an address one is open. *)
OneWriter ==
  \A q, x \in Reqs :
    req[q].w.user # None /\ req[x].w.user # None /\ req[q].e = req[x].e => q = x

(* An open invitation has a role. *)
InviteInv == \A e \in Emails : invites[e].st = "pending" => invites[e].role # None

IndInv ==
  /\ TypeOK
  /\ \A q \in Reqs : ReqInv(req[q], users, members)
  /\ OneWriter
  /\ InviteInv
  /\ IsFiniteSet(slugs)

-----------------------------------------------------------------------------
(* The operators of the model *)

LEMMA MinExists ==
  ASSUME NEW T \in SUBSET Nat, T # {} PROVE \E x \in T : \A y \in T : x <= y
<1> DEFINE Less == {ss \in Nat \X Nat : ss[1] < ss[2]}
<1>1. IsWellFoundedOn(Less, Nat)
  BY NatLessThanWellFounded, Zenon DEF OpToRel
<1> HIDE DEF Less
<1>2. \E x \in T : \A y \in T : ~(<<y, x>> \in Less)
  BY <1>1, WFMin, Zenon
<1>3. ASSUME NEW x \in Nat, NEW y \in Nat, ~(<<y, x>> \in Less) PROVE x <= y
  <2>1. ~(y < x)
    BY <1>3, Zenon DEF Less
  <2> QED BY <2>1
<1> QED BY <1>2, <1>3

(* The role of a mapping is a role of the organization. *)
LEMMA MappedRole == ASSUME NEW groups PROVE resolve_role_from_mapping(groups) \in OrgRole
<1> DEFINE hits == {i \in DOMAIN RoleMappingRules :
                      RoleMappingRules[i][1] \in groups /\ RoleMappingRules[i][2] \in OrgRole}
<1>1. CASE hits = {}
  BY <1>1 DEF resolve_role_from_mapping, OrgRole
<1>2. CASE hits # {}
  <2>1. hits \in SUBSET Nat
    BY NamesAssumption
  <2>2. \E i \in hits : \A j \in hits : i <= j
    BY <1>2, <2>1, MinExists
  <2>3. (CHOOSE i \in hits : \A j \in hits : i <= j) \in hits
    BY <2>2
  <2> QED BY <1>2, <2>3 DEF resolve_role_from_mapping
<1> QED BY <1>1, <1>2

(* _unique_slug finds a number: of one number more than there are slugs one is
   free, and the least free one has no gap below it. *)
LEMMA FreeSlug ==
  ASSUME NEW S \in SUBSET Nat, IsFiniteSet(S)
  PROVE  \E i \in 1 .. Cardinality(S) + 1 : i \notin S /\ \A j \in 1 .. i - 1 : j \in S
<1> DEFINE n == Cardinality(S) + 1
<1> DEFINE free == {i \in 1 .. n : i \notin S}
<1>1. Cardinality(S) \in Nat /\ n \in Nat
  BY FS_CardinalityType
<1> HIDE DEF n
<1>2. free # {}
  <2>1. SUFFICES ASSUME free = {} PROVE FALSE
    OBVIOUS
  <2>2. 1 .. n \subseteq S
    BY <2>1
  <2>3. Cardinality(1 .. n) <= Cardinality(S)
    BY <2>2, FS_Subset
  <2>4. Cardinality(1 .. n) = n
    BY <1>1, FS_Interval
  <2> QED BY <1>1, <2>3, <2>4 DEF n
<1>3. free \in SUBSET Nat
  BY <1>1
<1>4. PICK i \in free : \A j \in free : i <= j
  BY <1>2, <1>3, MinExists
<1>5. ASSUME NEW j \in 1 .. i - 1 PROVE j \in S
  <2>1. j \in 1 .. n /\ ~(i <= j)
    BY <1>1, <1>5
  <2>2. j \notin free
    BY <1>4, <2>1
  <2> QED BY <2>1, <2>2
<1>6. i \in 1 .. n /\ i \notin S
  OBVIOUS
<1> QED BY <1>5, <1>6 DEF n

-----------------------------------------------------------------------------
(* Steps of one request *)

Errors == {"400", "401", "403", "404", "500"}

LEMMA Facts ==
  ASSUME IndInv, NEW q \in Reqs
  PROVE  req[q] \in Request /\ ReqInv(req[q], users, members)
BY DEF IndInv, TypeOK

(* The address is settled by nobody but q. *)
Alone(q, r) ==
  r.w.user # None => \A x \in Reqs \ {q} : req[x].w.user # None => req[x].e # r.e

(* A step of one request that commits nothing. *)
LEMMA RequestKeeps ==
  ASSUME IndInv, NEW q \in Reqs, NEW r \in Request, req' = [req EXCEPT ![q] = r],
         UNCHANGED Tables, ReqInv(r, users, members), Alone(q, r)
  PROVE  IndInv'
<1>1. UNCHANGED <<users, members, invites, slugs, keys, conns, issued>>
  BY DEF Tables
<1>2. TypeOK'
  BY <1>1 DEF IndInv, TypeOK
<1>3. req'[q] = r /\ \A x \in Reqs \ {q} : req'[x] = req[x]
  BY DEF IndInv, TypeOK
<1>4. ASSUME NEW x \in Reqs PROVE ReqInv(req'[x], users', members')
  BY <1>1, <1>3 DEF IndInv
<1>5. OneWriter'
  BY <1>3 DEF IndInv, OneWriter, Alone
<1>6. InviteInv' /\ IsFiniteSet(slugs)'
  BY <1>1 DEF IndInv, InviteInv
<1> QED BY <1>2, <1>4, <1>5, <1>6 DEF IndInv

LEMMA AloneSame ==
  ASSUME IndInv, NEW q \in Reqs, NEW r, r.e = req[q].e, r.w.user \in {None, req[q].w.user}
  PROVE  Alone(q, r)
BY DEF IndInv, OneWriter, Alone

LEMMA RefusedKeeps ==
  ASSUME IndInv, NEW q \in Reqs, NEW a \in Errors, req' = [req EXCEPT ![q] = Refused(a)],
         UNCHANGED Tables
  PROVE  IndInv'
<1>1. Refused(a) \in Request
  BY DEF Refused, Idle, NoWrites, Request, Secrets, Roles, Errors
<1>2. ReqInv(Refused(a), users, members)
  BY DEF Refused, Idle, NoWrites, Errors, None, ReqInv, InputInv, WriteInv, AccountInv, RoleInv,
    MemberInv, AnswerInv, LetsIn, Busy, WithAccount
<1>3. Alone(q, Refused(a))
  BY DEF Alone, Refused, Idle, NoWrites
<1> QED BY <1>1, <1>2, <1>3, RequestKeeps

(* A request that has written nothing: it starts. *)
LEMMA StartKeeps ==
  ASSUME IndInv, NEW q \in Reqs, NEW r \in Request, req' = [req EXCEPT ![q] = r],
         UNCHANGED Tables, ReqInv(r, users, members), r.w = NoWrites
  PROVE  IndInv'
<1>1. Alone(q, r)
  BY DEF Alone, NoWrites
<1> QED BY <1>1, RequestKeeps

(* Handlers up to their first statement *)

LEMMA RegisterStep ==
  ASSUME IndInv, NEW q \in Reqs, NEW e \in Emails, NEW pw \in Passwords, Register(q, e, pw)
  PROVE  IndInv'
<1>1. CASE req' = [req EXCEPT ![q] = Refused("400")]
  BY <1>1, RefusedKeeps DEF Register, Errors
<1>2. CASE req' = [req EXCEPT ![q] = [Start(q, "register", e, "insert user") EXCEPT !.pw = pw]]
  <2> DEFINE r == [Start(q, "register", e, "insert user") EXCEPT !.pw = pw]
  <2>1. r \in Request /\ r.w = NoWrites
    BY NamesAssumption DEF Start, Idle, NoWrites, Request, Secrets, Roles, OrgRole
  <2>2. ReqInv(r, users, members)
    BY NamesAssumption DEF Start, Idle, NoWrites, None, ReqInv, InputInv, WriteInv, AccountInv,
      RoleInv,
      MemberInv, AnswerInv, LetsIn, Busy, WithAccount
  <2> QED BY <1>2, <2>1, <2>2, StartKeeps DEF Register
<1> QED BY <1>1, <1>2 DEF Register

LEMMA LoginStep ==
  ASSUME IndInv, NEW q \in Reqs, NEW e \in Emails, NEW pw \in Passwords, Login(q, e, pw)
  PROVE  IndInv'
<1>1. CASE req' = [req EXCEPT ![q] = Refused("401")]
  BY <1>1, RefusedKeeps DEF Login, Errors
<1>2. CASE req' = [req EXCEPT ![q] = Start(q, "login", e, "role")]
  <2> DEFINE r == Start(q, "login", e, "role")
  <2>1. r \in Request /\ r.w = NoWrites
    BY NamesAssumption DEF Start, Idle, NoWrites, Request, Secrets, Roles, OrgRole
  <2>2. ReqInv(r, users, members)
    BY NamesAssumption DEF Start, Idle, NoWrites, None, ReqInv, InputInv, WriteInv, AccountInv,
      RoleInv,
      MemberInv, AnswerInv, LetsIn, Busy, WithAccount
  <2> QED BY <1>2, <2>1, <2>2, StartKeeps DEF Login
<1> QED BY <1>1, <1>2 DEF Login

LEMMA RefreshStep ==
  ASSUME IndInv, NEW q \in Reqs, NEW e \in Emails, NEW type, Refresh(q, e, type)
  PROVE  IndInv'
<1>1. CASE req' = [req EXCEPT ![q] = Refused("401")]
  BY <1>1, RefusedKeeps DEF Refresh, Errors
<1>2. CASE req' = [req EXCEPT ![q] = Start(q, "refresh", e, "role")]
  <2> DEFINE r == Start(q, "refresh", e, "role")
  <2>1. r \in Request /\ r.w = NoWrites
    BY NamesAssumption DEF Start, Idle, NoWrites, Request, Secrets, Roles, OrgRole
  <2>2. ReqInv(r, users, members)
    BY NamesAssumption DEF Start, Idle, NoWrites, None, ReqInv, InputInv, WriteInv, AccountInv,
      RoleInv,
      MemberInv, AnswerInv, LetsIn, Busy, WithAccount
  <2> QED BY <1>2, <2>1, <2>2, StartKeeps DEF Refresh
<1> QED BY <1>1, <1>2 DEF Refresh

LEMMA RefusalValue == ASSUME NEW p, NEW scope PROVE Refusal(p, scope) \in {None, "401", "403"}
BY DEF Refusal

LEMMA CreateOrgStep ==
  ASSUME IndInv, NEW q \in Reqs, NEW p, CreateOrg(q, p)
  PROVE  IndInv'
<1>1. CASE /\ Refusal(p, "orgs:write") # None
           /\ req' = [req EXCEPT ![q] = Refused(Refusal(p, "orgs:write"))]
  <2>1. Refusal(p, "orgs:write") \in Errors
    BY <1>1, RefusalValue DEF Errors, None, CreateOrg
  <2> QED BY <1>1, <2>1, RefusedKeeps DEF CreateOrg
<1>2. CASE req' = [req EXCEPT ![q] = Refused("400")]
  BY <1>2, RefusedKeeps DEF CreateOrg, Errors
<1>3. CASE req' = [req EXCEPT ![q] = Start(q, "org", None, "slug")]
  <2> DEFINE r == Start(q, "org", None, "slug")
  <2>1. r \in Request /\ r.w = NoWrites
    BY NamesAssumption DEF Start, Idle, NoWrites, Request, Secrets, Roles, OrgRole
  <2>2. ReqInv(r, users, members)
    BY NamesAssumption DEF Start, Idle, NoWrites, None, ReqInv, InputInv, WriteInv, AccountInv,
      RoleInv,
      MemberInv, AnswerInv, LetsIn, Busy, WithAccount
  <2> QED BY <1>3, <2>1, <2>2, StartKeeps DEF CreateOrg
<1> QED BY <1>1, <1>2, <1>3 DEF CreateOrg

LEMMA AddMemberStep ==
  ASSUME IndInv, NEW q \in Reqs, NEW p, NEW e \in Emails, NEW role \in InviteRoles,
         AddMember(q, p, e, role)
  PROVE  IndInv'
<1>1. CASE /\ Refusal(p, "orgs:manage_members") # None
           /\ req' = [req EXCEPT ![q] = Refused(Refusal(p, "orgs:manage_members"))]
  <2>1. Refusal(p, "orgs:manage_members") \in Errors
    BY <1>1, RefusalValue DEF Errors, None
  <2> QED BY <1>1, <2>1, RefusedKeeps DEF AddMember
<1>2. CASE req' = [req EXCEPT ![q] = [Start(q, "add", e, "insert member") EXCEPT !.role = role]]
  <2> DEFINE r == [Start(q, "add", e, "insert member") EXCEPT !.role = role]
  <2>1. r \in Request /\ r.w = NoWrites
    BY NamesAssumption DEF Start, Idle, NoWrites, Request, Secrets, Roles, OrgRole
  <2>2. ReqInv(r, users, members)
    BY NamesAssumption DEF Start, Idle, NoWrites, None, ReqInv, InputInv, WriteInv, AccountInv,
      RoleInv,
      MemberInv, AnswerInv, LetsIn, Busy, WithAccount
  <2> QED BY <1>2, <2>1, <2>2, StartKeeps DEF AddMember
<1> QED BY <1>1, <1>2 DEF AddMember

LEMMA CreateInviteStep ==
  ASSUME IndInv, NEW q \in Reqs, NEW p, NEW e \in Emails, NEW role \in InviteRoles,
         CreateInvite(q, p, e, role)
  PROVE  IndInv'
<1>1. CASE /\ Refusal(p, "orgs:manage_members") # None
           /\ req' = [req EXCEPT ![q] = Refused(Refusal(p, "orgs:manage_members"))]
  <2>1. Refusal(p, "orgs:manage_members") \in Errors
    BY <1>1, RefusalValue DEF Errors, None
  <2> QED BY <1>1, <2>1, RefusedKeeps DEF CreateInvite
<1>2. CASE req' = [req EXCEPT ![q] = [Start(q, "invite", e, "pending") EXCEPT !.role = role]]
  <2> DEFINE r == [Start(q, "invite", e, "pending") EXCEPT !.role = role]
  <2>1. r \in Request /\ r.w = NoWrites
    BY NamesAssumption DEF Start, Idle, NoWrites, Request, Secrets, Roles, OrgRole
  <2>2. ReqInv(r, users, members)
    BY NamesAssumption DEF OrgRole, Start, Idle, NoWrites, None, ReqInv, InputInv, WriteInv,
      AccountInv, RoleInv,
      MemberInv, AnswerInv, LetsIn, Busy, WithAccount
  <2> QED BY <1>2, <2>1, <2>2, StartKeeps DEF CreateInvite
<1> QED BY <1>1, <1>2 DEF CreateInvite

LEMMA AcceptInviteStep ==
  ASSUME IndInv, NEW q \in Reqs, NEW e \in Emails, NEW tok \in Nat, NEW pw \in Passwords,
         AcceptInvite(q, e, tok, pw)
  PROVE  IndInv'
<1>1. CASE req' = [req EXCEPT ![q] = Refused("400")]
  BY <1>1, RefusedKeeps DEF AcceptInvite, Errors
<1>2. CASE /\ invites[e].st = "pending"
           /\ req' = [req EXCEPT ![q] = [Start(q, "accept", e, "user") EXCEPT
                                           !.tok = tok, !.pw = pw, !.role = invites[e].role]]
  <2> DEFINE r == [Start(q, "accept", e, "user") EXCEPT
                     !.tok = tok, !.pw = pw, !.role = invites[e].role]
  <2>1. r \in Request /\ r.w = NoWrites
    BY NamesAssumption DEF Start, Idle, NoWrites, Request, Secrets, Roles, OrgRole, IndInv,
      TypeOK, InviteInv
  <2>2. ReqInv(r, users, members)
    BY <1>2, NamesAssumption DEF Start, Idle, NoWrites, None, ReqInv, InputInv, WriteInv,
      AccountInv, RoleInv, MemberInv, AnswerInv, LetsIn, Busy, WithAccount,
      IndInv, TypeOK, InviteInv
  <2> QED BY <1>2, <2>1, <2>2, StartKeeps DEF AcceptInvite
<1> QED BY <1>1, <1>2 DEF AcceptInvite

LEMMA BeginLoginStep ==
  ASSUME IndInv, NEW q \in Reqs, NEW c, BeginLogin(q, c)
  PROVE  IndInv'
<1>1. CASE req' = [req EXCEPT ![q] = Refused("404")]
  BY <1>1, RefusedKeeps DEF BeginLogin, Errors
<1>2. CASE req' = [req EXCEPT ![q] = Refused("400")]
  BY <1>2, RefusedKeeps DEF BeginLogin, Errors
<1>3. CASE req' = [req EXCEPT ![q] = [Idle EXCEPT !.op = "begin", !.pc = "done", !.answer = "200"]]
  <2> DEFINE r == [Idle EXCEPT !.op = "begin", !.pc = "done", !.answer = "200"]
  <2>1. r \in Request /\ r.w = NoWrites
    BY NamesAssumption DEF Start, Idle, NoWrites, Request, Secrets, Roles, OrgRole
  <2>2. ReqInv(r, users, members)
    BY NamesAssumption DEF Start, Idle, NoWrites, None, ReqInv, InputInv, WriteInv, AccountInv,
      RoleInv,
      MemberInv, AnswerInv, LetsIn, Busy, WithAccount
  <2> QED BY <1>3, <2>1, <2>2, StartKeeps DEF BeginLogin
<1> QED BY <1>1, <1>2, <1>3 DEF BeginLogin

LEMMA ConsumeAcsStep ==
  ASSUME IndInv, NEW q \in Reqs, NEW a \in Assertions, NEW c, ConsumeAcs(q, a, c)
  PROVE  IndInv'
<1>1. CASE req' = [req EXCEPT ![q] = Refused("400")]
  BY <1>1, RefusedKeeps DEF ConsumeAcs, Errors
<1>2. ASSUME NEW role \in OrgRole,
             req' = [req EXCEPT ![q] = [Start(q, "acs", a.email, "user") EXCEPT
                                          !.pw = "random", !.role = role]]
      PROVE  IndInv'
  <2> DEFINE r == [Start(q, "acs", a.email, "user") EXCEPT !.pw = "random", !.role = role]
  <2>1. r \in Request /\ r.w = NoWrites
    BY NamesAssumption DEF Start, Idle, NoWrites, Request, Secrets, Roles
  <2>2. ReqInv(r, users, members)
    BY NamesAssumption DEF OrgRole, Start, Idle, NoWrites, None, ReqInv, InputInv, WriteInv,
      AccountInv, RoleInv, MemberInv, AnswerInv, LetsIn, Busy, WithAccount
  <2> QED BY <1>2, <2>1, <2>2, StartKeeps DEF ConsumeAcs
<1> QED BY <1>1, <1>2, MappedRole DEF ConsumeAcs, parse_saml_assertion

(* Statements *)

Steps ==
  {"idle", "done", "insert user", "slug", "insert org", "role", "pending", "refresh invite",
   "insert invite", "user", "select member", "insert member", "update member", "mark", "commit"}

Writes ==
  [user : Secrets, member : Roles, invite : {None, "accepted", "insert", "refresh"}, slug : Nat]

(* A request after a statement: where it stands and what it has written. *)
Moved(r, l, v) == [r EXCEPT !.w = v, !.pc = l]

SameBut(old, r, l, v) ==
  /\ r.w = v /\ r.pc = l
  /\ r.op = old.op /\ r.e = old.e /\ r.pw = old.pw /\ r.role = old.role /\ r.answer = old.answer

LEMMA MovedFields ==
  ASSUME NEW r \in Request, NEW l \in Steps, NEW v \in Writes
  PROVE  Moved(r, l, v) \in Request /\ SameBut(r, Moved(r, l, v), l, v)
BY DEF Moved, SameBut, Request, Steps, Writes

LEMMA WritesOf == ASSUME NEW r \in Request PROVE r.w \in Writes
BY DEF Request, Writes

LEMMA StatementKeeps ==
  ASSUME IndInv, NEW q \in Reqs, NEW l \in Steps \ {"idle", "done", "user", "pending"},
         NEW v \in Writes,
         req' = [req EXCEPT ![q] = Moved(req[q], l, v)], UNCHANGED Tables,
         Busy(req[q]),
         v.user = req[q].w.user,
         l = "insert user" => LetsIn(req[q]),
         LetsIn(req[q]) => l \in {"insert user"} \cup WithAccount,
         LetsIn(req[q]) /\ l \in WithAccount =>
            \/ v.user # None
            \/ /\ users[req[q].e] # None
               /\ req[q].op = "accept" => users[req[q].e] = req[q].pw,
         LetsIn(req[q]) /\ l \in {"mark", "commit"} => v.member # None,
         l \in {"refresh invite", "insert invite"} => req[q].role # None,
         v.invite \in {req[q].w.invite, "accepted"} \/ req[q].role # None
  PROVE  IndInv'
<1> DEFINE old == req[q]
           r == Moved(req[q], l, v)
<1>1. old \in Request /\ ReqInv(old, users, members)
  BY Facts
<1>2. r \in Request /\ SameBut(old, r, l, v)
  BY <1>1, MovedFields
<1>3. Busy(old) /\ Busy(r) /\ (LetsIn(r) <=> LetsIn(old))
  BY <1>2 DEF Busy, LetsIn, SameBut
<1>4. ReqInv(r, users, members)
  <2> HIDE DEF r, old
  <2>1. InputInv(r)
    BY <1>1, <1>2, <1>3 DEF ReqInv, InputInv, SameBut, old
  <2>2. WriteInv(r, users)
    BY <1>1, <1>2, <1>3 DEF ReqInv, WriteInv, SameBut, old
  <2>3. AccountInv(r, users) /\ MemberInv(r)
    BY <1>1, <1>2, <1>3 DEF AccountInv, RoleInv, MemberInv, SameBut, old
  <2>4. AnswerInv(r, users, members)
    BY <1>1, <1>2, <1>3 DEF ReqInv, AnswerInv, Busy, SameBut, old
  <2>5. RoleInv(r)
    BY <1>1, <1>2 DEF ReqInv, RoleInv, SameBut, old
  <2> QED BY <2>1, <2>2, <2>3, <2>4, <2>5 DEF ReqInv
<1>5. Alone(q, r)
  BY <1>2, AloneSame DEF SameBut
<1> QED BY <1>2, <1>4, <1>5, RequestKeeps

(* Statements that only read. *)
LEMMA Gone ==
  ASSUME NEW q \in Reqs, NEW l, req[q] \in Request, Goto(q, l), TypeOK
  PROVE  req' = [req EXCEPT ![q] = Moved(req[q], l, req[q].w)]
<1>1. req' = [req EXCEPT ![q] = [req[q] EXCEPT !.pc = l]]
  BY DEF Goto
<1>2. [req[q] EXCEPT !.pc = l] = Moved(req[q], l, req[q].w)
  BY DEF Moved, Request
<1> QED BY <1>1, <1>2

LEMMA GetPendingStep == ASSUME IndInv, NEW q \in Reqs, GetPending(q) PROVE IndInv'
<1>1. PICK l \in {"refresh invite", "insert invite"} : Goto(q, l)
  BY DEF GetPending
<1>2. req' = [req EXCEPT ![q] = Moved(req[q], l, req[q].w)]
  BY <1>1, Facts, Gone DEF IndInv
<1>3. Busy(req[q]) /\ ~LetsIn(req[q]) /\ req[q].role # None
  BY Facts DEF GetPending, Busy, ReqInv, InputInv, RoleInv, WithAccount
<1> QED BY <1>2, <1>3, Facts, WritesOf, StatementKeeps DEF GetPending, Steps

LEMMA GetByEmailStep == ASSUME IndInv, NEW q \in Reqs, GetByEmail(q) PROVE IndInv'
<1>1. Busy(req[q]) /\ LetsIn(req[q])
  BY Facts DEF GetByEmail, Busy, ReqInv, InputInv, WithAccount
<1>2. CASE Refuse(q, "400")
  BY <1>2, RefusedKeeps DEF GetByEmail, Refuse, Errors
<1>3. CASE Goto(q, "insert user")
  <2>1. req' = [req EXCEPT ![q] = Moved(req[q], "insert user", req[q].w)]
    BY <1>3, Facts, Gone DEF IndInv
  <2> QED BY <1>1, <2>1, Facts, WritesOf, StatementKeeps DEF GetByEmail, Steps, WithAccount
<1>4. CASE /\ users[req[q].e] # None
           /\ req[q].op = "accept" => users[req[q].e] = req[q].pw
           /\ Goto(q, "select member")
  <2>1. req' = [req EXCEPT ![q] = Moved(req[q], "select member", req[q].w)]
    BY <1>4, Facts, Gone DEF IndInv
  <2> QED BY <1>1, <1>4, <2>1, Facts, WritesOf, StatementKeeps DEF GetByEmail, Steps, WithAccount
<1> QED BY <1>2, <1>3, <1>4 DEF GetByEmail

LEMMA UpsertSelectStep == ASSUME IndInv, NEW q \in Reqs, UpsertSelect(q) PROVE IndInv'
<1>1. PICK l \in {"insert member", "update member"} : Goto(q, l)
  BY DEF UpsertSelect
<1>2. req' = [req EXCEPT ![q] = Moved(req[q], l, req[q].w)]
  BY <1>1, Facts, Gone DEF IndInv
<1>3. Busy(req[q]) /\ AccountInv(req[q], users) /\ req[q].pc \in WithAccount
  BY Facts DEF UpsertSelect, Busy, ReqInv, WithAccount
<1> QED BY <1>2, <1>3, Facts, WritesOf, StatementKeeps
        DEF UpsertSelect, Steps, WithAccount, AccountInv

LEMMA UniqueSlugStep == ASSUME IndInv, NEW q \in Reqs, UniqueSlug(q) PROVE IndInv'
<1> DEFINE n == CHOOSE i \in 1 .. Cardinality(slugs) + 1 :
                    i \notin slugs /\ \A j \in 1 .. i - 1 : j \in slugs
<1>1. slugs \in SUBSET Nat /\ IsFiniteSet(slugs)
  BY DEF IndInv, TypeOK
<1>2. n \in 1 .. Cardinality(slugs) + 1
  BY <1>1, FreeSlug, Zenon
<1>3. n \in Nat
  BY <1>1, <1>2, FS_CardinalityType
<1> HIDE DEF n
<1> DEFINE r == [req[q] EXCEPT !.tok = n, !.pc = "insert org"]
<1>4. req' = [req EXCEPT ![q] = r] /\ req[q].pc = "slug" /\ UNCHANGED Tables
  <2>1. req' = [req EXCEPT ![q].tok = n, ![q].pc = "insert org"]
    BY Zenon DEF UniqueSlug, n
  <2> QED BY <2>1 DEF UniqueSlug
<1>5. req[q] \in Request /\ ReqInv(req[q], users, members)
  BY Facts
<1>6. /\ r \in Request /\ r.w = req[q].w /\ r.pc = "insert org" /\ r.op = req[q].op
      /\ r.e = req[q].e /\ r.pw = req[q].pw /\ r.role = req[q].role /\ r.answer = req[q].answer
  BY <1>3, <1>5 DEF Request
<1>7. ~LetsIn(req[q])
  BY <1>4, <1>5 DEF ReqInv, InputInv, WithAccount
<1> HIDE DEF r
<1>8. ReqInv(r, users, members)
  BY <1>4, <1>5, <1>6, <1>7 DEF ReqInv, InputInv, WriteInv, AccountInv, RoleInv, MemberInv,
    AnswerInv,
    LetsIn, Busy
<1>9. Alone(q, r)
  BY <1>6, AloneSame
<1> QED BY <1>4, <1>6, <1>8, <1>9, RequestKeeps

(* Statements that write. *)
LEMMA MemberWrittenKeeps ==
  ASSUME IndInv, NEW q \in Reqs, MemberWritten(q), UNCHANGED Tables,
         req[q].pc \in {"insert member", "update member"}
  PROVE  IndInv'
<1> DEFINE v == [req[q].w EXCEPT !.member = req[q].role]
           l == IF req[q].op = "accept" THEN "mark" ELSE "commit"
<1>1. req[q] \in Request /\ ReqInv(req[q], users, members) /\ req[q].w \in Writes
  BY Facts, WritesOf
<1>2. req[q].role \in Roles
  BY <1>1 DEF Request
<1>3. /\ v \in Writes /\ v.user = req[q].w.user /\ v.member = req[q].role
      /\ v.invite = req[q].w.invite
  BY <1>1, <1>2 DEF Writes
<1>4. req' = [req EXCEPT ![q] = Moved(req[q], l, v)]
  <2>1. req' = [req EXCEPT ![q] = [req[q] EXCEPT !.w.member = req[q].role, !.pc = l]]
    BY DEF MemberWritten
  <2>2. [req[q] EXCEPT !.w.member = req[q].role, !.pc = l] = Moved(req[q], l, v)
    BY <1>1 DEF Moved, Request
  <2> QED BY <2>1, <2>2
<1>5. Busy(req[q]) /\ req[q].pc \in WithAccount
  BY DEF Busy, WithAccount
<1>6. l \in {"mark", "commit"}
  OBVIOUS
<1> HIDE DEF v, l
<1> QED BY <1>1, <1>3, <1>4, <1>5, <1>6, StatementKeeps
        DEF Steps, WithAccount, ReqInv, AccountInv, InputInv

LEMMA InsertMemberStep == ASSUME IndInv, NEW q \in Reqs, InsertMember(q) PROVE IndInv'
<1>1. CASE Refuse(q, "500")
  BY <1>1, RefusedKeeps DEF InsertMember, Refuse, Errors
<1> QED BY <1>1, MemberWrittenKeeps DEF InsertMember

LEMMA UpdateMemberStep == ASSUME IndInv, NEW q \in Reqs, UpdateMember(q) PROVE IndInv'
BY MemberWrittenKeeps DEF UpdateMember

InviteWritten(q, i) == req' = [req EXCEPT ![q].w.invite = i, ![q].pc = "commit"]

LEMMA InviteWrittenKeeps ==
  ASSUME IndInv, NEW q \in Reqs, NEW i \in {"accepted", "insert", "refresh"},
         InviteWritten(q, i), UNCHANGED Tables,
         req[q].pc \in {"mark", "insert invite", "refresh invite"},
         i \in {"insert", "refresh"} => req[q].pc # "mark"
  PROVE  IndInv'
<1> DEFINE v == [req[q].w EXCEPT !.invite = i]
<1>1. req[q] \in Request /\ ReqInv(req[q], users, members) /\ req[q].w \in Writes
  BY Facts, WritesOf
<1>2. v \in Writes /\ v.user = req[q].w.user /\ v.member = req[q].w.member /\ v.invite = i
  BY <1>1 DEF Writes
<1>3. req' = [req EXCEPT ![q] = Moved(req[q], "commit", v)]
  <2>1. req' = [req EXCEPT ![q] = [req[q] EXCEPT !.w.invite = i, !.pc = "commit"]]
    BY DEF InviteWritten
  <2>2. [req[q] EXCEPT !.w.invite = i, !.pc = "commit"] = Moved(req[q], "commit", v)
    BY <1>1 DEF Moved, Request
  <2> QED BY <2>1, <2>2
<1>4. Busy(req[q]) /\ (LetsIn(req[q]) => req[q].pc = "mark")
  BY <1>1 DEF Busy, WithAccount, ReqInv, InputInv
<1> HIDE DEF v
<1>5. "commit" \in Steps \ {"idle", "done", "user", "pending"} /\ "commit" \in WithAccount
  BY DEF Steps, WithAccount
<1>6. LetsIn(req[q]) =>
        \/ v.user # None
        \/ /\ users[req[q].e] # None
           /\ req[q].op = "accept" => users[req[q].e] = req[q].pw
  BY <1>1, <1>2, <1>4 DEF WithAccount, ReqInv, AccountInv
<1>7. LetsIn(req[q]) => v.member # None
  BY <1>1, <1>2, <1>4 DEF ReqInv, MemberInv
<1>8. v.invite \in {req[q].w.invite, "accepted"} \/ req[q].role # None
  BY <1>1, <1>2 DEF ReqInv, RoleInv
<1>9. v \in Writes /\ v.user = req[q].w.user
  BY <1>2
<1> QED BY <1>3, <1>4, <1>5, <1>6, <1>7, <1>8, <1>9, StatementKeeps

LEMMA MarkAcceptedStep == ASSUME IndInv, NEW q \in Reqs, MarkAccepted(q) PROVE IndInv'
BY InviteWrittenKeeps DEF InviteWritten, MarkAccepted

LEMMA InsertInviteStep == ASSUME IndInv, NEW q \in Reqs, InsertInvite(q) PROVE IndInv'
<1>1. CASE Refuse(q, "500")
  BY <1>1, RefusedKeeps DEF InsertInvite, Refuse, Errors
<1> QED BY <1>1, InviteWrittenKeeps DEF InviteWritten, InsertInvite

LEMMA RefreshInviteStep == ASSUME IndInv, NEW q \in Reqs, RefreshInvite(q) PROVE IndInv'
BY InviteWrittenKeeps DEF InviteWritten, RefreshInvite

LEMMA OrgCreateStep == ASSUME IndInv, NEW q \in Reqs, OrgCreate(q) PROVE IndInv'
<1>1. CASE Refuse(q, "500")
  BY <1>1, RefusedKeeps DEF OrgCreate, Refuse, Errors
<1>2. CASE req' = [req EXCEPT ![q].w.slug = req[q].tok, ![q].pc = "commit"]
  <2> DEFINE v == [req[q].w EXCEPT !.slug = req[q].tok]
  <2>1. req[q] \in Request /\ ReqInv(req[q], users, members) /\ req[q].w \in Writes
    BY Facts, WritesOf
  <2>2. req[q].tok \in Nat
    BY <2>1 DEF Request
  <2>3. ASSUME NEW n \in Nat
        PROVE  LET x == [req[q].w EXCEPT !.slug = n] IN /\ x \in Writes /\ x.user = req[q].w.user
                                                       /\ x.invite = req[q].w.invite
    BY <2>1 DEF Writes
  <2>4. v \in Writes /\ v.user = req[q].w.user /\ v.invite = req[q].w.invite
    BY <2>2, <2>3
  <2>5. req' = [req EXCEPT ![q] = Moved(req[q], "commit", v)]
    <3>1. req' = [req EXCEPT ![q] = [req[q] EXCEPT !.w.slug = req[q].tok, !.pc = "commit"]]
      BY <1>2
    <3>2. [req[q] EXCEPT !.w.slug = req[q].tok, !.pc = "commit"] = Moved(req[q], "commit", v)
      BY <2>1 DEF Moved, Request
    <3> QED BY <3>1, <3>2
  <2>6. Busy(req[q]) /\ ~LetsIn(req[q])
    BY <2>1 DEF OrgCreate, Busy, ReqInv, InputInv, WithAccount
  <2>7. "commit" \in Steps \ {"idle", "done", "user", "pending"} /\ UNCHANGED Tables
    BY DEF Steps, OrgCreate
  <2> HIDE DEF v
  <2> QED BY <2>4, <2>5, <2>6, <2>7, StatementKeeps
<1> QED BY <1>1, <1>2 DEF OrgCreate

(* The INSERT waits for another writer of the address, and fails if there is
   an account by then. *)
LEMMA UserCreateStep == ASSUME IndInv, NEW q \in Reqs, UserCreate(q) PROVE IndInv'
<1>1. CASE Refuse(q, "500")
  BY <1>1, RefusedKeeps DEF UserCreate, Refuse, Errors
<1>2. CASE /\ users[req[q].e] = None
           /\ req' = [req EXCEPT ![q].w.user = req[q].pw,
                        ![q].pc = IF req[q].op = "register" THEN "slug" ELSE "select member"]
  <2> DEFINE v == [req[q].w EXCEPT !.user = req[q].pw]
             l == IF req[q].op = "register" THEN "slug" ELSE "select member"
             r == Moved(req[q], l, v)
  <2>1. req[q] \in Request /\ ReqInv(req[q], users, members) /\ req[q].w \in Writes
    BY Facts, WritesOf
  <2>2. req[q].pw \in Secrets
    BY <2>1 DEF Request
  <2>3. v \in Writes /\ v.user = req[q].pw /\ v.invite = req[q].w.invite
    BY <2>1, <2>2 DEF Writes
  <2>4. req' = [req EXCEPT ![q] = r]
    <3>1. req' = [req EXCEPT ![q] = [req[q] EXCEPT !.w.user = req[q].pw, !.pc = l]]
      BY <1>2
    <3>2. [req[q] EXCEPT !.w.user = req[q].pw, !.pc = l] = r
      BY <2>1 DEF Moved, Request
    <3> QED BY <3>1, <3>2
  <2>5. req[q].pc = "insert user" /\ Busy(req[q]) /\ (LetsIn(req[q]) \/ req[q].op = "register")
    BY <2>1 DEF UserCreate, Busy, ReqInv, InputInv
  <2>6. l \in Steps /\ l \in {"slug", "select member"} /\ (LetsIn(req[q]) => l = "select member")
    BY DEF Steps, LetsIn
  <2> HIDE DEF v, l
  <2>7. r \in Request /\ SameBut(req[q], r, l, v)
    BY <2>1, <2>3, <2>6, MovedFields
  <2> HIDE DEF r
  <2>8. ReqInv(r, users, members)
    <3>1. LetsIn(r) <=> LetsIn(req[q])
      BY <2>7 DEF LetsIn, SameBut
    <3>2. Busy(r) /\ r.pw # None
      BY <2>1, <2>5, <2>6, <2>7 DEF Busy, ReqInv, InputInv, SameBut
    <3>3. InputInv(r)
      BY <2>1, <2>5, <2>6, <2>7, <3>1, <3>2 DEF ReqInv, InputInv, WithAccount, SameBut
    <3>4. WriteInv(r, users)
      BY <1>2, <2>3, <2>5, <2>7, <3>2 DEF WriteInv, LetsIn, SameBut
    <3>5. AccountInv(r, users) /\ MemberInv(r)
      BY <2>3, <2>6, <2>7, <3>2 DEF AccountInv, RoleInv, MemberInv, SameBut
    <3>6. AnswerInv(r, users, members)
      BY <2>1, <2>5, <2>7 DEF ReqInv, AnswerInv, SameBut
    <3>7. RoleInv(r)
      BY <2>1, <2>3, <2>6, <2>7 DEF ReqInv, RoleInv, SameBut
    <3> QED BY <3>3, <3>4, <3>5, <3>6, <3>7 DEF ReqInv
  <2>9. Alone(q, r)
    <3>1. ASSUME NEW x \in Reqs \ {q}, req[x].w.user # None PROVE req[x].e # req[q].e
      <4>1. Active(x)
        BY <3>1, Facts DEF ReqInv, WriteInv, Busy, Active
      <4> QED BY <3>1, <4>1 DEF UserCreate, UserLocked
    <3> QED BY <2>7, <3>1 DEF Alone, SameBut
  <2> QED BY <2>4, <2>7, <2>8, <2>9, RequestKeeps DEF UserCreate
<1> QED BY <1>1, <1>2 DEF UserCreate

LEMMA FailStep == ASSUME IndInv, NEW q \in Reqs, Fail(q) PROVE IndInv'
BY RefusedKeeps DEF Fail, Refuse, Errors

(* The commit *)

(* Accounts stay as they are, and members stay members. *)
Grows(us, ms) ==
  \A e \in Emails : /\ users[e] # None => us[e] = users[e]
                    /\ members[e] # None => ms[e] # None

(* What a request knows of the tables survives the commit of another one. *)
LEMMA OtherKeeps ==
  ASSUME NEW r, NEW us, NEW ms, ReqInv(r, users, members), Grows(us, ms),
         r.w.user # None => us[r.e] = users[r.e]
  PROVE  ReqInv(r, us, ms)
<1>1. LetsIn(r) => r.e \in Emails
  BY DEF ReqInv, InputInv
<1>2. WriteInv(r, us)
  BY DEF ReqInv, WriteInv
<1>3. AccountInv(r, us)
  BY <1>1 DEF ReqInv, AccountInv, Grows
<1>4. AnswerInv(r, us, ms)
  BY <1>1 DEF ReqInv, AnswerInv, Grows
<1> QED BY <1>2, <1>3, <1>4 DEF ReqInv

LEMMA SucceededFields ==
  ASSUME NEW q \in Reqs, req[q] \in Request
  PROVE  /\ Succeeded(q) \in Request
         /\ Succeeded(q).op = req[q].op /\ Succeeded(q).pc = "done" /\ Succeeded(q).e = req[q].e
         /\ Succeeded(q).pw = req[q].pw /\ Succeeded(q).w = NoWrites
         /\ Succeeded(q).answer = "200"
BY DEF Succeeded, Idle, NoWrites, Request, Secrets, Roles

(* A request is done: what it answers holds by what it left in the tables. *)
LEMMA SucceededInv ==
  ASSUME NEW q \in Reqs, NEW us, NEW ms, req[q] \in Request, InputInv(req[q]),
         LetsIn(req[q]) => /\ us[req[q].e] # None /\ ms[req[q].e] # None
                           /\ req[q].op = "accept" => us[req[q].e] = req[q].pw
  PROVE  ReqInv(Succeeded(q), us, ms)
<1> DEFINE r == Succeeded(q)
<1>1. /\ r.op = req[q].op /\ r.pc = "done" /\ r.e = req[q].e /\ r.pw = req[q].pw
      /\ r.w = NoWrites /\ r.answer = "200"
  BY SucceededFields
<1> HIDE DEF r
<1>2. (LetsIn(r) <=> LetsIn(req[q])) /\ ~Busy(r) /\ r.w.user = None /\ r.w.invite = None
  BY <1>1 DEF LetsIn, Busy, NoWrites
<1>3. InputInv(r)
  BY <1>1, <1>2 DEF InputInv
<1>4. WriteInv(r, us)
  BY <1>2 DEF WriteInv
<1>5. AccountInv(r, us) /\ MemberInv(r) /\ RoleInv(r)
  BY <1>1, <1>2 DEF AccountInv, MemberInv, RoleInv, WithAccount, None
<1>6. AnswerInv(r, us, ms)
  BY <1>1, <1>2 DEF AnswerInv
<1> QED BY <1>3, <1>4, <1>5, <1>6 DEF ReqInv, r

LEMMA ResolveMembershipStep == ASSUME IndInv, NEW q \in Reqs, ResolveMembership(q) PROVE IndInv'
<1>1. CASE \E a \in {"401", "404"} : req' = [req EXCEPT ![q] = Refused(a)]
  BY <1>1, RefusedKeeps DEF ResolveMembership, Errors
<1>2. CASE req' = [req EXCEPT ![q] = Succeeded(q)]
  <2>1. req[q] \in Request /\ InputInv(req[q]) /\ ~LetsIn(req[q])
    BY Facts DEF ResolveMembership, ReqInv, InputInv, WithAccount
  <2>2. Succeeded(q) \in Request /\ Succeeded(q).w = NoWrites
    BY <2>1, SucceededFields
  <2>3. ReqInv(Succeeded(q), users, members)
    BY <2>1, SucceededInv
  <2> QED BY <1>2, <2>2, <2>3, StartKeeps DEF ResolveMembership
<1> QED BY <1>1, <1>2 DEF ResolveMembership

(* The row of the invitation after a commit. *)
LEMMA InviteAfterRow ==
  ASSUME IndInv, NEW q \in Reqs, req[q].e \in Emails
  PROVE  LET row == invites[req[q].e]
             new == InviteAfter(q, row)
         IN  /\ new \in [st : {None, "pending", "accepted", "expired"}, role : Roles, tok : Nat]
             /\ new.st = "pending" => new.role # None
             /\ row.st = "accepted" => new.st = "accepted"
<1> DEFINE row == invites[req[q].e]
           Row == [st : {None, "pending", "accepted", "expired"}, role : Roles, tok : Nat]
<1>1. row \in Row /\ issued[req[q].e] \in Nat /\ (row.st = "pending" => row.role # None)
  BY DEF IndInv, TypeOK, InviteInv
<1>2. req[q] \in Request /\ RoleInv(req[q]) /\ req[q].role \in Roles
  BY Facts DEF ReqInv, Request
<1>3. CASE req[q].w.invite = "accepted"
  <2>1. InviteAfter(q, row) = [row EXCEPT !.st = "accepted"]
    BY <1>3 DEF InviteAfter
  <2> QED BY <1>1, <2>1
<1>4. CASE req[q].w.invite \in {"insert", "refresh"}
  <2> DEFINE n == issued[req[q].e] + 1
  <2>1. n \in Nat
    BY <1>1
  <2> HIDE DEF n
  <2>2. InviteAfter(q, row) = [st |-> IF row.st = "accepted" THEN "accepted" ELSE "pending",
                               role |-> req[q].role, tok |-> n]
    BY <1>4 DEF InviteAfter, n
  <2>3. req[q].role # None
    BY <1>2, <1>4 DEF RoleInv
  <2> QED BY <1>1, <1>2, <2>1, <2>2, <2>3
<1>5. CASE req[q].w.invite \notin {"accepted", "insert", "refresh"}
  <2>1. InviteAfter(q, row) = row
    BY <1>5 DEF InviteAfter
  <2> QED BY <1>1, <2>1
<1> QED BY <1>3, <1>4, <1>5

LEMMA SlugsKeep ==
  ASSUME IndInv, NEW q \in Reqs, Commit(q) PROVE slugs' \in SUBSET Nat /\ IsFiniteSet(slugs')
<1>1. slugs \in SUBSET Nat /\ IsFiniteSet(slugs)
  BY DEF IndInv, TypeOK
<1>2. req[q].w.slug \in Nat
  BY Facts DEF Request
<1>3. slugs' = slugs \/ slugs' = slugs \cup {req[q].w.slug}
  BY DEF Commit
<1>4. IsFiniteSet(slugs \cup {req[q].w.slug})
  BY <1>1, FS_AddElement
<1> QED BY <1>1, <1>2, <1>3, <1>4

LEMMA CommitStep == ASSUME IndInv, NEW q \in Reqs, Commit(q) PROVE IndInv'
<1> DEFINE e == req[q].e
           w == req[q].w
<1>1. req[q] \in Request /\ ReqInv(req[q], users, members) /\ req[q].pc = "commit"
  BY Facts DEF Commit
<1>2. TypeOK
  BY DEF IndInv
<1>3. Busy(req[q]) /\ InputInv(req[q]) /\ WriteInv(req[q], users)
  BY <1>1 DEF Busy, ReqInv
<1>4. req' = [req EXCEPT ![q] = Succeeded(q)] /\ UNCHANGED <<keys, conns>>
  BY DEF Commit
<1>5. req'[q] = Succeeded(q) /\ \A x \in Reqs \ {q} : req'[x] = req[x]
  BY <1>2, <1>4 DEF TypeOK
<1>6. Succeeded(q) \in Request /\ Succeeded(q).w.user = None
  BY <1>1, SucceededFields DEF NoWrites
<1>7. req' \in [Reqs -> Request]
  BY <1>2, <1>4, <1>6 DEF TypeOK
<1>8. OneWriter'
  BY <1>5, <1>6 DEF IndInv, OneWriter
<1>9. slugs' \in SUBSET Nat /\ IsFiniteSet(slugs')
  BY SlugsKeep
<1>10. CASE e = None
  <2>1. UNCHANGED <<users, members, invites, issued>>
    BY <1>10 DEF Commit
  <2>2. ~LetsIn(req[q])
    BY <1>3, <1>10, NamesAssumption DEF InputInv
  <2>3. ReqInv(Succeeded(q), users, members)
    BY <1>1, <1>3, <2>2, SucceededInv
  <2>4. ASSUME NEW x \in Reqs PROVE ReqInv(req'[x], users', members')
    BY <1>5, <2>1, <2>3 DEF IndInv
  <2>5. TypeOK' /\ InviteInv'
    BY <1>2, <1>4, <1>7, <1>9, <2>1 DEF TypeOK, IndInv, InviteInv
  <2> QED BY <1>8, <1>9, <2>4, <2>5 DEF IndInv
<1>11. CASE e # None
  <2>1. e \in Emails
    BY <1>1, <1>11 DEF Request
  <2>2. /\ users' = [users EXCEPT ![e] = IF w.user # None THEN w.user ELSE @]
        /\ members' = [members EXCEPT ![e] = MemberAfter(q)]
        /\ invites' = [invites EXCEPT ![e] = InviteAfter(q, @)]
        /\ issued' = [issued EXCEPT ![e] = IF w.invite \in {"insert", "refresh"} THEN @ + 1 ELSE @]
    BY <1>11 DEF Commit
  <2>3. w.user \in Secrets /\ w.member \in Roles
    BY <1>1 DEF Request
  <2>4. MemberAfter(q) \in Roles /\ (w.member # None \/ members[e] # None => MemberAfter(q) # None)
    BY <1>2, <2>1, <2>3 DEF MemberAfter, TypeOK
  <2>5. /\ users'[e] = IF w.user # None THEN w.user ELSE users[e]
        /\ members'[e] = MemberAfter(q)
        /\ invites'[e] = InviteAfter(q, invites[e])
        /\ \A f \in Emails \ {e} :
              users'[f] = users[f] /\ members'[f] = members[f] /\ invites'[f] = invites[f]
    BY <1>2, <2>1, <2>2 DEF TypeOK
  <2>6. w.user # None => users[e] = None /\ w.user = req[q].pw
    BY <1>3 DEF WriteInv
  <2>7. Grows(users', members')
    BY <2>4, <2>5, <2>6 DEF Grows
  <2>8. ReqInv(Succeeded(q), users', members')
    <3>1. ASSUME LetsIn(req[q])
          PROVE  /\ users'[e] # None /\ members'[e] # None
                 /\ req[q].op = "accept" => users'[e] = req[q].pw
      <4>1. w.member # None
        BY <1>1, <3>1 DEF ReqInv, MemberInv
      <4>2. w.user # None \/ (users[e] # None /\ (req[q].op = "accept" => users[e] = req[q].pw))
        BY <1>1, <3>1 DEF ReqInv, AccountInv, WithAccount
      <4> QED BY <2>4, <2>5, <2>6, <4>1, <4>2
    <3> QED BY <1>1, <1>3, <3>1, SucceededInv
  <2>9. ASSUME NEW x \in Reqs \ {q} PROVE ReqInv(req[x], users', members')
    <3>1. ReqInv(req[x], users, members) /\ req[x] \in Request
      BY Facts
    <3>2. ASSUME req[x].w.user # None PROVE users'[req[x].e] = users[req[x].e]
      <4>1. req[x].e \in Emails
        BY <3>1, <3>2 DEF ReqInv, WriteInv, InputInv
      <4>2. w.user # None => req[x].e # e
        BY <3>2 DEF IndInv, OneWriter
      <4> QED BY <2>5, <4>1, <4>2
    <3> QED BY <2>7, <3>1, <3>2, OtherKeeps
  <2>10. ASSUME NEW x \in Reqs PROVE ReqInv(req'[x], users', members')
    BY <1>5, <2>8, <2>9
  <2> DEFINE Row == [st : {None, "pending", "accepted", "expired"}, role : Roles, tok : Nat]
  <2>11. InviteAfter(q, invites[e]) \in Row
    BY <2>1, InviteAfterRow
  <2>12. users' \in [Emails -> Secrets] /\ members' \in [Emails -> Roles]
    BY <1>2, <2>1, <2>2, <2>3, <2>4 DEF TypeOK
  <2>13. invites' \in [Emails -> Row]
    <3> HIDE DEF Row
    <3>1. invites \in [Emails -> Row]
      BY <1>2 DEF TypeOK, Row
    <3> QED BY <2>2, <2>11, <3>1
  <2>14. issued' \in [Emails -> Nat]
    BY <1>2, <2>1, <2>2 DEF TypeOK
  <2>15. TypeOK'
    BY <1>2, <1>4, <1>7, <1>9, <2>12, <2>13, <2>14 DEF TypeOK
  <2>16. InviteInv'
    BY <2>1, <2>5, InviteAfterRow DEF IndInv, InviteInv
  <2> QED BY <1>8, <1>9, <2>10, <2>15, <2>16 DEF IndInv
<1> QED BY <1>10, <1>11

LEMMA StatementStep == ASSUME IndInv, NEW q \in Reqs, Statement(q) PROVE IndInv'
BY ResolveMembershipStep, GetPendingStep, GetByEmailStep, UserCreateStep, UniqueSlugStep,
   OrgCreateStep, UpsertSelectStep, InsertMemberStep, UpdateMemberStep, MarkAcceptedStep,
   InsertInviteStep, RefreshInviteStep, CommitStep
   DEF Statement

-----------------------------------------------------------------------------
(* The other steps, and the specification *)

LEMMA AccountRequestsStep ==
  ASSUME IndInv, NEW q \in Reqs, AccountRequests(q) PROVE IndInv'
<1>1. ASSUME NEW e \in Emails, NEW pw \in Passwords, NEW tok \in 1 .. issued[e],
             AcceptInvite(q, e, tok, pw)
      PROVE  IndInv'
  <2>1. tok \in Nat
    BY DEF IndInv, TypeOK
  <2> QED BY <1>1, <2>1, AcceptInviteStep
<1> QED BY <1>1, RegisterStep, LoginStep, RefreshStep DEF AccountRequests

LEMMA SsoRequestsStep == ASSUME IndInv, NEW q \in Reqs, SsoRequests(q) PROVE IndInv'
BY ConsumeAcsStep, BeginLoginStep DEF SsoRequests

(* Keys and connections: the tables of accounts are left alone. *)
LEMMA KeysKeep ==
  ASSUME IndInv, UNCHANGED <<users, members, invites, slugs, req, issued>>,
         keys' \in [Keys -> [st : {None, "live", "revoked", "expired"},
                             scopes : SUBSET ALL_API_KEY_SCOPES]],
         conns' \in [Conns -> {None, "draft", "active", "disabled"}]
  PROVE  IndInv'
BY DEF IndInv, TypeOK, OneWriter, InviteInv

LEMMA KeyRequestsStep == ASSUME IndInv, KeyRequests PROVE IndInv'
<1> DEFINE KeySet == [st : {None, "live", "revoked", "expired"}, scopes : SUBSET ALL_API_KEY_SCOPES]
<1>1. keys \in [Keys -> KeySet] /\ conns \in [Conns -> {None, "draft", "active", "disabled"}]
  BY DEF IndInv, TypeOK
<1>2. ASSUME NEW k \in Keys, NEW p, NEW scopes, CreateApiKey(k, p, scopes) PROVE IndInv'
  <2>1. NewKey(scopes) \in KeySet
    BY <1>2 DEF CreateApiKey, NewKey
  <2>2. keys' \in [Keys -> KeySet]
    <3> HIDE DEF KeySet
    <3> QED BY <1>1, <1>2, <2>1 DEF CreateApiKey
  <2> QED BY <1>1, <1>2, <2>2, KeysKeep DEF CreateApiKey
<1>3. ASSUME NEW k \in Keys, NEW p, RevokeApiKey(k, p) PROVE IndInv'
  <2>1. keys' \in [Keys -> KeySet]
    BY <1>1, <1>3 DEF RevokeApiKey
  <2> QED BY <1>1, <1>3, <2>1, KeysKeep DEF RevokeApiKey
<1> QED BY <1>2, <1>3 DEF KeyRequests

LEMMA KeyExpiresStep == ASSUME IndInv, NEW k \in Keys, KeyExpires(k) PROVE IndInv'
<1>1. conns \in [Conns -> {None, "draft", "active", "disabled"}]
  BY DEF IndInv, TypeOK
<1>2. keys' \in [Keys -> [st : {None, "live", "revoked", "expired"},
                          scopes : SUBSET ALL_API_KEY_SCOPES]]
  BY DEF IndInv, TypeOK, KeyExpires
<1> QED BY <1>1, <1>2, KeysKeep DEF KeyExpires

LEMMA ConnectionRequestsStep == ASSUME IndInv, ConnectionRequests PROVE IndInv'
<1>1. PICK c \in Conns, s \in {None, "draft", "active", "disabled"} :
         /\ conns' = [conns EXCEPT ![c] = s]
         /\ UNCHANGED <<users, members, invites, slugs, keys, req, issued>>
  BY DEF ConnectionRequests, CreateConnection, DeleteConnection, UpdateConnection, NewConnection
<1>2. conns' \in [Conns -> {None, "draft", "active", "disabled"}]
  BY <1>1 DEF IndInv, TypeOK
<1>3. keys' \in [Keys -> [st : {None, "live", "revoked", "expired"},
                          scopes : SUBSET ALL_API_KEY_SCOPES]]
  BY <1>1 DEF IndInv, TypeOK
<1> QED BY <1>1, <1>2, <1>3, KeysKeep

LEMMA InviteExpiresStep == ASSUME IndInv, NEW e \in Emails, InviteExpires(e) PROVE IndInv'
<1>1. UNCHANGED <<users, members, slugs, keys, conns, req, issued>>
  BY DEF InviteExpires
<1>2. /\ invites' \in [Emails -> [st : {None, "pending", "accepted", "expired"},
                                  role : Roles, tok : Nat]]
      /\ \A f \in Emails : invites'[f].st = "pending" => invites'[f] = invites[f]
  BY DEF IndInv, TypeOK, InviteExpires
<1>3. TypeOK'
  BY <1>1, <1>2 DEF IndInv, TypeOK
<1>4. InviteInv'
  BY <1>2 DEF IndInv, InviteInv
<1> QED BY <1>1, <1>3, <1>4 DEF IndInv, OneWriter

LEMMA InitInv == Init => IndInv
<1> SUFFICES ASSUME Init PROVE IndInv
  OBVIOUS
<1>1. Idle \in Request
  BY DEF Idle, NoWrites, Request, Secrets, Roles
<1>2. ReqInv(Idle, users, members) /\ Idle.w.user = None
  BY DEF Idle, NoWrites, None, ReqInv, InputInv, WriteInv, AccountInv, RoleInv, MemberInv,
    AnswerInv, LetsIn, Busy, WithAccount
<1>3. \A q \in Reqs : req[q] = Idle
  BY DEF Init
<1>4. users \in [Emails -> Secrets] /\ members \in [Emails -> Roles]
  BY DEF Init, Secrets, Roles, OrgRole
<1>5. \A e \in Emails :
        /\ invites[e] \in [st : {None, "pending", "accepted", "expired"}, role : Roles, tok : Nat]
        /\ invites[e].st = "pending" => invites[e].role # None
  <2> SUFFICES ASSUME NEW e \in Emails
      PROVE  /\ invites[e] \in [st : {None, "pending", "accepted", "expired"},
                                role : Roles, tok : Nat]
             /\ invites[e].st = "pending" => invites[e].role # None
    OBVIOUS
  <2>1. CASE invites[e] = NoInvite
    BY <2>1 DEF NoInvite, Roles, None
  <2>2. CASE invites[e] \in [st : {"pending", "accepted"}, role : InviteRoles, tok : {1}]
    <3>1. PICK st \in {"pending", "accepted"}, role \in InviteRoles :
             invites[e] = [st |-> st, role |-> role, tok |-> 1]
      BY <2>2
    <3>2. role \in Roles /\ role # None
      BY NamesAssumption DEF Roles, OrgRole, None
    <3>3. 1 \in Nat
      OBVIOUS
    <3> QED BY <3>1, <3>2, <3>3
  <2> QED BY <2>1, <2>2 DEF Init
<1>6. /\ invites \in [Emails -> [st : {None, "pending", "accepted", "expired"},
                                 role : Roles, tok : Nat]]
      /\ issued \in [Emails -> Nat]
  BY <1>5 DEF Init
<1>7. slugs \in SUBSET Nat /\ IsFiniteSet(slugs)
  <2>1. slugs = {1}
    BY DEF Init
  <2>2. IsFiniteSet({1})
    BY FS_Singleton
  <2> QED BY <2>1, <2>2
<1>8. NoKey \in [st : {None, "live", "revoked", "expired"}, scopes : SUBSET ALL_API_KEY_SCOPES]
  BY DEF NoKey
<1>9. TypeOK
  BY <1>1, <1>4, <1>6, <1>7, <1>8 DEF Init, TypeOK
<1> QED BY <1>2, <1>3, <1>5, <1>7, <1>9 DEF IndInv, OneWriter, InviteInv

LEMMA NextInv == ASSUME IndInv, [Next]_vars PROVE IndInv'
<1>1. CASE UNCHANGED vars
  BY <1>1 DEF vars, IndInv, TypeOK, OneWriter, InviteInv
<1>2. ASSUME NEW q \in Reqs, OrgRequests(q) PROVE IndInv'
  BY <1>2, CreateOrgStep DEF OrgRequests
<1>3. ASSUME NEW q \in Reqs, MemberRequests(q) PROVE IndInv'
  BY <1>3, AddMemberStep, CreateInviteStep DEF MemberRequests
<1> QED BY <1>1, <1>2, <1>3, AccountRequestsStep, SsoRequestsStep, StatementStep, FailStep,
        KeyRequestsStep, ConnectionRequestsStep, InviteExpiresStep, KeyExpiresStep DEF Next

(* The rows of the tables and the state of every request have their types. *)
THEOREM TypeCorrect == Spec => []TypeOK
<1>1. IndInv => TypeOK
  BY DEF IndInv
<1> QED BY <1>1, InitInv, NextInv, PTL DEF Spec

(* Whoever accept_invite or consume_acs let in has an account and a
   membership, and of the people who accept one invitation only those hold
   tokens whose password is the account's, for any number of racing requests. *)
THEOREM AnswersAreTrue == Spec => []AnswersHold
<1>1. IndInv => AnswersHold
  BY DEF IndInv, ReqInv, AnswerInv, LetsIn, AnswersHold, AnsweredIsMember, OneAccountPerInvite
<1> QED BY <1>1, InitInv, NextInv, PTL DEF Spec

(* A refresh of an invitation that is accepted meanwhile does not reopen it. *)
LEMMA AcceptedStays ==
  ASSUME IndInv, [Next]_vars, NEW e \in Emails, invites[e].st = "accepted"
  PROVE  invites'[e].st = "accepted"
<1>1. CASE invites' = invites
  BY <1>1
<1>2. ASSUME NEW f \in Emails, InviteExpires(f) PROVE invites'[e].st = "accepted"
  BY <1>2 DEF InviteExpires, IndInv, TypeOK
<1>3. ASSUME NEW q \in Reqs, Commit(q) PROVE invites'[e].st = "accepted"
  <2>1. CASE req[q].e = None
    BY <1>3, <2>1 DEF Commit
  <2>2. CASE req[q].e # None
    <3>1. invites' = [invites EXCEPT ![req[q].e] = InviteAfter(q, @)]
      BY <1>3, <2>2 DEF Commit
    <3>2. req[q].e \in Emails
      BY <2>2, Facts DEF Request
    <3>3. invites[req[q].e].st = "accepted" => InviteAfter(q, invites[req[q].e]).st = "accepted"
      BY <3>2, InviteAfterRow
    <3> QED BY <3>1, <3>2, <3>3 DEF IndInv, TypeOK
  <2> QED BY <2>1, <2>2
<1>4. ASSUME NEW q \in Reqs, Statement(q), ~Commit(q) PROVE invites' = invites
  BY <1>4 DEF Statement, ResolveMembership, GetPending, GetByEmail, UserCreate, UniqueSlug,
    OrgCreate, UpsertSelect, InsertMember, UpdateMember, MarkAccepted, InsertInvite,
    RefreshInvite, Tables
<1>5. ASSUME NEW q \in Reqs, AccountRequests(q) \/ OrgRequests(q) \/ MemberRequests(q)
             \/ SsoRequests(q) \/ Fail(q)
      PROVE  invites' = invites
  BY <1>5 DEF AccountRequests, OrgRequests, MemberRequests, SsoRequests, Fail, Register, Login,
    Refresh, AcceptInvite, CreateOrg, AddMember, CreateInvite, ConsumeAcs, BeginLogin, Tables
<1>6. KeyRequests \/ ConnectionRequests \/ (\E k \in Keys : KeyExpires(k)) => invites' = invites
  BY DEF KeyRequests, ConnectionRequests, CreateApiKey, RevokeApiKey, CreateConnection,
    DeleteConnection, UpdateConnection, KeyExpires
<1>7. UNCHANGED vars => invites' = invites
  BY DEF vars
<1> QED BY <1>1, <1>2, <1>3, <1>4, <1>5, <1>6, <1>7 DEF Next

(* An invitation that has been accepted stays accepted. *)
THEOREM AcceptanceIsFinal == Spec => AcceptedIsFinal
<1>1. IndInv /\ [Next]_vars =>
        [\A e \in Emails : invites[e].st = "accepted" => invites'[e].st = "accepted"]_vars
  BY AcceptedStays
<1> QED BY <1>1, InitInv, NextInv, PTL DEF Spec, AcceptedIsFinal

=============================================================================
