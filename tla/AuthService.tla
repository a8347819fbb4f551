---------------------------- MODULE AuthService ----------------------------
(***************************************************************************)
(* Accounts, memberships, invitations, API keys and SAML connections of    *)
(* one organization: modules/auth with its repositories and the handlers   *)
(* of api/v1/auth.py, orgs.py, api_keys.py and sso.py.                     *)
(*                                                                         *)
(* A request is one transaction of PostgreSQL (READ COMMITTED), modelled   *)
(* statement by statement: a SELECT sees what is committed, an INSERT or   *)
(* UPDATE keeps its row until the transaction ends, another writer of the  *)
(* row waits, and an INSERT of a key that is committed meanwhile fails.    *)
(* A request may fail at any statement, which rolls it back.  Passwords,   *)
(* tokens and keys are names; hashing and signing are left out.            *)
(***************************************************************************)
EXTENDS Integers, Sequences, FiniteSets

CONSTANTS Reqs, Emails, Passwords, Keys, Conns,
          Bearers,          \* tokens a caller may hold, besides none
          Assertions,       \* SAML responses an identity provider may send
          RoleMappingRules, \* role_mapping_rules of the connections, in order
          InviteRoles,      \* roles an invitation is asked for
          KeyScopes         \* scope lists a key is asked for

None == "none"

----------------------------------------------------------------------------
(* Roles, scopes and principals (core/domain/auth.py).                     *)

OrgRole == {"owner", "admin", "member"}

\* None stands for what is absent; the schemas of the API admit no other roles.
ASSUME NamesAssumption ==
    /\ None \notin Emails /\ None \notin Passwords
    /\ InviteRoles \subseteq OrgRole
    /\ \A a \in Assertions : a.email \in Emails
    /\ RoleMappingRules \in Seq(STRING \X STRING)

MEMBER_SCOPES == {"sessions:read", "sessions:write", "ws:connect", "knowledge:read",
                  "handoffs:read", "handoffs:write"}
ADMIN_SCOPES == MEMBER_SCOPES \cup
    {"sessions:delete", "orgs:read", "orgs:manage_members", "api_keys:read", "api_keys:write",
     "api_keys:delete", "knowledge:write", "knowledge:delete", "handoffs:assign", "metrics:read"}
ROLE_SCOPES == [owner |-> ADMIN_SCOPES \cup {"orgs:write"}, admin |-> ADMIN_SCOPES,
                member |-> MEMBER_SCOPES]
ALL_API_KEY_SCOPES == UNION {ROLE_SCOPES[r] : r \in OrgRole}

\* A key's principal has no role, and counts as a member for the last test.
has_scope(p, scope) ==
    \/ scope \in p.scopes
    \/ p.role \in {"owner", "admin"}
    \/ scope \in ROLE_SCOPES[IF p.role = None THEN "member" ELSE p.role]

NoToken == [type |-> None, role |-> None]
Unauthorized == [type |-> None, role |-> None, scopes |-> {}]

principal_from_access_token(t) ==
    IF t.type # "access" THEN Unauthorized
    ELSE [type |-> "user", role |-> t.role, scopes |-> {}]

----------------------------------------------------------------------------
VARIABLES users,    \* email -> the password of its account, or None
          members,  \* email -> its role in the organization, or None
          invites,  \* email -> the row of organization_invites
          slugs,    \* slugs of one name that are taken: 1 is the name itself
          keys,     \* API keys
          conns,    \* SAML connections -> status
          req,      \* requests
          issued    \* history: the last token of an invitation handed out, by email

vars == <<users, members, invites, slugs, keys, conns, req, issued>>

NoInvite == [st |-> None, role |-> None, tok |-> 0]
NoKey == [st |-> None, scopes |-> {}]
NewKey(scopes) == [st |-> "live", scopes |-> scopes]
NewConnection == "draft"

\* What a request has written and not committed; None (0) is nothing.
NoWrites == [user |-> None, member |-> None, invite |-> None, slug |-> 0]

Idle == [op |-> None, pc |-> "idle", e |-> None, pw |-> None, tok |-> 0, role |-> None,
         w |-> NoWrites, answer |-> None]

----------------------------------------------------------------------------
(* Principals of a request (api/dependencies.py).                          *)

resolve_principal_from_api_key(k) ==
    IF keys[k].st # "live" THEN Unauthorized
    ELSE [type |-> "api_key", role |-> None, scopes |-> keys[k].scopes]

\* The header comes before the key, the key before the cookie; one that does
\* not resolve is a 401 although another would.
get_current_principal(bearer, key, cookie) ==
    IF bearer # NoToken THEN principal_from_access_token(bearer)
    ELSE IF key # None THEN resolve_principal_from_api_key(key)
    ELSE IF cookie # NoToken THEN principal_from_access_token(cookie)
    ELSE Unauthorized

\* Callers a handler may see: every combination of the three.
Callers == {get_current_principal(b, k, c) :
              b \in Bearers \cup {NoToken}, k \in Keys \cup {None}, c \in Bearers \cup {NoToken}}

\* require_scope: 401 without a principal, 403 without the scope.
Refusal(p, scope) ==
    IF p = Unauthorized THEN "401" ELSE IF has_scope(p, scope) THEN None ELSE "403"

----------------------------------------------------------------------------
(* SAML (infrastructure/security/saml.py, modules/auth/.../sso_service.py). *)

verify_signature(a) == a.signature = "valid"
validate_audience(a) == a.audience = "sp"
validate_conditions(a) == a.window = "now"

validate_saml_response(a) == validate_audience(a) /\ validate_conditions(a) /\ verify_signature(a)

\* The first attribute of each list of names; without an email there is none.
parse_saml_assertion(a) == [email |-> a.email, groups |-> a.groups]

resolve_role_from_mapping(groups) ==
    LET hits == {i \in DOMAIN RoleMappingRules :
                    RoleMappingRules[i][1] \in groups /\ RoleMappingRules[i][2] \in OrgRole}
    IN  IF hits = {} THEN "member"
        ELSE RoleMappingRules[CHOOSE i \in hits : \A j \in hits : i <= j][2]

ActiveConns == {c \in Conns : conns[c] = "active"}

\* The connection of an ACS call: named, or from the relay state, or the one
\* that is active; None is an error.
resolve_acs_connection(named) ==
    IF named # None THEN (IF conns[named] = "active" THEN named ELSE None)
    ELSE IF Cardinality(ActiveConns) = 1 THEN CHOOSE c \in ActiveConns : TRUE
    ELSE None

----------------------------------------------------------------------------
(* Transactions.                                                           *)

Active(q) == req[q].pc \notin {"idle", "done"}

\* Another transaction has written the row and has not ended.
UserLocked(q) == \E x \in Reqs \ {q} : Active(x) /\ req[x].e = req[q].e /\ req[x].w.user # None
MemberLocked(q) == \E x \in Reqs \ {q} : Active(x) /\ req[x].e = req[q].e /\ req[x].w.member # None
InviteLocked(q) == \E x \in Reqs \ {q} : Active(x) /\ req[x].e = req[q].e /\ req[x].w.invite # None
SlugLocked(q, n) == \E x \in Reqs \ {q} : Active(x) /\ req[x].w.slug = n

Tables == <<users, members, invites, slugs, keys, conns, issued>>

Goto(q, pc) == req' = [req EXCEPT ![q].pc = pc]
Refused(a) == [Idle EXCEPT !.pc = "done", !.answer = a]
Refuse(q, a) == req' = [req EXCEPT ![q] = Refused(a)]

\* What is remembered of a request that succeeded: who it was for.
Succeeded(q) ==
    [Idle EXCEPT !.op = req[q].op, !.pc = "done", !.e = req[q].e, !.pw = req[q].pw, !.answer = "200"]

\* The membership is looked up by user id: an account of this transaction has none.
get_membership(q) == IF req[q].w.user # None THEN None ELSE members[req[q].e]

Start(q, op, e, pc) ==
    [Idle EXCEPT !.op = op, !.e = e, !.pc = pc]

----------------------------------------------------------------------------
(* Handlers up to their first statement that writes.                       *)

Register(q, e, pw) ==
    /\ req[q].pc = "idle"
    /\ req' = [req EXCEPT ![q] =
          IF users[e] # None THEN Refused("400")
          ELSE [Start(q, "register", e, "insert user") EXCEPT !.pw = pw]]
    /\ UNCHANGED Tables

CreateOrg(q, p) ==
    /\ req[q].pc = "idle"
    /\ LET r == IF Refusal(p, "orgs:write") # None THEN Refusal(p, "orgs:write")
                ELSE IF p.type = "api_key" THEN "400" ELSE None
       IN  req' = [req EXCEPT ![q] =
               IF r = None THEN Start(q, "org", None, "slug")
               ELSE Refused(r)]
    /\ UNCHANGED Tables

\* login and refresh read the account, then the membership: the role of the
\* tokens is the one of the second read.
Login(q, e, pw) ==
    /\ req[q].pc = "idle"
    /\ req' = [req EXCEPT ![q] =
          IF users[e] # pw THEN Refused("401")
          ELSE Start(q, "login", e, "role")]
    /\ UNCHANGED Tables

Refresh(q, e, type) ==
    /\ req[q].pc = "idle"
    /\ users[e] # None                         \* the token was issued for an account
    /\ req' = [req EXCEPT ![q] =
          IF type # "refresh" THEN Refused("401")
          ELSE Start(q, "refresh", e, "role")]
    /\ UNCHANGED Tables

\* _resolve_membership and the membership of refresh.
ResolveMembership(q) ==
    /\ req[q].pc = "role"
    /\ req' = [req EXCEPT ![q] =
          IF members[req[q].e] # None THEN Succeeded(q)
          ELSE Refused(IF req[q].op = "login" THEN "404" ELSE "401")]
    /\ UNCHANGED Tables

AddMember(q, p, e, role) ==
    /\ req[q].pc = "idle"
    /\ users[e] # None
    /\ LET r == Refusal(p, "orgs:manage_members")
       IN  req' = [req EXCEPT ![q] =
               IF r = None THEN [Start(q, "add", e, "insert member") EXCEPT !.role = role]
               ELSE Refused(r)]
    /\ UNCHANGED Tables

CreateInvite(q, p, e, role) ==
    /\ req[q].pc = "idle"
    /\ LET r == Refusal(p, "orgs:manage_members")
       IN  req' = [req EXCEPT ![q] =
               IF r # None THEN Refused(r)
               ELSE [Start(q, "invite", e, "pending") EXCEPT !.role = role]]
    /\ UNCHANGED Tables

\* get_pending_by_org_email decides between INSERT and UPDATE.
GetPending(q) ==
    /\ req[q].pc = "pending"
    /\ Goto(q, IF invites[req[q].e].st \in {"pending", "expired"} THEN "refresh invite"
               ELSE "insert invite")
    /\ UNCHANGED Tables

AcceptInvite(q, e, tok, pw) ==
    /\ req[q].pc = "idle"
    /\ LET row == invites[e]
       IN  req' = [req EXCEPT ![q] =
               IF row.st # "pending" \/ row.tok # tok
               THEN Refused("400")
               ELSE [Start(q, "accept", e, "user") EXCEPT
                        !.tok = tok, !.pw = pw, !.role = row.role]]
    /\ UNCHANGED Tables

BeginLogin(q, c) ==
    /\ req[q].pc = "idle"
    /\ req' = [req EXCEPT ![q] =
          IF conns[c] = "active" THEN [Idle EXCEPT !.op = "begin", !.pc = "done", !.answer = "200"]
          ELSE Refused(IF conns[c] = None THEN "404" ELSE "400")]
    /\ UNCHANGED Tables

ConsumeAcs(q, a, named) ==
    /\ req[q].pc = "idle"
    /\ req' = [req EXCEPT ![q] =
          IF resolve_acs_connection(named) = None \/ ~validate_saml_response(a)
          THEN Refused("400")
          ELSE LET assertion == parse_saml_assertion(a)
               IN  [Start(q, "acs", assertion.email, "user") EXCEPT
                       !.pw = "random", !.role = resolve_role_from_mapping(assertion.groups)]]
    /\ UNCHANGED Tables

----------------------------------------------------------------------------
(* Statements that several handlers share.                                 *)

\* get_by_email; accept_invite checks the password of an existing account.
GetByEmail(q) ==
    /\ req[q].pc = "user"
    /\ LET u == users[req[q].e]
       IN  IF u = None THEN Goto(q, "insert user")
           ELSE IF req[q].op = "accept" /\ u # req[q].pw THEN Refuse(q, "400")
           ELSE Goto(q, "select member")
    /\ UNCHANGED Tables

\* Mutant: the unique index of users.email is not there.
BugUserCreate(q) ==
    /\ req[q].pc = "insert user"
    /\ req' = [req EXCEPT ![q].w.user = req[q].pw,
                          ![q].pc = IF req[q].op = "register" THEN "slug" ELSE "select member"]
    /\ UNCHANGED Tables

UserCreate(q) ==
    /\ req[q].pc = "insert user"
    /\ ~UserLocked(q)
    /\ IF users[req[q].e] # None THEN Refuse(q, "500")
       ELSE req' = [req EXCEPT ![q].w.user = req[q].pw,
                        ![q].pc = IF req[q].op = "register" THEN "slug" ELSE "select member"]
    /\ UNCHANGED Tables

\* _unique_slug: the first number of the name that is free.
UniqueSlug(q) ==
    /\ req[q].pc = "slug"
    /\ LET n == CHOOSE i \in 1 .. Cardinality(slugs) + 1 :
                    i \notin slugs /\ \A j \in 1 .. i - 1 : j \in slugs
       IN  req' = [req EXCEPT ![q].tok = n, ![q].pc = "insert org"]
    /\ UNCHANGED Tables

OrgCreate(q) ==
    /\ req[q].pc = "insert org"
    /\ ~SlugLocked(q, req[q].tok)
    /\ IF req[q].tok \in slugs THEN Refuse(q, "500")
       ELSE req' = [req EXCEPT ![q].w.slug = req[q].tok, ![q].pc = "commit"]
    /\ UNCHANGED Tables

\* upsert_member: SELECT, then INSERT or UPDATE.
UpsertSelect(q) ==
    /\ req[q].pc = "select member"
    /\ Goto(q, IF get_membership(q) = None THEN "insert member" ELSE "update member")
    /\ UNCHANGED Tables

MemberWritten(q) ==
    req' = [req EXCEPT ![q].w.member = req[q].role,
                       ![q].pc = IF req[q].op = "accept" THEN "mark" ELSE "commit"]

InsertMember(q) ==
    /\ req[q].pc = "insert member"
    /\ ~MemberLocked(q)
    /\ IF members[req[q].e] # None THEN Refuse(q, "500") ELSE MemberWritten(q)
    /\ UNCHANGED Tables

UpdateMember(q) ==
    /\ req[q].pc = "update member"
    /\ ~MemberLocked(q)
    /\ MemberWritten(q)
    /\ UNCHANGED Tables

MarkAccepted(q) ==
    /\ req[q].pc = "mark"
    /\ ~InviteLocked(q)
    /\ req' = [req EXCEPT ![q].w.invite = "accepted", ![q].pc = "commit"]
    /\ UNCHANGED Tables

InsertInvite(q) ==
    /\ req[q].pc = "insert invite"
    /\ ~InviteLocked(q)
    /\ IF invites[req[q].e].st # None THEN Refuse(q, "500")
       ELSE req' = [req EXCEPT ![q].w.invite = "insert", ![q].pc = "commit"]
    /\ UNCHANGED Tables

RefreshInvite(q) ==
    /\ req[q].pc = "refresh invite"
    /\ ~InviteLocked(q)
    /\ req' = [req EXCEPT ![q].w.invite = "refresh", ![q].pc = "commit"]
    /\ UNCHANGED Tables

----------------------------------------------------------------------------
\* Mutant: the refresh writes accepted_at = NULL although it read it as NULL.
BugInviteAfter(q, row) ==
    CASE req[q].w.invite = "accepted" -> [row EXCEPT !.st = "accepted"]
      [] req[q].w.invite \in {"insert", "refresh"} ->
            [st |-> "pending", role |-> req[q].role, tok |-> issued[req[q].e] + 1]
      [] OTHER -> row

\* The row after the commit.  A refresh sends the columns whose value changed;
\* accepted_at, which it read as NULL and sets to NULL, is not among them.
InviteAfter(q, row) ==
    CASE req[q].w.invite = "accepted" -> [row EXCEPT !.st = "accepted"]
      [] req[q].w.invite \in {"insert", "refresh"} ->
            [st |-> IF row.st = "accepted" THEN "accepted" ELSE "pending",
             role |-> req[q].role, tok |-> issued[req[q].e] + 1]
      [] OTHER -> row

MemberAfter(q) == IF req[q].w.member # None THEN req[q].w.member ELSE members[req[q].e]

Commit(q) ==
    /\ req[q].pc = "commit"
    /\ LET e == req[q].e
           w == req[q].w
       IN  /\ slugs' = IF w.slug = 0 THEN slugs ELSE slugs \cup {w.slug}
           /\ IF e = None THEN UNCHANGED <<users, members, invites, issued>>
              ELSE /\ users' = [users EXCEPT ![e] = IF w.user # None THEN w.user ELSE @]
                   /\ members' = [members EXCEPT ![e] = MemberAfter(q)]
                   /\ invites' = [invites EXCEPT ![e] = InviteAfter(q, @)]
                   /\ issued' = [issued EXCEPT ![e] =
                        IF w.invite \in {"insert", "refresh"} THEN @ + 1 ELSE @]
    /\ req' = [req EXCEPT ![q] = Succeeded(q)]
    /\ UNCHANGED <<keys, conns>>

\* The statement or the commit fails, or the process dies: get_db_session rolls back.
Fail(q) ==
    /\ Active(q)
    /\ Refuse(q, "500")
    /\ UNCHANGED Tables

----------------------------------------------------------------------------
(* API keys and SAML connections: one row each, one write.                 *)

CreateApiKey(k, p, scopes) ==
    /\ keys[k].st = None
    /\ Refusal(p, "api_keys:write") = None
    /\ scopes \subseteq ALL_API_KEY_SCOPES
    /\ \A s \in scopes : has_scope(p, s)
    /\ keys' = [keys EXCEPT ![k] = NewKey(scopes)]
    /\ UNCHANGED <<users, members, invites, slugs, conns, req, issued>>

RevokeApiKey(k, p) ==
    /\ keys[k].st # None
    /\ Refusal(p, "api_keys:delete") = None
    /\ keys' = [keys EXCEPT ![k].st = "revoked"]
    /\ UNCHANGED <<users, members, invites, slugs, conns, req, issued>>

CreateConnection(c, p) ==
    /\ conns[c] = None
    /\ Refusal(p, "orgs:write") = None
    /\ conns' = [conns EXCEPT ![c] = NewConnection]
    /\ UNCHANGED <<users, members, invites, slugs, keys, req, issued>>

UpdateConnection(c, p, status) ==
    /\ conns[c] # None
    /\ Refusal(p, "orgs:write") = None
    /\ conns' = [conns EXCEPT ![c] = status]
    /\ UNCHANGED <<users, members, invites, slugs, keys, req, issued>>

DeleteConnection(c, p) ==
    /\ conns[c] # None
    /\ Refusal(p, "orgs:write") = None
    /\ conns' = [conns EXCEPT ![c] = None]
    /\ UNCHANGED <<users, members, invites, slugs, keys, req, issued>>

\* Time: an invitation or a key runs out.
InviteExpires(e) ==
    /\ invites[e].st = "pending"
    /\ invites' = [invites EXCEPT ![e].st = "expired"]
    /\ UNCHANGED <<users, members, slugs, keys, conns, req, issued>>

KeyExpires(k) ==
    /\ keys[k].st = "live"
    /\ keys' = [keys EXCEPT ![k].st = "expired"]
    /\ UNCHANGED <<users, members, invites, slugs, conns, req, issued>>

----------------------------------------------------------------------------
\* Rows a sequence of finished requests can leave behind.
Init ==
    /\ users \in [Emails -> {None} \cup Passwords]
    /\ members \in [Emails -> {None, "member"}]
    /\ invites \in [Emails -> {NoInvite} \cup
                      [st : {"pending", "accepted"}, role : InviteRoles, tok : {1}]]
    /\ \A e \in Emails : members[e] # None => users[e] # None
    /\ \A e \in Emails : invites[e].st = "accepted" => members[e] # None
    /\ slugs = {1}
    /\ keys = [k \in Keys |-> NoKey]
    /\ conns \in [Conns -> {None, "active"}]
    /\ req = [q \in Reqs |-> Idle]
    /\ issued = [e \in Emails |-> invites[e].tok]

Statement(q) ==
    \/ ResolveMembership(q) \/ GetPending(q) \/ GetByEmail(q) \/ UserCreate(q)
    \/ UniqueSlug(q) \/ OrgCreate(q) \/ UpsertSelect(q) \/ InsertMember(q)
    \/ UpdateMember(q) \/ MarkAccepted(q) \/ InsertInvite(q) \/ RefreshInvite(q) \/ Commit(q)

\* The routers: which handler, for whom, with what.
AccountRequests(q) ==
    \/ \E e \in Emails, pw \in Passwords : Register(q, e, pw) \/ Login(q, e, pw)
    \/ \E e \in Emails, type \in {"access", "refresh"} : Refresh(q, e, type)
    \/ \E e \in Emails, pw \in Passwords : \E tok \in 1 .. issued[e] : AcceptInvite(q, e, tok, pw)

OrgRequests(q) == \E p \in Callers : CreateOrg(q, p)

MemberRequests(q) ==
    \E p \in Callers, e \in Emails, role \in InviteRoles :
        AddMember(q, p, e, role) \/ CreateInvite(q, p, e, role)

SsoRequests(q) ==
    \/ \E a \in Assertions, c \in Conns \cup {None} : ConsumeAcs(q, a, c)
    \/ \E c \in Conns : BeginLogin(q, c)

KeyRequests ==
    \/ \E k \in Keys, p \in Callers, s \in KeyScopes : CreateApiKey(k, p, s)
    \/ \E k \in Keys, p \in Callers : RevokeApiKey(k, p)

ConnectionRequests ==
    \E c \in Conns, p \in Callers :
        \/ CreateConnection(c, p) \/ DeleteConnection(c, p)
        \/ \E status \in {"draft", "active", "disabled"} : UpdateConnection(c, p, status)

Next ==
    \/ \E q \in Reqs :
        \/ AccountRequests(q) \/ OrgRequests(q) \/ MemberRequests(q)
        \/ SsoRequests(q) \/ Statement(q) \/ Fail(q)
    \/ KeyRequests \/ ConnectionRequests
    \/ \E e \in Emails : InviteExpires(e)
    \/ \E k \in Keys : KeyExpires(k)

Spec == Init /\ [][Next]_vars

----------------------------------------------------------------------------
Secrets == Passwords \cup {None, "random"}
Roles == OrgRole \cup {None}

Request ==
    [op : {None, "register", "org", "login", "refresh", "add", "invite", "accept", "acs", "begin"},
     pc : {"idle", "done", "insert user", "slug", "insert org", "role", "pending", "refresh invite",
           "insert invite", "user", "select member", "insert member", "update member", "mark",
           "commit"},
     e : Emails \cup {None}, pw : Secrets, tok : Nat, role : Roles,
     w : [user : Secrets, member : Roles, invite : {None, "accepted", "insert", "refresh"},
          slug : Nat],
     answer : {None, "200", "400", "401", "403", "404", "500"}]

TypeOK ==
    /\ users \in [Emails -> Secrets]
    /\ members \in [Emails -> Roles]
    /\ invites \in [Emails ->
         [st : {None, "pending", "accepted", "expired"}, role : Roles, tok : Nat]]
    /\ slugs \in SUBSET Nat
    /\ keys \in [Keys ->
         [st : {None, "live", "revoked", "expired"}, scopes : SUBSET ALL_API_KEY_SCOPES]]
    /\ conns \in [Conns -> {None, "draft", "active", "disabled"}]
    /\ req \in [Reqs -> Request]
    /\ issued \in [Emails -> Nat]

(* Whoever was answered with tokens for the organization has an account    *)
(* and a membership in it: nothing a failing or racing request does takes  *)
(* away what a successful accept_invite or consume_acs wrote.              *)
AnsweredIsMember ==
    \A q \in Reqs : req[q].op \in {"accept", "acs"} /\ req[q].answer = "200" =>
        users[req[q].e] # None /\ members[req[q].e] # None

(* All accepts of one invitation that succeed hold the password of the     *)
(* account: of two people who accept at the same time, one gets in         *)
(* (AuthService.accept_invite, unique index of users.email).               *)
OneAccountPerInvite ==
    \A q \in Reqs : req[q].op = "accept" /\ req[q].answer = "200" => users[req[q].e] = req[q].pw

(* Who was let in has what the answer says: racing and failing requests    *)
(* neither take it away nor give it to somebody else.                      *)
AnswersHold == AnsweredIsMember /\ OneAccountPerInvite

(* An accepted invitation is never open again, although a create_invite    *)
(* that read it as pending may still write its role, token and expiry.     *)
AcceptedIsFinal ==
    [][\A e \in Emails : invites[e].st = "accepted" => invites'[e].st = "accepted"]_vars
=============================================================================
