------------------------- MODULE OrgWorkspaceProofs -------------------------
(***************************************************************************)
(* Proofs about OrgWorkspace for any number of requests, versions,         *)
(* sessions, contents and presets, and any faults.                         *)
(*                                                                         *)
(* The versions are numbered without gaps, so a request whose row is       *)
(* inserted has the number after the last one, and had it when it read the *)
(* number: no version was committed in between, and the rows it has        *)
(* deactivated are all there are.  The demo's FAQ has one writer while its *)
(* collection is missing.  A session is touched by nobody but its sample   *)
(* call until the call's first commit; a chat that is about to reopen an   *)
(* ended session is one the end has overlapped.                            *)
(***************************************************************************)
EXTENDS OrgWorkspace, TLAPS, FiniteSetTheorems, SequenceTheorems

(* Requests that work on a session. *)
OnSession == {"sample_turn", "sample_end", "activate", "turn", "handoff"}

(* A version being made: s is the request, vs the committed versions. *)
VersionInv(s, vs) ==
  /\ s.pc \in {"number", "deactivate", "update", "insert", "commit"} => s.kind \in ConfigKinds
  /\ s.pc \in {"deactivate", "update", "insert", "commit"} => s.number \in 1 .. Len(vs) + 1
  /\ s.pc \in {"deactivate", "update"} => s.activate
  /\ s.pc = "update" /\ s.number = Len(vs) + 1 => s.snapshot = DOMAIN vs
  /\ s.pc \in {"insert", "commit"} /\ s.activate /\ s.number = Len(vs) + 1 =>
       DOMAIN vs \subseteq s.locked
  /\ ~s.activate => s.locked = {}
  /\ s.pc = "commit" => s.number = Len(vs) + 1

(* The FAQ being seeded: number = 1 is a collection that is not committed. *)
FaqInv(s, f) ==
  /\ s.pc \in {"seed", "collection"} => s.number = 0
  /\ s.pc = "upload" => \/ s.number = 1 /\ f.collections = 0
                        \/ s.number = 0 /\ f.collections = 1 /\ f.deleted

(* A session at work: a sample call has it for itself while it is pending. *)
SessionInv(s, ss) ==
  /\ s.pc \notin OnSession => s.session = 0
  /\ s.pc \in OnSession => s.session \in DOMAIN ss
  /\ s.pc = "sample_turn" =>
       ss[s.session].status = "pending" /\ ~ss[s.session].handoff /\ ~ss[s.session].overlap
  /\ s.pc \in {"sample_end", "activate", "turn", "handoff"} => ss[s.session].status # "pending"
  /\ s.pc = "activate" => ss[s.session].status # "completed" \/ ss[s.session].overlap

ReqInv(s, vs, f, ss, rs) ==
  VersionInv(s, vs) /\ FaqInv(s, f) /\ SessionInv(s, ss) /\ s.run \in 0 .. Len(rs)

(* Two requests that may not meet: at the commit of a version, as creators of
   the collection, on one pending session. *)
Clash(s, t) ==
  \/ s.pc = "commit" /\ t.pc = "commit"
  \/ s.pc = "upload" /\ t.pc = "upload" /\ s.number = 1 /\ t.number = 1
  \/ s.pc = "sample_turn" /\ t.pc = "sample_turn" /\ s.session = t.session

OneActive(vs) == \A m, n \in DOMAIN vs : vs[m].active /\ vs[n].active => m = n

FaqOnce(f) == f.collections \in {0, 1} /\ (~f.deleted => f.documents = f.collections)

Ended(ss, id) ==
  id \in DOMAIN ss /\ (ss[id].status = "completed" \/ ss[id].overlap \/ ss[id].handoff)

RunsEnded(rs, ss) == \A i \in DOMAIN rs : rs[i].completed => Ended(ss, rs[i].session)

IndInv ==
  /\ TypeOK
  /\ \A r \in Req : ReqInv(req[r], versions, faq, sessions, runs)
  /\ \A r, o \in Req : r # o => ~Clash(req[r], req[o])
  /\ OneActive(versions)
  /\ FaqOnce(faq)
  /\ RunsEnded(runs, sessions)
  /\ opened = Len(sessions)

-----------------------------------------------------------------------------
(* Steps of one request *)

LEMMA Facts ==
  ASSUME IndInv, NEW r \in Req
  PROVE  /\ req[r] \in Request
         /\ VersionInv(req[r], versions) /\ FaqInv(req[r], faq) /\ SessionInv(req[r], sessions)
         /\ req[r].run \in 0 .. Len(runs)
BY DEF IndInv, TypeOK, ReqInv

LEMMA ClashSym == ASSUME NEW s, NEW t, Clash(s, t) PROVE Clash(t, s)
BY DEF Clash

LEMMA StepKeeps ==
  ASSUME IndInv, NEW q \in Req, NEW s \in Request, req' = [req EXCEPT ![q] = s],
         versions' \in Seq(Version), sessions' \in Seq(Session), runs' \in Seq(Run),
         faq' \in [collections : Nat, documents : Nat, deleted : BOOLEAN],
         opened' = Len(sessions'), kinds' = kinds,
         OneActive(versions'), FaqOnce(faq'), RunsEnded(runs', sessions'),
         ReqInv(s, versions', faq', sessions', runs'),
         \A o \in Req \ {q} : ReqInv(req[o], versions', faq', sessions', runs'),
         \A o \in Req \ {q} : ~Clash(s, req[o])
  PROVE  IndInv'
<1>1. req'[q] = s /\ \A o \in Req \ {q} : req'[o] = req[o]
  BY DEF IndInv, TypeOK
<1>2. req' \in [Req -> Request]
  BY DEF IndInv, TypeOK
<1>3. opened' \in Nat
  BY LenProperties
<1>4. TypeOK'
  BY <1>2, <1>3 DEF IndInv, TypeOK
<1>5. \A r \in Req : ReqInv(req'[r], versions', faq', sessions', runs')
  BY <1>1
<1>6. ASSUME NEW r \in Req, NEW o \in Req, r # o PROVE ~Clash(req'[r], req'[o])
  <2>1. CASE r = q
    BY <1>1, <1>6, <2>1
  <2>2. CASE o = q
    BY <1>1, <1>6, <2>2, ClashSym
  <2>3. CASE r # q /\ o # q
    BY <1>1, <1>6, <2>3 DEF IndInv
  <2> QED BY <2>1, <2>2, <2>3
<1> QED BY <1>4, <1>5, <1>6 DEF IndInv

(* A step that leaves the committed rows alone. *)
LEMMA LocalKeeps ==
  ASSUME IndInv, NEW q \in Req, NEW s \in Request, req' = [req EXCEPT ![q] = s],
         UNCHANGED <<versions, sessions, runs, faq, opened, kinds>>,
         ReqInv(s, versions, faq, sessions, runs),
         \A o \in Req \ {q} : ~Clash(s, req[o])
  PROVE  IndInv'
<1>1. /\ versions' \in Seq(Version) /\ sessions' \in Seq(Session) /\ runs' \in Seq(Run)
      /\ faq' \in [collections : Nat, documents : Nat, deleted : BOOLEAN]
      /\ opened' = Len(sessions') /\ kinds' = kinds
      /\ OneActive(versions') /\ FaqOnce(faq') /\ RunsEnded(runs', sessions')
  BY DEF IndInv, TypeOK
<1>2. /\ ReqInv(s, versions', faq', sessions', runs')
      /\ \A o \in Req \ {q} : ReqInv(req[o], versions', faq', sessions', runs')
  BY DEF IndInv
<1> QED BY <1>1, <1>2, StepKeeps

(* A request that is answered is out of everybody's way. *)
LEMMA NoReqType == NoReq \in Request
BY DEF NoReq, Request, Configs

LEMMA NoReqInv ==
  ASSUME NEW vs, NEW f, NEW ss, NEW rs \in Seq(Run) PROVE ReqInv(NoReq, vs, f, ss, rs)
<1>1. 0 \in 0 .. Len(rs)
  BY LenProperties
<1> QED BY <1>1 DEF NoReq, ReqInv, VersionInv, FaqInv, SessionInv, OnSession

LEMMA NoReqMeets == ASSUME NEW t PROVE ~Clash(NoReq, t)
BY DEF NoReq, Clash

LEMMA AnswerKeeps ==
  ASSUME IndInv, NEW q \in Req, Answer(q),
         UNCHANGED <<versions, sessions, runs, faq, opened, kinds>>
  PROVE  IndInv'
<1>1. req' = [req EXCEPT ![q] = NoReq]
  BY DEF Answer, Set
<1>2. runs \in Seq(Run)
  BY DEF IndInv, TypeOK
<1> QED BY <1>1, <1>2, NoReqType, NoReqInv, NoReqMeets, LocalKeeps

-----------------------------------------------------------------------------
(* Agent configuration *)

LEMMA MaxNumber ==
  ASSUME NEW vs \in Seq(Version) PROVE Max({0} \cup DOMAIN vs) = Len(vs)
<1>1. Len(vs) \in Nat /\ DOMAIN vs = 1 .. Len(vs)
  BY LenProperties
<1>2. {0} \cup DOMAIN vs = 0 .. Len(vs)
  BY <1>1
<1>3. Len(vs) \in 0 .. Len(vs) /\ \A y \in 0 .. Len(vs) : Len(vs) >= y
  BY <1>1
<1>4. ASSUME NEW x \in 0 .. Len(vs), \A y \in 0 .. Len(vs) : x >= y PROVE x = Len(vs)
  <2>1. x >= Len(vs)
    BY <1>3, <1>4
  <2>2. Len(vs) \in Nat
    BY <1>1
  <2> QED BY <2>1, <2>2
<1> QED BY <1>2, <1>3, <1>4 DEF Max

LEMMA BeginConfigStep ==
  ASSUME IndInv, NEW r \in Req, NEW kind, NEW activate \in BOOLEAN, NEW config \in Configs,
         BeginConfig(r, kind, activate, config)
  PROVE  IndInv'
<1> DEFINE s == [NoReq EXCEPT !.pc = "number", !.kind = kind, !.activate = activate,
                              !.config = config]
<1>1. kind \in ConfigKinds
  BY DEF BeginConfig
<1>2. s \in Request
  BY <1>1 DEF NoReq, Request
<1>3. /\ s.pc = "number" /\ s.kind = kind /\ s.number = 0 /\ s.locked = {} /\ s.session = 0
      /\ s.run = 0
  BY DEF NoReq
<1>4. 0 \in 0 .. Len(runs)
  BY LenProperties DEF IndInv, TypeOK
<1> HIDE DEF s
<1>5. ReqInv(s, versions, faq, sessions, runs)
  BY <1>1, <1>3, <1>4 DEF ReqInv, VersionInv, FaqInv, SessionInv, OnSession
<1>6. \A o \in Req \ {r} : ~Clash(s, req[o])
  BY <1>3 DEF Clash
<1>7. req' = [req EXCEPT ![r] = s] /\ UNCHANGED <<versions, sessions, runs, faq, opened, kinds>>
  BY DEF BeginConfig, Set, s
<1> QED BY <1>2, <1>5, <1>6, <1>7, LocalKeeps

LEMMA ConfigCalls ==
  ASSUME IndInv, NEW r \in Req, CreateVersion(r) \/ ApplyPreset(r) \/ Rollback(r)
  PROVE  IndInv'
<1>1. CASE CreateVersion(r)
  BY <1>1, BeginConfigStep DEF CreateVersion, Configs
<1>2. CASE ApplyPreset(r)
  BY <1>2, BeginConfigStep DEF ApplyPreset, KnownPreset, Configs
<1>3. CASE Rollback(r)
  <2>1. PICK target : /\ KnownVersion(target)
                      /\ BeginConfig(r, "rollback", TRUE, versions[target].config)
    BY <1>3 DEF Rollback
  <2>2. versions[target] \in Version
    BY <2>1, ElementOfSeq, LenProperties DEF IndInv, TypeOK, KnownVersion
  <2>3. versions[target].config \in Configs
    BY <2>2 DEF Version
  <2> QED BY <2>1, <2>3, BeginConfigStep
<1> QED BY <1>1, <1>2, <1>3

LEMMA NextVersionNumberStep ==
  ASSUME IndInv, NEW r \in Req, NextVersionNumber(r) PROVE IndInv'
<1> DEFINE n == Len(versions) + 1
           l == IF req[r].activate THEN "deactivate" ELSE "insert"
           s == [req[r] EXCEPT !.number = n, !.pc = l]
<1>1. req[r] \in Request /\ VersionInv(req[r], versions) /\ req[r].run \in 0 .. Len(runs)
      /\ SessionInv(req[r], sessions) /\ req[r].pc = "number"
  BY Facts DEF NextVersionNumber
<1>2. Len(versions) \in Nat /\ n \in Nat /\ n \in 1 .. Len(versions) + 1
  BY LenProperties DEF IndInv, TypeOK
<1>3. req' = [req EXCEPT ![r] = s]
  BY MaxNumber DEF NextVersionNumber, Set, IndInv, TypeOK
<1>4. l \in {"deactivate", "insert"} /\ (l = "deactivate" => req[r].activate)
      /\ (l = "insert" => ~req[r].activate)
  BY <1>1 DEF Request
<1> HIDE DEF n, l
<1>5. s \in Request
  BY <1>1, <1>2, <1>4 DEF Request
<1>6. /\ s.pc = l /\ s.number = n /\ s.kind = req[r].kind /\ s.activate = req[r].activate
      /\ s.locked = req[r].locked /\ s.session = req[r].session /\ s.run = req[r].run
  BY <1>1 DEF Request
<1> HIDE DEF s
<1>7. VersionInv(s, versions)
  BY <1>1, <1>2, <1>4, <1>6 DEF VersionInv
<1>8. FaqInv(s, faq) /\ SessionInv(s, sessions) /\ s.run \in 0 .. Len(runs)
  BY <1>1, <1>4, <1>6 DEF FaqInv, SessionInv, OnSession
<1>9. \A o \in Req \ {r} : ~Clash(s, req[o])
  BY <1>4, <1>6 DEF Clash
<1> QED BY <1>3, <1>5, <1>7, <1>8, <1>9, LocalKeeps DEF NextVersionNumber, ReqInv

LEMMA StartDeactivateStep ==
  ASSUME IndInv, NEW r \in Req, StartDeactivate(r) PROVE IndInv'
<1> DEFINE s == [req[r] EXCEPT !.snapshot = DOMAIN versions, !.pc = "update"]
<1>1. req[r] \in Request /\ VersionInv(req[r], versions) /\ req[r].run \in 0 .. Len(runs)
      /\ SessionInv(req[r], sessions) /\ req[r].pc = "deactivate"
  BY Facts DEF StartDeactivate
<1>2. DOMAIN versions \in SUBSET Nat
  BY LenProperties DEF IndInv, TypeOK
<1>3. req' = [req EXCEPT ![r] = s]
  BY DEF StartDeactivate, Set
<1>4. s \in Request
  BY <1>1, <1>2 DEF Request
<1>5. /\ s.pc = "update" /\ s.number = req[r].number /\ s.kind = req[r].kind
      /\ s.activate = req[r].activate /\ s.locked = req[r].locked /\ s.snapshot = DOMAIN versions
      /\ s.session = req[r].session /\ s.run = req[r].run
  BY <1>1 DEF Request
<1> HIDE DEF s
<1>6. VersionInv(s, versions)
  BY <1>1, <1>5 DEF VersionInv
<1>7. FaqInv(s, faq) /\ SessionInv(s, sessions) /\ s.run \in 0 .. Len(runs)
  BY <1>1, <1>5 DEF FaqInv, SessionInv, OnSession
<1>8. \A o \in Req \ {r} : ~Clash(s, req[o])
  BY <1>5 DEF Clash
<1> QED BY <1>3, <1>4, <1>6, <1>7, <1>8, LocalKeeps DEF StartDeactivate, ReqInv

LEMMA DeactivateAllStep ==
  ASSUME IndInv, NEW r \in Req, DeactivateAll(r) PROVE IndInv'
<1> DEFINE s == [req[r] EXCEPT !.locked = req[r].locked \cup req[r].snapshot, !.snapshot = {},
                               !.pc = "insert"]
<1>1. req[r] \in Request /\ VersionInv(req[r], versions) /\ req[r].run \in 0 .. Len(runs)
      /\ SessionInv(req[r], sessions) /\ req[r].pc = "update"
  BY Facts DEF DeactivateAll
<1>2. req' = [req EXCEPT ![r] = s]
  BY <1>1 DEF DeactivateAll, Set, Request
<1>3. s \in Request
  BY <1>1 DEF Request
<1>4. /\ s.pc = "insert" /\ s.number = req[r].number /\ s.kind = req[r].kind
      /\ s.activate = req[r].activate /\ s.locked = req[r].locked \cup req[r].snapshot
      /\ s.session = req[r].session /\ s.run = req[r].run
  BY <1>1 DEF Request
<1> HIDE DEF s
<1>5. VersionInv(s, versions)
  BY <1>1, <1>4 DEF VersionInv
<1>6. FaqInv(s, faq) /\ SessionInv(s, sessions) /\ s.run \in 0 .. Len(runs)
  BY <1>1, <1>4 DEF FaqInv, SessionInv, OnSession
<1>7. \A o \in Req \ {r} : ~Clash(s, req[o])
  BY <1>4 DEF Clash
<1> QED BY <1>2, <1>3, <1>5, <1>6, <1>7, LocalKeeps DEF DeactivateAll, ReqInv

(* The number is free only if it is the one after the last version. *)
LEMMA InsertVersionStep ==
  ASSUME IndInv, NEW r \in Req, InsertVersion(r) PROVE IndInv'
<1>1. CASE Answer(r)
  BY <1>1, AnswerKeeps DEF InsertVersion
<1>2. CASE req[r].number \notin DOMAIN versions /\ Set(r, [req[r] EXCEPT !.pc = "commit"])
  <2> DEFINE s == [req[r] EXCEPT !.pc = "commit"]
  <2>1. req[r] \in Request /\ VersionInv(req[r], versions) /\ req[r].run \in 0 .. Len(runs)
        /\ SessionInv(req[r], sessions) /\ req[r].pc = "insert"
    BY Facts DEF InsertVersion
  <2>2. s \in Request
    BY <2>1 DEF Request
  <2>3. /\ s.pc = "commit" /\ s.number = req[r].number /\ s.kind = req[r].kind
        /\ s.activate = req[r].activate /\ s.locked = req[r].locked
        /\ s.session = req[r].session /\ s.run = req[r].run
    BY <2>1 DEF Request
  <2>4. Len(versions) \in Nat /\ DOMAIN versions = 1 .. Len(versions)
    BY LenProperties DEF IndInv, TypeOK
  <2>5. req[r].number = Len(versions) + 1
    <3>1. req[r].number \in 1 .. Len(versions) + 1
      BY <2>1 DEF VersionInv
    <3> QED BY <1>2, <2>4, <3>1
  <2>6. req' = [req EXCEPT ![r] = s]
    BY <1>2 DEF Set
  <2> HIDE DEF s
  <2>7. VersionInv(s, versions)
    BY <2>1, <2>3, <2>5 DEF VersionInv
  <2>8. FaqInv(s, faq) /\ SessionInv(s, sessions) /\ s.run \in 0 .. Len(runs)
    BY <2>1, <2>3 DEF FaqInv, SessionInv, OnSession
  <2>9. ASSUME NEW o \in Req \ {r} PROVE ~Clash(s, req[o])
    <3>1. req[o].pc = "commit" => Inserted(o) /\ req[o].number = req[r].number
      BY <2>5, Facts DEF VersionInv, Inserted
    <3>2. req[o].pc # "commit"
      BY <3>1 DEF InsertVersion
    <3> QED BY <2>3, <3>2 DEF Clash
  <2> QED BY <2>2, <2>6, <2>7, <2>8, <2>9, LocalKeeps DEF InsertVersion, ReqInv
<1> QED BY <1>1, <1>2 DEF InsertVersion

(* What a commit makes of the versions: one more, and if it is active it is the
   only one. *)
LEMMA CommitVersions ==
  ASSUME IndInv, NEW r \in Req, Inserted(r)
  PROVE  LET vs == AfterCommit(r)
         IN  /\ vs \in Seq(Version) /\ Len(vs) = Len(versions) + 1
             /\ OneActive(vs)
             /\ \A n \in DOMAIN versions : n \in DOMAIN vs /\ vs[n].config = versions[n].config
             /\ ActiveVersions # {} => \E n \in DOMAIN vs : vs[n].active
<1> DEFINE k == Len(versions)
           vs == AfterCommit(r)
           new == [config |-> req[r].config, active |-> req[r].activate]
           old(n) == [versions[n] EXCEPT !.active = @ /\ n \notin req[r].locked]
<1>1. req[r] \in Request /\ VersionInv(req[r], versions) /\ req[r].pc = "commit"
  BY Facts DEF Inserted
<1>2. versions \in Seq(Version) /\ k \in Nat /\ DOMAIN versions = 1 .. k /\ OneActive(versions)
  BY LenProperties DEF IndInv, TypeOK
<1>3. req[r].number = k + 1
  BY <1>1 DEF VersionInv
<1>4. /\ req[r].activate => 1 .. k \subseteq req[r].locked
      /\ ~req[r].activate => req[r].locked = {}
  BY <1>1, <1>2, <1>3 DEF VersionInv
<1>5. DOMAIN versions \cup {req[r].number} = 1 .. k + 1
  BY <1>2, <1>3
<1> HIDE DEF k
<1>6. vs = [n \in 1 .. k + 1 |-> IF n = k + 1 THEN new ELSE old(n)]
  BY <1>3, <1>5 DEF AfterCommit
<1>7. new \in Version /\ new.active = req[r].activate
  BY <1>1 DEF Request, Version
<1>8. ASSUME NEW n \in 1 .. k
      PROVE  /\ versions[n] \in Version /\ old(n) \in Version
             /\ old(n).config = versions[n].config
             /\ old(n).active <=> versions[n].active /\ n \notin req[r].locked
  <2>1. versions[n] \in Version
    BY <1>2, ElementOfSeq DEF k
  <2> QED BY <2>1 DEF Version
<1> HIDE DEF new, old
<1>9. /\ DOMAIN vs = 1 .. k + 1 /\ vs[k + 1] = new
      /\ \A n \in 1 .. k : n \in 1 .. k + 1 /\ vs[n] = old(n)
  <2>1. k + 1 \in 1 .. k + 1 /\ \A n \in 1 .. k : n \in 1 .. k + 1 /\ n # k + 1
    BY <1>2
  <2> QED BY <1>6, <2>1
<1>10. vs \in [1 .. k + 1 -> Version]
  BY <1>2, <1>6, <1>7, <1>8
<1> HIDE DEF vs
<1>11. vs \in Seq(Version) /\ Len(vs) = k + 1
  BY <1>2, <1>9, <1>10, LenProperties, SeqDef
<1>12. OneActive(vs)
  <2> SUFFICES ASSUME NEW m \in 1 .. k + 1, NEW n \in 1 .. k + 1, vs[m].active, vs[n].active
      PROVE  m = n
    BY <1>9 DEF OneActive
  <2>1. CASE m = k + 1 /\ n \in 1 .. k
    BY <1>4, <1>7, <1>8, <1>9, <2>1
  <2>2. CASE n = k + 1 /\ m \in 1 .. k
    BY <1>4, <1>7, <1>8, <1>9, <2>2
  <2>3. CASE m \in 1 .. k /\ n \in 1 .. k
    BY <1>2, <1>8, <1>9, <2>3 DEF OneActive
  <2>4. (m = k + 1 \/ m \in 1 .. k) /\ (n = k + 1 \/ n \in 1 .. k)
    BY <1>2
  <2> QED BY <2>1, <2>2, <2>3, <2>4
<1>13. \A n \in DOMAIN versions : n \in DOMAIN vs /\ vs[n].config = versions[n].config
  BY <1>2, <1>8, <1>9
<1>14. ASSUME ActiveVersions # {} PROVE \E n \in DOMAIN vs : vs[n].active
  <2>1. CASE req[r].activate
    <3>1. vs[k + 1].active
      BY <1>7, <1>9, <2>1
    <3>2. k + 1 \in DOMAIN vs
      BY <1>2, <1>9
    <3> QED BY <3>1, <3>2
  <2>2. CASE ~req[r].activate
    <3>1. PICK n \in 1 .. k : versions[n].active
      BY <1>2, <1>14 DEF ActiveVersions
    <3>2. vs[n].active /\ n \in DOMAIN vs
      BY <1>4, <1>8, <1>9, <2>2, <3>1
    <3> QED BY <3>2
  <2> QED BY <2>1, <2>2
<1> QED BY <1>11, <1>12, <1>13, <1>14 DEF vs, k

(* A number that is not the next one never will be. *)
LEMMA OtherVersion ==
  ASSUME NEW s, NEW vs, VersionInv(s, versions), s.pc # "commit",
         Len(versions) \in Nat, Len(vs) = Len(versions) + 1
  PROVE  VersionInv(s, vs)
<1>1. s.pc \in {"deactivate", "update", "insert"} =>
        s.number \in 1 .. Len(vs) + 1 /\ s.number # Len(vs) + 1
  BY DEF VersionInv
<1> QED BY <1>1 DEF VersionInv

LEMMA CommitVersionStep ==
  ASSUME IndInv, NEW r \in Req, CommitVersion(r) PROVE IndInv'
<1>1. versions' = AfterCommit(r) /\ Inserted(r) /\ req' = [req EXCEPT ![r] = NoReq]
      /\ UNCHANGED <<sessions, runs, faq, opened, kinds>>
  BY DEF CommitVersion, Answer, Set
<1>2. versions' \in Seq(Version) /\ Len(versions') = Len(versions) + 1 /\ OneActive(versions')
  BY <1>1, CommitVersions
<1>3. ASSUME NEW o \in Req \ {r} PROVE ReqInv(req[o], versions', faq', sessions', runs')
  <2>1. req[o].pc # "commit"
    BY <1>1 DEF IndInv, Clash, Inserted
  <2>2. Len(versions) \in Nat
    BY LenProperties DEF IndInv, TypeOK
  <2>3. VersionInv(req[o], versions')
    BY <1>2, <2>1, <2>2, Facts, OtherVersion
  <2> QED BY <1>1, <2>3, Facts DEF ReqInv
<1>4. /\ sessions' \in Seq(Session) /\ runs' \in Seq(Run)
      /\ faq' \in [collections : Nat, documents : Nat, deleted : BOOLEAN]
      /\ opened' = Len(sessions') /\ FaqOnce(faq') /\ RunsEnded(runs', sessions')
  BY <1>1 DEF IndInv, TypeOK
<1> QED BY <1>1, <1>2, <1>3, <1>4, NoReqType, NoReqInv, NoReqMeets, StepKeeps

-----------------------------------------------------------------------------
(* The FAQ of the demo *)

LEMMA SeedReadStep == ASSUME IndInv, NEW r \in Req, SeedRead(r) PROVE IndInv'
<1>1. req[r] \in Request /\ VersionInv(req[r], versions) /\ req[r].run \in 0 .. Len(runs)
      /\ SessionInv(req[r], sessions) /\ FaqInv(req[r], faq) /\ req[r].pc = "seed"
  BY Facts DEF SeedRead
<1>2. /\ faq.collections \in {0, 1} /\ faq.documents \in Nat
      /\ ~faq.deleted => faq.documents = faq.collections
  BY DEF IndInv, TypeOK, FaqOnce
<1>3. PICK l \in {"collection", "upload", "open"} :
         /\ req' = [req EXCEPT ![r] = [req[r] EXCEPT !.pc = l]]
         /\ l = "upload" => faq.collections = 1 /\ faq.documents = 0
  <2>1. CASE faq.collections = 0
    BY <2>1 DEF SeedRead, Set
  <2>2. CASE faq.collections = 1 /\ faq.documents = 0
    BY <2>2 DEF SeedRead, Set
  <2>3. CASE faq.collections = 1 /\ faq.documents # 0
    BY <2>3 DEF SeedRead, Set
  <2> QED BY <1>2, <2>1, <2>2, <2>3
<1> DEFINE s == [req[r] EXCEPT !.pc = l]
<1>4. s \in Request
  BY <1>1 DEF Request
<1>5. /\ s.pc = l /\ s.number = req[r].number /\ s.activate = req[r].activate
      /\ s.locked = req[r].locked /\ s.session = req[r].session /\ s.run = req[r].run
  BY <1>1 DEF Request
<1> HIDE DEF s
<1>6. s.number = 0
  BY <1>1, <1>5 DEF FaqInv
<1>7. l = "upload" => faq.collections = 1 /\ faq.deleted
  BY <1>2, <1>3
<1>8. FaqInv(s, faq)
  BY <1>5, <1>6, <1>7 DEF FaqInv
<1>9. VersionInv(s, versions) /\ SessionInv(s, sessions) /\ s.run \in 0 .. Len(runs)
  BY <1>1, <1>5 DEF VersionInv, SessionInv, OnSession
<1>10. \A o \in Req \ {r} : ~Clash(s, req[o])
  BY <1>5, <1>6 DEF Clash
<1> QED BY <1>3, <1>4, <1>8, <1>9, <1>10, LocalKeeps DEF SeedRead, ReqInv, s

LEMMA SeedCollectionStep == ASSUME IndInv, NEW r \in Req, SeedCollection(r) PROVE IndInv'
<1>1. CASE Answer(r)
  BY <1>1, AnswerKeeps DEF SeedCollection
<1>2. CASE ~(faq.collections > 0) /\ Set(r, [req[r] EXCEPT !.pc = "upload", !.number = 1])
  <2> DEFINE s == [req[r] EXCEPT !.pc = "upload", !.number = 1]
  <2>1. req[r] \in Request /\ VersionInv(req[r], versions) /\ req[r].run \in 0 .. Len(runs)
        /\ SessionInv(req[r], sessions) /\ req[r].pc = "collection"
    BY Facts DEF SeedCollection
  <2>2. s \in Request
    BY <2>1 DEF Request
  <2>3. /\ s.pc = "upload" /\ s.number = 1 /\ s.activate = req[r].activate
        /\ s.locked = req[r].locked /\ s.session = req[r].session /\ s.run = req[r].run
    BY <2>1 DEF Request
  <2>4. faq.collections = 0
    BY <1>2 DEF IndInv, FaqOnce
  <2>5. req' = [req EXCEPT ![r] = s]
    BY <1>2 DEF Set
  <2> HIDE DEF s
  <2>6. FaqInv(s, faq)
    BY <2>3, <2>4 DEF FaqInv
  <2>7. VersionInv(s, versions) /\ SessionInv(s, sessions) /\ s.run \in 0 .. Len(runs)
    BY <2>1, <2>3 DEF VersionInv, SessionInv, OnSession
  <2>8. \A o \in Req \ {r} : ~Clash(s, req[o])
    BY <2>3 DEF Clash, SeedCollection
  <2> QED BY <2>2, <2>5, <2>6, <2>7, <2>8, LocalKeeps DEF SeedCollection, ReqInv
<1> QED BY <1>1, <1>2 DEF SeedCollection

LEMMA SeedCommitStep == ASSUME IndInv, NEW r \in Req, SeedCommit(r) PROVE IndInv'
<1> DEFINE s == [req[r] EXCEPT !.pc = "open", !.number = 0]
<1>1. req[r] \in Request /\ VersionInv(req[r], versions) /\ req[r].run \in 0 .. Len(runs)
      /\ SessionInv(req[r], sessions) /\ FaqInv(req[r], faq) /\ req[r].pc = "upload"
  BY Facts DEF SeedCommit
<1>2. s \in Request
  BY <1>1 DEF Request
<1>3. /\ s.pc = "open" /\ s.number = 0 /\ s.activate = req[r].activate
      /\ s.locked = req[r].locked /\ s.session = req[r].session /\ s.run = req[r].run
  BY <1>1 DEF Request
<1>4. req' = [req EXCEPT ![r] = s] /\ UNCHANGED <<versions, sessions, runs, opened, kinds>>
  BY DEF SeedCommit, Set
<1> HIDE DEF s
<1>5. faq \in [collections : Nat, documents : Nat, deleted : BOOLEAN] /\ FaqOnce(faq)
  BY DEF IndInv, TypeOK
<1>6. \/ req[r].number = 1 /\ faq.collections = 0
      \/ req[r].number = 0 /\ faq.collections = 1 /\ faq.deleted
  BY <1>1 DEF FaqInv
<1>7. /\ faq'.collections = faq.collections + req[r].number
      /\ faq'.documents = faq.documents + 1
      /\ faq'.deleted = faq.deleted
  BY <1>5 DEF SeedCommit
<1>8. faq' \in [collections : Nat, documents : Nat, deleted : BOOLEAN]
  <2>1. req[r].number \in Nat /\ faq.collections \in Nat /\ faq.documents \in Nat
    BY <1>1, <1>5 DEF Request
  <2>2. faq.collections + req[r].number \in Nat /\ faq.documents + 1 \in Nat
    BY <2>1
  <2>3. ASSUME NEW c \in Nat, NEW d \in Nat
        PROVE  [faq EXCEPT !.collections = c, !.documents = d]
                  \in [collections : Nat, documents : Nat, deleted : BOOLEAN]
    BY <1>5
  <2>4. faq' = [faq EXCEPT !.collections = faq.collections + req[r].number,
                           !.documents = faq.documents + 1]
    BY <1>5 DEF SeedCommit
  <2> QED BY <2>2, <2>3, <2>4
<1>9. FaqOnce(faq')
  BY <1>5, <1>6, <1>7 DEF FaqOnce
<1>10. ReqInv(s, versions', faq', sessions', runs')
  <2>1. FaqInv(s, faq')
    BY <1>3 DEF FaqInv
  <2>2. VersionInv(s, versions) /\ SessionInv(s, sessions) /\ s.run \in 0 .. Len(runs)
    BY <1>1, <1>3 DEF VersionInv, SessionInv, OnSession
  <2> QED BY <1>4, <2>1, <2>2 DEF ReqInv
<1>11. ASSUME NEW o \in Req \ {r} PROVE ReqInv(req[o], versions', faq', sessions', runs')
  <2>1. FaqInv(req[o], faq) /\ ~Clash(req[r], req[o])
    BY Facts DEF IndInv
  <2>2. FaqInv(req[o], faq')
    BY <1>1, <1>6, <1>7, <2>1 DEF FaqInv, Clash
  <2> QED BY <1>4, <2>2, Facts DEF ReqInv
<1>12. \A o \in Req \ {r} : ~Clash(s, req[o])
  BY <1>3 DEF Clash
<1>13. /\ versions' \in Seq(Version) /\ sessions' \in Seq(Session) /\ runs' \in Seq(Run)
       /\ opened' = Len(sessions') /\ OneActive(versions') /\ RunsEnded(runs', sessions')
  BY <1>4 DEF IndInv, TypeOK
<1> QED BY <1>2, <1>4, <1>8, <1>9, <1>10, <1>11, <1>12, <1>13, StepKeeps

LEMMA SeedFailsStep == ASSUME IndInv, NEW r \in Req, SeedFails(r) PROVE IndInv'
BY AnswerKeeps DEF SeedFails

LEMMA DeleteFaqStep == ASSUME IndInv, DeleteFaq PROVE IndInv'
<1>1. faq \in [collections : Nat, documents : Nat, deleted : BOOLEAN] /\ FaqOnce(faq)
  BY DEF IndInv, TypeOK
<1>2. /\ faq' \in [collections : Nat, documents : Nat, deleted : BOOLEAN]
      /\ faq'.collections = faq.collections /\ faq'.deleted
  BY <1>1 DEF DeleteFaq
<1>3. UNCHANGED <<versions, sessions, runs, opened, req, kinds>>
  BY DEF DeleteFaq
<1>4. TypeOK'
  BY <1>2, <1>3 DEF IndInv, TypeOK
<1>5. ASSUME NEW r \in Req PROVE ReqInv(req'[r], versions', faq', sessions', runs')
  BY <1>2, <1>3, Facts DEF ReqInv, FaqInv
<1>6. FaqOnce(faq')
  BY <1>1, <1>2 DEF FaqOnce
<1> QED BY <1>3, <1>4, <1>5, <1>6 DEF IndInv

-----------------------------------------------------------------------------
(* Sessions and onboarding runs *)

(* The sessions after a write to one of them: it is committed; if it had ended,
   was overlapped or had a handoff, that is still so; and an end has noticed
   the chats that are about to reopen it. *)
Touches(ss, id) ==
  /\ ss \in Seq(Session) /\ Len(ss) = Len(sessions)
  /\ \A i \in DOMAIN sessions \ {id} : ss[i] = sessions[i]
  /\ id \in DOMAIN sessions /\ ss[id].status # "pending"
  /\ Ended(sessions, id) => Ended(ss, id)
  /\ Reopening(id) => ss[id].status # "completed" \/ ss[id].overlap

LEMMA SessionsDomain ==
  ASSUME IndInv
  PROVE  /\ sessions \in Seq(Session) /\ Len(sessions) \in Nat
         /\ DOMAIN sessions = 1 .. Len(sessions) /\ opened = Len(sessions)
         /\ \A i \in DOMAIN sessions : sessions[i] \in Session
<1>1. sessions \in Seq(Session) /\ opened = Len(sessions)
  BY DEF IndInv, TypeOK
<1> QED BY <1>1, LenProperties, ElementOfSeq

LEMMA TouchDomain ==
  ASSUME IndInv, NEW ss, NEW id, Touches(ss, id) PROVE DOMAIN ss = DOMAIN sessions
BY SessionsDomain, LenProperties DEF Touches

LEMMA TouchesEnded ==
  ASSUME IndInv, NEW ss, NEW id, Touches(ss, id), NEW i, Ended(sessions, i) PROVE Ended(ss, i)
BY TouchDomain DEF Touches, Ended

LEMMA TouchesRuns ==
  ASSUME IndInv, NEW ss, NEW id, Touches(ss, id), NEW rs, RunsEnded(rs, sessions)
  PROVE  RunsEnded(rs, ss)
BY TouchesEnded DEF RunsEnded

LEMMA TouchesOthers ==
  ASSUME IndInv, NEW ss, NEW id, Touches(ss, id), NEW o \in Req,
         req[o].pc = "sample_turn" => req[o].session # id
  PROVE  SessionInv(req[o], ss)
<1> DEFINE s == req[o]
<1>0. SessionInv(s, sessions)
  BY Facts
<1>1. DOMAIN ss = DOMAIN sessions
  BY TouchDomain
<1>2. s.pc \in OnSession => s.session \in DOMAIN sessions
  BY <1>0 DEF SessionInv
<1>3. CASE s.pc = "sample_turn"
  <2>1. ss[s.session] = sessions[s.session]
    BY <1>2, <1>3 DEF Touches, OnSession
  <2> QED BY <1>0, <1>1, <1>2, <1>3, <2>1 DEF SessionInv
<1>4. CASE s.pc \in {"sample_end", "activate", "turn", "handoff"}
  <2>1. ss[s.session].status # "pending"
    BY <1>0, <1>2, <1>4 DEF Touches, OnSession, SessionInv
  <2>2. s.pc = "activate" => ss[s.session].status # "completed" \/ ss[s.session].overlap
    <3>1. CASE s.session = id
      BY <3>1 DEF Touches, Reopening
    <3>2. CASE s.session # id
      BY <1>0, <1>2, <1>4, <3>2 DEF Touches, OnSession, SessionInv
    <3> QED BY <3>1, <3>2
  <2>3. s.session \in DOMAIN ss /\ s.pc # "sample_turn" /\ s.pc \in OnSession
    BY <1>1, <1>2, <1>4 DEF OnSession
  <2> HIDE DEF s
  <2>4. SessionInv(s, ss)
    BY <2>1, <2>2, <2>3 DEF SessionInv
  <2> QED BY <2>4 DEF s
<1>5. CASE s.pc \notin OnSession
  BY <1>0, <1>5 DEF SessionInv, OnSession
<1> QED BY <1>3, <1>4, <1>5 DEF OnSession

(* Nobody's pending session is a committed one. *)
LEMMA NotPending ==
  ASSUME IndInv, NEW id, sessions[id].status # "pending", NEW o \in Req
  PROVE  req[o].pc = "sample_turn" => req[o].session # id
BY Facts DEF SessionInv

LEMMA WriteTouches ==
  ASSUME IndInv, NEW id \in DOMAIN sessions, NEW x \in Session, x.status # "pending",
         Ended(sessions, id) => x.status = "completed" \/ x.overlap \/ x.handoff,
         Reopening(id) => x.status # "completed" \/ x.overlap
  PROVE  Touches([sessions EXCEPT ![id] = x], id)
<1> DEFINE ss == [sessions EXCEPT ![id] = x]
<1>1. sessions \in Seq(Session)
  BY SessionsDomain
<1>2. ss \in Seq(Session) /\ Len(ss) = Len(sessions) /\ DOMAIN ss = DOMAIN sessions
  BY <1>1, ExceptSeq, LenProperties
<1>3. ss[id] = x /\ \A i \in DOMAIN sessions \ {id} : ss[i] = sessions[i]
  OBVIOUS
<1> HIDE DEF ss
<1> QED BY <1>2, <1>3 DEF Touches, Ended, ss

LEMMA Noticed ==
  ASSUME IndInv, NEW id, Reopening(id)
  PROVE  sessions[id].status \notin {"pending", "completed"} \/ sessions[id].overlap
BY Facts DEF Reopening, SessionInv

(* A turn that escalates or not: the status may go back, the handoff stays. *)
LEMMA TurnTouches ==
  ASSUME IndInv, NEW id \in DOMAIN sessions, sessions[id].status # "pending",
         NEW ss \in AfterTurn(id)
  PROVE  Touches(ss, id)
<1>1. Touches(sessions, id)
  BY SessionsDomain, Noticed DEF Touches
<1>2. CASE ss = [sessions EXCEPT ![id].status = "handoff_pending", ![id].handoff = TRUE]
  <2> DEFINE x == [sessions[id] EXCEPT !.status = "handoff_pending", !.handoff = TRUE]
  <2>1. x \in Session /\ x.status = "handoff_pending" /\ x.handoff
    BY SessionsDomain DEF Session
  <2>2. ss = [sessions EXCEPT ![id] = x]
    BY <1>2
  <2> HIDE DEF x
  <2> QED BY <2>1, <2>2, WriteTouches
<1> QED BY <1>1, <1>2 DEF AfterTurn, Escalated

LEMMA StoreTouches ==
  ASSUME IndInv, NEW id \in DOMAIN sessions, NEW status \in {"created", "active"},
         sessions[id].status # "completed" \/ sessions[id].overlap
  PROVE  Touches(Store(id, status), id)
<1> DEFINE x == [sessions[id] EXCEPT !.status = status]
<1>1. sessions[id] \in Session
  BY SessionsDomain
<1>2. /\ x \in Session /\ x.status = status /\ x.handoff = sessions[id].handoff
      /\ x.overlap = sessions[id].overlap
  BY <1>1 DEF Session
<1>3. Store(id, status) = [sessions EXCEPT ![id] = x]
  BY DEF Store
<1> HIDE DEF x
<1>4. Ended(sessions, id) => x.status = "completed" \/ x.overlap \/ x.handoff
  BY <1>2 DEF Ended
<1> QED BY <1>2, <1>3, <1>4, WriteTouches

(* The end of a session that is in ss as a turn has left it. *)
LEMMA EndingTouches ==
  ASSUME IndInv, NEW id \in DOMAIN sessions, NEW ss, Touches(ss, id)
  PROVE  Touches(Ending(ss, id), id) /\ Ended(Ending(ss, id), id)
<1> DEFINE x == [ss[id] EXCEPT !.status = "completed", !.overlap = @ \/ Reopening(id)]
           w == [ss EXCEPT ![id] = x]
<1>1. DOMAIN ss = DOMAIN sessions /\ ss \in Seq(Session)
  BY TouchDomain DEF Touches
<1>2. ss[id] \in Session
  BY <1>1, LenProperties, ElementOfSeq
<1>3. (ss[id].overlap \/ Reopening(id)) \in BOOLEAN
  OBVIOUS
<1>4. x \in Session
  <2>1. ASSUME NEW b \in BOOLEAN
        PROVE  [ss[id] EXCEPT !.status = "completed", !.overlap = b] \in Session
    BY <1>2 DEF Session
  <2> QED BY <1>3, <2>1
<1>5. x.status = "completed" /\ x.overlap = (ss[id].overlap \/ Reopening(id))
  BY <1>2 DEF Session
<1>6. Ending(ss, id) = w
  BY DEF Ending
<1> HIDE DEF x
<1>7. w \in Seq(Session) /\ Len(w) = Len(ss) /\ DOMAIN w = DOMAIN ss
  BY <1>1, <1>4, ExceptSeq, LenProperties
<1>8. w[id] = x /\ \A i \in DOMAIN sessions \ {id} : w[i] = ss[i]
  BY <1>1
<1> HIDE DEF w
<1>9. Touches(w, id) /\ Ended(w, id)
  BY <1>1, <1>4, <1>5, <1>7, <1>8 DEF Touches, Ended
<1> QED BY <1>6, <1>9

(* Runs *)

LEMMA RunsDomain ==
  ASSUME IndInv PROVE runs \in Seq(Run) /\ Len(runs) \in Nat /\ DOMAIN runs = 1 .. Len(runs)
BY LenProperties DEF IndInv, TypeOK

LEMMA RunAtFacts ==
  ASSUME IndInv, NEW i \in 0 .. Len(runs)
  PROVE  RunAt(i) \in Run /\ (RunAt(i).completed => Ended(sessions, RunAt(i).session))
<1>1. CASE i = 0
  BY <1>1 DEF RunAt, Started, Run
<1>2. CASE i # 0
  <2>1. i \in DOMAIN runs /\ RunAt(i) = runs[i]
    BY <1>2, RunsDomain DEF RunAt
  <2>2. runs[i] \in Run
    BY <2>1, RunsDomain, ElementOfSeq
  <2> QED BY <2>1, <2>2 DEF IndInv, RunsEnded
<1> QED BY <1>1, <1>2

LEMMA WrittenFacts ==
  ASSUME IndInv, NEW i \in 0 .. Len(runs), NEW x \in Run, NEW ss,
         x.completed => Ended(ss, x.session), RunsEnded(runs, ss)
  PROVE  /\ Written(i, x) \in Seq(Run) /\ RunsEnded(Written(i, x), ss)
         /\ Len(Written(i, x)) = IF i = 0 THEN Len(runs) + 1 ELSE Len(runs)
<1>1. runs \in Seq(Run) /\ Len(runs) \in Nat /\ DOMAIN runs = 1 .. Len(runs)
  BY RunsDomain
<1>2. CASE i = 0
  <2> DEFINE w == Append(runs, x)
  <2>1. /\ w \in Seq(Run) /\ Len(w) = Len(runs) + 1 /\ w[Len(runs) + 1] = x
        /\ \A j \in 1 .. Len(runs) : w[j] = runs[j]
    BY <1>1, AppendProperties
  <2>2. DOMAIN w = 1 .. Len(runs) + 1
    BY <2>1, LenProperties
  <2> HIDE DEF w
  <2>3. ASSUME NEW j \in DOMAIN w, w[j].completed PROVE Ended(ss, w[j].session)
    <3>1. CASE j = Len(runs) + 1
      BY <2>1, <2>3, <3>1
    <3>2. CASE j \in 1 .. Len(runs)
      BY <1>1, <2>1, <2>3, <3>2 DEF RunsEnded
    <3> QED BY <1>1, <2>2, <3>1, <3>2
  <2> QED BY <1>2, <2>1, <2>3 DEF Written, RunsEnded, w
<1>3. CASE i # 0
  <2> DEFINE w == [runs EXCEPT ![i] = x]
  <2>1. i \in DOMAIN runs
    BY <1>1, <1>3
  <2>2. w \in Seq(Run) /\ Len(w) = Len(runs) /\ DOMAIN w = DOMAIN runs
    BY <1>1, <2>1, ExceptSeq, LenProperties
  <2>3. \A j \in DOMAIN runs : w[j] = IF j = i THEN x ELSE runs[j]
    OBVIOUS
  <2> HIDE DEF w
  <2>4. RunsEnded(w, ss)
    BY <2>2, <2>3 DEF RunsEnded
  <2> QED BY <1>3, <2>2, <2>4 DEF Written, w
<1> QED BY <1>2, <1>3

(* Runs only get more. *)
LEMMA MoreRuns ==
  ASSUME IndInv, NEW rs, Len(rs) \in {Len(runs), Len(runs) + 1}, NEW i \in 0 .. Len(runs)
  PROVE  i \in 0 .. Len(rs)
BY RunsDomain

(* A step of one request on the sessions and the runs. *)
LEMMA SessionStep ==
  ASSUME IndInv, NEW q \in Req, NEW s \in Request, req' = [req EXCEPT ![q] = s],
         UNCHANGED <<versions, faq, kinds>>, opened' = Len(sessions'),
         sessions' \in Seq(Session),
         runs' \in Seq(Run), Len(runs') \in {Len(runs), Len(runs) + 1},
         RunsEnded(runs', sessions'),
         ReqInv(s, versions, faq, sessions', runs'),
         \A o \in Req \ {q} : SessionInv(req[o], sessions'),
         \A o \in Req \ {q} : ~Clash(s, req[o])
  PROVE  IndInv'
<1>1. ASSUME NEW o \in Req \ {q} PROVE ReqInv(req[o], versions', faq', sessions', runs')
  BY Facts, MoreRuns DEF ReqInv
<1>2. /\ versions' \in Seq(Version) /\ OneActive(versions') /\ FaqOnce(faq')
      /\ faq' \in [collections : Nat, documents : Nat, deleted : BOOLEAN]
  BY DEF IndInv, TypeOK
<1> QED BY <1>1, <1>2, StepKeeps

(* A request that is at no session, no version and no seeding. *)
Plain == {"connect", "connected", "sample", "open"}

LEMMA PlainKeeps ==
  ASSUME IndInv, NEW q \in Req, NEW s \in Request, req' = [req EXCEPT ![q] = s],
         UNCHANGED <<versions, sessions, runs, faq, opened, kinds>>,
         s.pc \in Plain \cup {"seed"}, s.number = 0 \/ s.pc # "seed",
         ~s.activate => s.locked = {}, s.session = 0, s.run \in 0 .. Len(runs)
  PROVE  IndInv'
<1>1. ReqInv(s, versions, faq, sessions, runs)
  BY DEF ReqInv, VersionInv, FaqInv, SessionInv, OnSession, Plain
<1>2. \A o \in Req \ {q} : ~Clash(s, req[o])
  BY DEF Clash, Plain
<1> QED BY <1>1, <1>2, LocalKeeps

LEMMA BeginStep ==
  ASSUME IndInv, NEW r \in Req, NEW kind \in OnboardingKinds \cup DemoKinds,
         NEW pc \in Plain \cup {"seed"}, Begin(r, kind, pc)
  PROVE  IndInv'
<1> DEFINE s == [NoReq EXCEPT !.kind = kind, !.pc = pc]
<1>1. s \in Request
  BY DEF NoReq, Request, Configs, Plain
<1>2. s.pc = pc /\ s.number = 0 /\ s.locked = {} /\ s.session = 0 /\ s.run = 0
  BY DEF NoReq
<1>3. req' = [req EXCEPT ![r] = s] /\ UNCHANGED <<versions, sessions, runs, faq, opened, kinds>>
  BY DEF Begin, Set
<1>4. 0 \in 0 .. Len(runs)
  BY RunsDomain
<1> HIDE DEF s
<1> QED BY <1>1, <1>2, <1>3, <1>4, PlainKeeps

LEMMA ReadRunStep == ASSUME IndInv, NEW r \in Req, ReadRun(r) PROVE IndInv'
<1> DEFINE s == [req[r] EXCEPT !.pc = "connected", !.run = LatestRun]
<1>1. /\ req[r] \in Request /\ req[r].pc = "connect" /\ VersionInv(req[r], versions)
      /\ SessionInv(req[r], sessions)
  BY Facts DEF ReadRun
<1>2. LatestRun \in Nat /\ LatestRun \in 0 .. Len(runs)
  BY RunsDomain DEF LatestRun
<1>3. s \in Request
  <2>1. ASSUME NEW n \in Nat PROVE [req[r] EXCEPT !.pc = "connected", !.run = n] \in Request
    BY <1>1 DEF Request
  <2> QED BY <1>2, <2>1
<1>4. /\ s.pc = "connected" /\ s.activate = req[r].activate /\ s.locked = req[r].locked
      /\ s.session = req[r].session /\ s.run = LatestRun
  BY <1>1 DEF Request
<1>5. req' = [req EXCEPT ![r] = s] /\ UNCHANGED <<versions, sessions, runs, faq, opened, kinds>>
  BY DEF ReadRun, Set
<1> HIDE DEF s
<1>6. (~s.activate => s.locked = {}) /\ s.session = 0
  BY <1>1, <1>4 DEF VersionInv, SessionInv, OnSession
<1> QED BY <1>2, <1>3, <1>4, <1>5, <1>6, PlainKeeps DEF Plain

LEMMA CommitConnectStep == ASSUME IndInv, NEW r \in Req, CommitConnect(r) PROVE IndInv'
<1> DEFINE i == req[r].run
           x == [RunAt(i) EXCEPT !.status = "token_connected", !.connected = TRUE]
<1>1. i \in 0 .. Len(runs)
  BY Facts
<1>2. RunAt(i) \in Run /\ (RunAt(i).completed => Ended(sessions, RunAt(i).session))
  BY <1>1, RunAtFacts
<1>3. x \in Run /\ x.completed = RunAt(i).completed /\ x.session = RunAt(i).session
  BY <1>2 DEF Run
<1>4. /\ runs' = Written(i, x) /\ req' = [req EXCEPT ![r] = NoReq]
      /\ UNCHANGED <<versions, sessions, faq, opened, kinds>>
  BY DEF CommitConnect, Answer, Set
<1> HIDE DEF i, x
<1>5. /\ runs' \in Seq(Run) /\ RunsEnded(runs', sessions)
      /\ Len(runs') \in {Len(runs), Len(runs) + 1}
  BY <1>1, <1>2, <1>3, <1>4, WrittenFacts DEF IndInv
<1>6. /\ ReqInv(NoReq, versions, faq, sessions', runs') /\ NoReq \in Request
      /\ \A o \in Req \ {r} : ~Clash(NoReq, req[o])
  BY <1>5, NoReqType, NoReqInv, NoReqMeets
<1>7. \A o \in Req : SessionInv(req[o], sessions)
  BY Facts
<1>8. sessions' \in Seq(Session) /\ opened' = Len(sessions')
  BY <1>4, SessionsDomain
<1> QED BY <1>4, <1>5, <1>6, <1>7, <1>8, SessionStep

LEMMA StartOnboardingStep == ASSUME IndInv, NEW r \in Req, StartOnboarding(r) PROVE IndInv'
<1>1. runs' = Written(0, Started) /\ UNCHANGED <<versions, sessions, faq, opened, req, kinds>>
  BY DEF StartOnboarding, Written
<1>2. 0 \in 0 .. Len(runs) /\ Started \in Run /\ ~Started.completed
  BY RunsDomain DEF Started, Run
<1>3. /\ runs' \in Seq(Run) /\ RunsEnded(runs', sessions)
      /\ Len(runs') \in {Len(runs), Len(runs) + 1}
  BY <1>1, <1>2, WrittenFacts DEF IndInv
<1>4. ASSUME NEW o \in Req PROVE ReqInv(req'[o], versions', faq', sessions', runs')
  BY <1>1, <1>3, Facts, MoreRuns DEF ReqInv
<1>5. TypeOK'
  BY <1>1, <1>3 DEF IndInv, TypeOK
<1> QED BY <1>1, <1>3, <1>4, <1>5 DEF IndInv

(* A new session *)
LEMMA NewSessionStep ==
  ASSUME IndInv, NEW r \in Req, req[r].pc \in Plain,
         NEW run \in 0 .. Len(runs), NEW pc, NEW status,
         \/ pc = "sample_turn" /\ status = "pending"
         \/ pc = "turn" /\ status = "active",
         NewSession(r, pc, status, run)
  PROVE  IndInv'
<1> DEFINE n == opened + 1
           x == [status |-> status, handoff |-> FALSE, overlap |-> FALSE]
           ss == Append(sessions, x)
           s == [req[r] EXCEPT !.pc = pc, !.session = n, !.run = run]
<1>1. req[r] \in Request /\ VersionInv(req[r], versions)
  BY Facts
<1>2. /\ sessions \in Seq(Session) /\ Len(sessions) \in Nat /\ DOMAIN sessions = 1 .. Len(sessions)
      /\ n = Len(sessions) + 1 /\ n \in Nat
  BY SessionsDomain
<1>3. x \in Session /\ x.status = status /\ ~x.handoff /\ ~x.overlap
  BY DEF Session
<1>4. run \in Nat
  BY RunsDomain
<1>5. s \in Request
  <2>1. ASSUME NEW m \in Nat, NEW k \in Nat
        PROVE  [req[r] EXCEPT !.pc = pc, !.session = m, !.run = k] \in Request
    BY <1>1 DEF Request
  <2> QED BY <1>2, <1>4, <2>1
<1>6. /\ s.pc = pc /\ s.session = n /\ s.run = run /\ s.number = req[r].number
      /\ s.activate = req[r].activate /\ s.locked = req[r].locked
  BY <1>1 DEF Request
<1>7. /\ req' = [req EXCEPT ![r] = s] /\ sessions' = ss /\ opened' = n
      /\ UNCHANGED <<versions, runs, faq, kinds>>
  BY DEF NewSession, Set
<1> HIDE DEF n, x, s
<1>8. /\ ss \in Seq(Session) /\ Len(ss) = n /\ ss[n] = x
      /\ \A i \in 1 .. Len(sessions) : ss[i] = sessions[i]
  BY <1>2, <1>3, AppendProperties
<1>9. DOMAIN ss = 1 .. n
  BY <1>8, LenProperties
<1> HIDE DEF ss
<1>10. n \in DOMAIN ss /\ \A i \in DOMAIN sessions : i \in DOMAIN ss /\ ss[i] = sessions[i] /\ i # n
  BY <1>2, <1>8, <1>9
<1>11. ReqInv(s, versions, faq, ss, runs)
  <2>1. VersionInv(s, versions) /\ FaqInv(s, faq)
    BY <1>1, <1>6 DEF VersionInv, FaqInv
  <2>2. SessionInv(s, ss)
    BY <1>3, <1>6, <1>8, <1>10 DEF SessionInv, OnSession
  <2> QED BY <1>6, <2>1, <2>2 DEF ReqInv
<1>12. ASSUME NEW o \in Req \ {r} PROVE SessionInv(req[o], ss) /\ ~Clash(s, req[o])
  <2>1. SessionInv(req[o], sessions)
    BY Facts
  <2>2. req[o].pc \in OnSession =>
          /\ req[o].session \in DOMAIN ss /\ ss[req[o].session] = sessions[req[o].session]
          /\ req[o].session # n
    BY <1>10, <2>1 DEF SessionInv
  <2> QED BY <1>6, <2>1, <2>2 DEF SessionInv, Clash, OnSession
<1>13. RunsEnded(runs, ss)
  BY <1>10 DEF IndInv, RunsEnded, Ended
<1>14. Len(runs') \in {Len(runs), Len(runs) + 1} /\ runs' \in Seq(Run)
  BY <1>7, RunsDomain
<1> QED BY <1>5, <1>7, <1>8, <1>11, <1>12, <1>13, <1>14, SessionStep

LEMMA OpenSampleStep == ASSUME IndInv, NEW r \in Req, OpenSample(r) PROVE IndInv'
<1>1. LatestRun \in 0 .. Len(runs)
  BY RunsDomain DEF LatestRun
<1> QED BY <1>1, NewSessionStep DEF OpenSample, Plain

LEMMA OpenSessionStep == ASSUME IndInv, NEW r \in Req, OpenSession(r) PROVE IndInv'
<1>1. 0 \in 0 .. Len(runs)
  BY RunsDomain
<1> QED BY <1>1, NewSessionStep DEF OpenSession, Plain

(* A request that is answered, after a write to a session that is committed or
   that is its own. *)
LEMMA AnswerTouch ==
  ASSUME IndInv, NEW r \in Req, Answer(r), NEW id, Touches(sessions', id),
         \A o \in Req \ {r} : req[o].pc = "sample_turn" => req[o].session # id,
         runs' \in Seq(Run), Len(runs') \in {Len(runs), Len(runs) + 1},
         RunsEnded(runs', sessions'),
         UNCHANGED <<versions, faq, opened, kinds>>
  PROVE  IndInv'
<1>1. req' = [req EXCEPT ![r] = NoReq]
  BY DEF Answer, Set
<1>2. sessions' \in Seq(Session) /\ opened' = Len(sessions')
  BY SessionsDomain DEF Touches
<1>3. \A o \in Req \ {r} : SessionInv(req[o], sessions')
  BY Facts, TouchesOthers
<1>4. /\ ReqInv(NoReq, versions, faq, sessions', runs') /\ NoReq \in Request
      /\ \A o \in Req \ {r} : ~Clash(NoReq, req[o])
  BY NoReqType, NoReqInv, NoReqMeets
<1> QED BY <1>1, <1>2, <1>3, <1>4, SessionStep

(* The same without a write to the runs. *)
LEMMA AnswerTurn ==
  ASSUME IndInv, NEW r \in Req, Answer(r), NEW id, Touches(sessions', id),
         sessions[id].status # "pending",
         UNCHANGED <<versions, runs, faq, opened, kinds>>
  PROVE  IndInv'
<1>1. \A o \in Req \ {r} : req[o].pc = "sample_turn" => req[o].session # id
  BY NotPending
<1>2. RunsEnded(runs', sessions')
  BY TouchesRuns DEF IndInv
<1>3. runs' \in Seq(Run) /\ Len(runs') \in {Len(runs), Len(runs) + 1}
  BY RunsDomain
<1> QED BY <1>1, <1>2, <1>3, AnswerTouch

LEMMA SampleTurnStep == ASSUME IndInv, NEW r \in Req, SampleTurn(r) PROVE IndInv'
<1> DEFINE id == req[r].session
           i == req[r].run
           l == IF i = 0 THEN Len(runs) + 1 ELSE i
           s == [req[r] EXCEPT !.pc = "sample_end", !.run = l]
<1>1. /\ req[r] \in Request /\ req[r].pc = "sample_turn" /\ SessionInv(req[r], sessions)
      /\ VersionInv(req[r], versions) /\ i \in 0 .. Len(runs)
  BY Facts DEF SampleTurn
<1>2. /\ id \in DOMAIN sessions /\ sessions[id].status = "pending" /\ ~sessions[id].handoff
      /\ ~sessions[id].overlap
  BY <1>1 DEF SessionInv, OnSession
<1>3. sessions[id] \in Session
  BY <1>2, SessionsDomain
<1>4. PICK ss \in AfterTurn(id) :
         sessions' = [ss EXCEPT ![id].status = IF @ = "pending" THEN "created" ELSE @]
  BY DEF SampleTurn
<1>5. PICK x \in Session : x.status # "pending" /\ sessions' = [sessions EXCEPT ![id] = x]
  <2>1. CASE ss = sessions
    <3> DEFINE x == [sessions[id] EXCEPT !.status = "created"]
    <3>1. x \in Session /\ x.status # "pending"
      BY <1>3 DEF Session
    <3>2. sessions' = [sessions EXCEPT ![id] = x]
      BY <1>2, <1>4, <2>1
    <3> QED BY <3>1, <3>2
  <2>2. CASE ss = [sessions EXCEPT ![id].status = "handoff_pending", ![id].handoff = TRUE]
    <3> DEFINE x == [sessions[id] EXCEPT !.status = "handoff_pending", !.handoff = TRUE]
    <3>0. ss = [sessions EXCEPT ![id] = x]
      BY <2>2
    <3>1. x \in Session /\ x.status # "pending" /\ [x EXCEPT !.status = x.status] = x
      BY <1>3 DEF Session
    <3> HIDE DEF x
    <3>2. ss[id] = x
      BY <1>2, <3>0
    <3>3. sessions' = [ss EXCEPT ![id] = [x EXCEPT !.status = x.status]]
      BY <1>4, <3>1, <3>2
    <3>4. sessions' = [sessions EXCEPT ![id] = x]
      BY <3>0, <3>1, <3>3
    <3> QED BY <3>1, <3>4
  <2> QED BY <1>4, <2>1, <2>2 DEF AfterTurn, Escalated
<1>6. Touches(sessions', id)
  BY <1>2, <1>5, WriteTouches, Noticed DEF Ended
<1>7. RunAt(i) \in Run /\ (RunAt(i).completed => Ended(sessions, RunAt(i).session))
  BY <1>1, RunAtFacts
<1>8. /\ runs' = Written(i, RunAt(i)) /\ req' = [req EXCEPT ![r] = s]
      /\ UNCHANGED <<versions, faq, opened, kinds>>
  BY <1>1 DEF SampleTurn, Set, Request
<1>9. RunsEnded(runs, sessions') /\ (RunAt(i).completed => Ended(sessions', RunAt(i).session))
  BY <1>6, <1>7, TouchesRuns, TouchesEnded DEF IndInv
<1>10. /\ runs' \in Seq(Run) /\ RunsEnded(runs', sessions')
       /\ Len(runs') = IF i = 0 THEN Len(runs) + 1 ELSE Len(runs)
  BY <1>1, <1>7, <1>8, <1>9, WrittenFacts
<1>11. l \in Nat /\ l \in 0 .. Len(runs') /\ Len(runs') \in {Len(runs), Len(runs) + 1}
  BY <1>1, <1>10, RunsDomain
<1> HIDE DEF l
<1>12. s \in Request
  <2>1. ASSUME NEW n \in Nat PROVE [req[r] EXCEPT !.pc = "sample_end", !.run = n] \in Request
    BY <1>1 DEF Request
  <2> QED BY <1>11, <2>1
<1>13. /\ s.pc = "sample_end" /\ s.session = id /\ s.run = l /\ s.number = req[r].number
       /\ s.activate = req[r].activate /\ s.locked = req[r].locked
  BY <1>1 DEF Request
<1> HIDE DEF s
<1>14. ReqInv(s, versions, faq, sessions', runs')
  <2>1. VersionInv(s, versions) /\ FaqInv(s, faq)
    BY <1>1, <1>13 DEF VersionInv, FaqInv
  <2>2. SessionInv(s, sessions')
    BY <1>2, <1>6, <1>13, TouchDomain DEF SessionInv, OnSession, Touches
  <2> QED BY <1>11, <1>13, <2>1, <2>2 DEF ReqInv
<1>15. ASSUME NEW o \in Req \ {r} PROVE SessionInv(req[o], sessions') /\ ~Clash(s, req[o])
  <2>1. req[o].pc = "sample_turn" => req[o].session # id
    BY <1>1 DEF IndInv, Clash
  <2> QED BY <1>6, <1>13, <2>1, Facts, TouchesOthers DEF Clash
<1>16. sessions' \in Seq(Session) /\ opened' = Len(sessions')
  BY <1>6, <1>8, SessionsDomain DEF Touches
<1> QED BY <1>8, <1>10, <1>11, <1>12, <1>14, <1>15, <1>16, SessionStep

LEMMA SamplePassesStep == ASSUME IndInv, NEW r \in Req, SamplePasses(r) PROVE IndInv'
<1> DEFINE id == req[r].session
           i == req[r].run
           x == [RunAt(i) EXCEPT !.status = "test_call_passed", !.completed = TRUE, !.session = id]
<1>1. /\ req[r] \in Request /\ req[r].pc = "sample_end" /\ SessionInv(req[r], sessions)
      /\ i \in 0 .. Len(runs)
  BY Facts DEF SamplePasses
<1>2. id \in DOMAIN sessions /\ sessions[id].status # "pending" /\ id \in Nat
  BY <1>1 DEF SessionInv, OnSession, Request
<1>3. sessions' = Ending(sessions, id) /\ runs' = Written(i, x) /\ Answer(r)
      /\ UNCHANGED <<versions, faq, opened, kinds>>
  BY DEF SamplePasses
<1>4. Touches(sessions, id)
  BY <1>2, SessionsDomain, Noticed DEF Touches
<1>5. Touches(sessions', id) /\ Ended(sessions', id)
  BY <1>2, <1>3, <1>4, EndingTouches
<1>6. RunAt(i) \in Run
  BY <1>1, RunAtFacts
<1>7. x \in Run /\ x.session = id
  BY <1>2, <1>6 DEF Run
<1>8. RunsEnded(runs, sessions')
  BY <1>5, TouchesRuns DEF IndInv
<1> HIDE DEF id, i, x
<1>9. /\ runs' \in Seq(Run) /\ RunsEnded(runs', sessions')
      /\ Len(runs') \in {Len(runs), Len(runs) + 1}
  BY <1>1, <1>3, <1>5, <1>7, <1>8, WrittenFacts
<1>10. \A o \in Req \ {r} : req[o].pc = "sample_turn" => req[o].session # id
  BY <1>2, NotPending
<1> QED BY <1>3, <1>5, <1>9, <1>10, AnswerTouch

LEMMA SampleFailsStep == ASSUME IndInv, NEW r \in Req, SampleFails(r) PROVE IndInv'
<1> DEFINE id == req[r].session
           i == req[r].run
           x == [RunAt(i) EXCEPT !.status = "test_call_failed"]
<1>1. /\ req[r] \in Request /\ req[r].pc \in {"sample_turn", "sample_end"}
      /\ SessionInv(req[r], sessions) /\ i \in 0 .. Len(runs)
  BY Facts DEF SampleFails
<1>2. /\ sessions' = IF req[r].pc = "sample_turn" THEN Store(id, "created") ELSE sessions
      /\ runs' = Written(i, x) /\ Answer(r) /\ UNCHANGED <<versions, faq, opened, kinds>>
  BY DEF SampleFails
<1>3. /\ Touches(sessions', id)
      /\ \A o \in Req \ {r} : req[o].pc = "sample_turn" => req[o].session # id
  <2>1. CASE req[r].pc = "sample_turn"
    <3>1. id \in DOMAIN sessions /\ sessions[id].status = "pending"
      BY <1>1, <2>1 DEF SessionInv, OnSession
    <3>2. Touches(sessions', id)
      BY <1>2, <2>1, <3>1, StoreTouches
    <3>3. \A o \in Req \ {r} : req[o].pc = "sample_turn" => req[o].session # id
      BY <2>1 DEF IndInv, Clash
    <3> QED BY <3>2, <3>3
  <2>2. CASE req[r].pc = "sample_end"
    <3>1. id \in DOMAIN sessions /\ sessions[id].status # "pending"
      BY <1>1, <2>2 DEF SessionInv, OnSession
    <3>2. Touches(sessions', id)
      BY <1>2, <2>2, <3>1, SessionsDomain, Noticed DEF Touches
    <3> QED BY <3>1, <3>2, NotPending
  <2> QED BY <1>1, <2>1, <2>2
<1>4. RunAt(i) \in Run /\ (RunAt(i).completed => Ended(sessions, RunAt(i).session))
  BY <1>1, RunAtFacts
<1>5. x \in Run /\ x.completed = RunAt(i).completed /\ x.session = RunAt(i).session
  BY <1>4 DEF Run
<1> HIDE DEF id, i, x
<1>6. RunsEnded(runs, sessions') /\ (x.completed => Ended(sessions', x.session))
  BY <1>3, <1>4, <1>5, TouchesRuns, TouchesEnded DEF IndInv
<1>7. /\ runs' \in Seq(Run) /\ RunsEnded(runs', sessions')
      /\ Len(runs') \in {Len(runs), Len(runs) + 1}
  BY <1>1, <1>2, <1>5, <1>6, WrittenFacts
<1> QED BY <1>2, <1>3, <1>7, AnswerTouch

LEMMA DemoTurnStep ==
  ASSUME IndInv, NEW r \in Req, DemoTurn(r) PROVE IndInv'
<1> DEFINE id == req[r].session
           s == [req[r] EXCEPT !.pc = "handoff"]
<1>1. /\ req[r] \in Request /\ req[r].pc = "turn" /\ SessionInv(req[r], sessions)
      /\ VersionInv(req[r], versions) /\ req[r].run \in 0 .. Len(runs)
  BY Facts DEF DemoTurn
<1>2. id \in DOMAIN sessions /\ sessions[id].status # "pending"
  BY <1>1 DEF SessionInv, OnSession
<1>3. Touches(sessions', id) /\ UNCHANGED <<versions, runs, faq, opened, kinds>>
  BY <1>2, TurnTouches DEF DemoTurn
<1>4. CASE Answer(r)
  BY <1>2, <1>3, <1>4, AnswerTurn
<1>5. CASE req' = [req EXCEPT ![r] = s]
  <2>1. s \in Request
    BY <1>1 DEF Request
  <2>2. /\ s.pc = "handoff" /\ s.session = id /\ s.run = req[r].run
        /\ s.activate = req[r].activate /\ s.locked = req[r].locked
    BY <1>1 DEF Request
  <2> HIDE DEF s
  <2>3. VersionInv(s, versions) /\ FaqInv(s, faq)
    BY <1>1, <2>2 DEF VersionInv, FaqInv
  <2>4. SessionInv(s, sessions')
    BY <1>2, <1>3, <2>2, TouchDomain DEF SessionInv, OnSession, Touches
  <2>5. \A o \in Req \ {r} : SessionInv(req[o], sessions') /\ ~Clash(s, req[o])
    BY <1>2, <1>3, <2>2, Facts, NotPending, TouchesOthers DEF Clash
  <2>6. sessions' \in Seq(Session) /\ opened' = Len(sessions') /\ RunsEnded(runs', sessions')
    BY <1>3, SessionsDomain, TouchesRuns DEF Touches, IndInv
  <2>7. runs' \in Seq(Run) /\ Len(runs') \in {Len(runs), Len(runs) + 1}
    BY <1>3, RunsDomain
  <2>8. ReqInv(s, versions, faq, sessions', runs')
    BY <1>1, <1>3, <2>2, <2>3, <2>4 DEF ReqInv
  <2> QED BY <1>3, <1>5, <2>1, <2>5, <2>6, <2>7, <2>8, SessionStep
<1> QED BY <1>4, <1>5 DEF DemoTurn, Set

LEMMA DemoTurnFailsStep == ASSUME IndInv, NEW r \in Req, DemoTurnFails(r) PROVE IndInv'
<1> DEFINE id == req[r].session
<1>1. req[r].pc = "turn" /\ SessionInv(req[r], sessions)
  BY Facts DEF DemoTurnFails
<1>2. id \in DOMAIN sessions /\ sessions[id].status # "pending"
  BY <1>1 DEF SessionInv, OnSession
<1>3. PICK ss \in AfterTurn(id) :
         sessions' \in {Ending(ss, id), ss}
  BY DEF DemoTurnFails
<1>4. Touches(ss, id)
  BY <1>2, TurnTouches
<1>5. Touches(Ending(ss, id), id)
  BY <1>2, <1>4, EndingTouches
<1>6. Touches(sessions', id)
  BY <1>3, <1>4, <1>5
<1> QED BY <1>2, <1>6, AnswerTurn DEF DemoTurnFails

LEMMA TrustLoopHandoffStep == ASSUME IndInv, NEW r \in Req, TrustLoopHandoff(r) PROVE IndInv'
<1> DEFINE id == req[r].session
<1>1. req[r].pc = "handoff" /\ SessionInv(req[r], sessions)
  BY Facts DEF TrustLoopHandoff
<1>2. id \in DOMAIN sessions /\ sessions[id].status # "pending"
  BY <1>1 DEF SessionInv, OnSession
<1>3. Touches(sessions', id)
  BY <1>2, TurnTouches DEF TrustLoopHandoff, AfterTurn
<1> QED BY <1>2, <1>3, AnswerTurn DEF TrustLoopHandoff

LEMMA ChatAgainStep ==
  ASSUME IndInv, NEW r \in Req, NEW id \in DOMAIN sessions, ChatAgain(r, id) PROVE IndInv'
<1>1. PICK pc \in {"turn", "activate"} :
        req' = [req EXCEPT ![r] = [NoReq EXCEPT !.kind = "chat", !.session = id, !.pc = pc]]
  BY DEF ChatAgain, Set
<1> DEFINE s == [NoReq EXCEPT !.kind = "chat", !.session = id, !.pc = pc]
<1>2. /\ sessions[id].status \notin {"pending", "completed"}
      /\ UNCHANGED <<versions, sessions, runs, faq, opened, kinds>>
  BY DEF ChatAgain, Status
<1>3. id \in Nat
  BY SessionsDomain
<1>4. s \in Request
  <2>1. ASSUME NEW n \in Nat
        PROVE  [NoReq EXCEPT !.kind = "chat", !.session = n, !.pc = pc] \in Request
    BY DEF NoReq, Request, Configs, DemoKinds
  <2> QED BY <1>3, <2>1
<1>5. s.pc = pc /\ s.session = id /\ s.run = 0 /\ s.locked = {}
  BY DEF NoReq
<1>6. req' = [req EXCEPT ![r] = s]
  BY <1>1
<1> HIDE DEF s
<1>7. 0 \in 0 .. Len(runs)
  BY RunsDomain
<1>8. ReqInv(s, versions, faq, sessions, runs)
  BY <1>2, <1>5, <1>7 DEF ReqInv, VersionInv, FaqInv, SessionInv, OnSession
<1>9. \A o \in Req \ {r} : ~Clash(s, req[o])
  BY <1>5 DEF Clash
<1> QED BY <1>2, <1>4, <1>6, <1>8, <1>9, LocalKeeps

LEMMA ActivateSessionStep == ASSUME IndInv, NEW r \in Req, ActivateSession(r) PROVE IndInv'
<1> DEFINE id == req[r].session
           s == [req[r] EXCEPT !.pc = "turn"]
<1>1. /\ req[r] \in Request /\ req[r].pc = "activate" /\ SessionInv(req[r], sessions)
      /\ VersionInv(req[r], versions) /\ req[r].run \in 0 .. Len(runs)
  BY Facts DEF ActivateSession
<1>2. /\ id \in DOMAIN sessions /\ sessions[id].status # "pending"
      /\ sessions[id].status # "completed" \/ sessions[id].overlap
  BY <1>1 DEF SessionInv, OnSession
<1>3. /\ sessions' = Store(id, "active") /\ req' = [req EXCEPT ![r] = s]
      /\ UNCHANGED <<versions, runs, faq, opened, kinds>>
  BY DEF ActivateSession, Set
<1>4. Touches(sessions', id)
  BY <1>2, <1>3, StoreTouches
<1>5. s \in Request
  BY <1>1 DEF Request
<1>6. /\ s.pc = "turn" /\ s.session = id /\ s.run = req[r].run
      /\ s.activate = req[r].activate /\ s.locked = req[r].locked
  BY <1>1 DEF Request
<1> HIDE DEF s
<1>7. VersionInv(s, versions) /\ FaqInv(s, faq)
  BY <1>1, <1>6 DEF VersionInv, FaqInv
<1>8. SessionInv(s, sessions')
  BY <1>2, <1>4, <1>6, TouchDomain DEF SessionInv, OnSession, Touches
<1>9. \A o \in Req \ {r} : SessionInv(req[o], sessions') /\ ~Clash(s, req[o])
  BY <1>2, <1>4, <1>6, NotPending, TouchesOthers DEF Clash
<1>10. sessions' \in Seq(Session) /\ opened' = Len(sessions') /\ RunsEnded(runs', sessions')
  BY <1>3, <1>4, SessionsDomain, TouchesRuns DEF Touches, IndInv
<1>11. runs' \in Seq(Run) /\ Len(runs') \in {Len(runs), Len(runs) + 1}
  BY <1>3, RunsDomain
<1>12. ReqInv(s, versions, faq, sessions', runs')
  BY <1>1, <1>3, <1>6, <1>7, <1>8 DEF ReqInv
<1> QED BY <1>3, <1>5, <1>9, <1>10, <1>11, <1>12, SessionStep

LEMMA EndByOwnerStep == ASSUME IndInv, NEW id \in DOMAIN sessions, EndByOwner(id) PROVE IndInv'
<1>1. /\ Status(id) \in {"created", "active", "handoff_pending"}
      /\ sessions' = Ending(sessions, id)
      /\ UNCHANGED <<versions, runs, faq, opened, req, kinds>>
  BY DEF EndByOwner
<1>0. Touches(sessions, id)
  BY <1>1, SessionsDomain DEF Touches, Status
<1>2. sessions[id].status # "pending" /\ Touches(sessions', id)
  BY <1>0, <1>1, EndingTouches DEF Status
<1>3. sessions' \in Seq(Session) /\ opened' = Len(sessions') /\ RunsEnded(runs', sessions')
  BY <1>1, <1>2, SessionsDomain, TouchesRuns DEF Touches, IndInv
<1>4. ASSUME NEW o \in Req PROVE ReqInv(req'[o], versions', faq', sessions', runs')
  BY <1>1, <1>2, Facts, NotPending, TouchesOthers DEF ReqInv
<1>5. TypeOK'
  BY <1>1, <1>3 DEF IndInv, TypeOK
<1> QED BY <1>1, <1>3, <1>4, <1>5 DEF IndInv

LEMMA CrashStep == ASSUME IndInv, NEW r \in Req, Crash(r) PROVE IndInv'
<1> DEFINE id == req[r].session
<1>1. /\ sessions' = [i \in DOMAIN sessions |->
                        IF i = id /\ sessions[i].status = "pending"
                        THEN [sessions[i] EXCEPT !.status = "rolled_back"] ELSE sessions[i]]
      /\ Answer(r) /\ UNCHANGED <<versions, runs, faq, opened, kinds>>
  BY DEF Crash, Status
<1>2. CASE id \in DOMAIN sessions /\ sessions[id].status = "pending"
  <2> DEFINE x == [sessions[id] EXCEPT !.status = "rolled_back"]
  <2>1. SessionInv(req[r], sessions)
    BY Facts
  <2>2. id # 0
    BY <1>2, SessionsDomain
  <2>3. req[r].pc = "sample_turn" /\ ~sessions[id].handoff /\ ~sessions[id].overlap
    BY <1>2, <2>1, <2>2 DEF SessionInv, OnSession
  <2>4. sessions[id] \in Session
    BY <1>2, SessionsDomain
  <2>5. x \in Session /\ x.status # "pending"
    BY <2>4 DEF Session
  <2>6. sessions' = [sessions EXCEPT ![id] = x]
    BY <1>1, <1>2
  <2> HIDE DEF x
  <2>7. Touches(sessions', id)
    BY <1>2, <2>3, <2>5, <2>6, WriteTouches, Noticed DEF Ended
  <2>8. \A o \in Req \ {r} : req[o].pc = "sample_turn" => req[o].session # id
    BY <2>3 DEF IndInv, Clash
  <2>9. RunsEnded(runs', sessions')
    BY <1>1, <2>7, TouchesRuns DEF IndInv
  <2>10. runs' \in Seq(Run) /\ Len(runs') \in {Len(runs), Len(runs) + 1}
    BY <1>1, RunsDomain
  <2> QED BY <1>1, <2>7, <2>8, <2>9, <2>10, AnswerTouch
<1>3. CASE ~(id \in DOMAIN sessions /\ sessions[id].status = "pending")
  <2>1. sessions' = [i \in DOMAIN sessions |-> sessions[i]]
    BY <1>1, <1>3
  <2>2. sessions' = sessions
    BY <2>1, SessionsDomain
  <2> QED BY <1>1, <2>2, AnswerKeeps
<1> QED BY <1>2, <1>3

-----------------------------------------------------------------------------
(* The specification *)

LEMMA InitInv == Init => IndInv
<1> SUFFICES ASSUME Init PROVE IndInv
  OBVIOUS
<1>1. \A r \in Req : req[r] = NoReq
  BY DEF Init
<1>2. /\ versions = <<>> /\ versions \in Seq(Version)
      /\ sessions = <<>> /\ sessions \in Seq(Session)
      /\ runs = <<>> /\ runs \in Seq(Run) /\ opened = Len(sessions)
  BY EmptySeq DEF Init
<1>3. faq \in [collections : Nat, documents : Nat, deleted : BOOLEAN] /\ FaqOnce(faq)
  BY DEF Init, FaqOnce
<1>4. req \in [Req -> Request]
  BY NoReqType DEF Init
<1>5. TypeOK
  BY <1>2, <1>3, <1>4 DEF Init, TypeOK
<1>6. OneActive(versions) /\ RunsEnded(runs, sessions)
  BY <1>2 DEF OneActive, RunsEnded
<1>7. \A r \in Req : ReqInv(req[r], versions, faq, sessions, runs)
  BY <1>1, <1>2, NoReqInv
<1>8. \A r, o \in Req : ~Clash(req[r], req[o])
  BY <1>1, NoReqMeets
<1> QED BY <1>2, <1>3, <1>5, <1>6, <1>7, <1>8 DEF IndInv

LEMMA StepStep == ASSUME IndInv, NEW r \in Req, Step(r) PROVE IndInv'
BY NextVersionNumberStep, StartDeactivateStep, DeactivateAllStep, InsertVersionStep,
   CommitVersionStep, ReadRunStep, CommitConnectStep, OpenSampleStep, SampleTurnStep,
   SamplePassesStep, SampleFailsStep, OpenSessionStep, ActivateSessionStep, DemoTurnStep,
   DemoTurnFailsStep, SeedReadStep, SeedCollectionStep, SeedCommitStep, SeedFailsStep, TrustLoopHandoffStep
   DEF Step

LEMMA CallStep == ASSUME IndInv, NEW r \in Req, Call(r) PROVE IndInv'
<1>1. CASE ConnectToken(r)
  BY <1>1, BeginStep DEF ConnectToken, OnboardingKinds, Plain
<1>2. CASE RunSampleCall(r)
  BY <1>2, BeginStep DEF RunSampleCall, OnboardingKinds, Plain
<1>3. CASE Quickstart(r)
  BY <1>3, BeginStep DEF Quickstart, DemoKinds, Plain
<1>4. CASE TrustLoop(r)
  BY <1>4, BeginStep DEF TrustLoop, DemoKinds
<1>5. CASE Chat(r)
  BY <1>5, BeginStep DEF Chat, DemoKinds, Plain
<1> QED BY <1>1, <1>2, <1>3, <1>4, <1>5, ConfigCalls, StartOnboardingStep, ChatAgainStep DEF Call

LEMMA NextInv == ASSUME IndInv, [Next]_vars PROVE IndInv'
<1>1. CASE UNCHANGED vars
  BY <1>1 DEF vars, IndInv, TypeOK
<1> QED BY <1>1, StepStep, CallStep, CrashStep, EndByOwnerStep, DeleteFaqStep DEF Next

(* The rows of the tables and the state of every request have their types. *)
THEOREM TypeCorrect == Spec => []TypeOK
<1>1. IndInv => TypeOK
  BY DEF IndInv
<1> QED BY <1>1, InitInv, NextInv, PTL DEF Spec

LEMMA AtMostOne == ASSUME NEW S, \A m, n \in S : m = n PROVE Cardinality(S) <= 1
<1>1. CASE S = {}
  BY <1>1, FS_EmptySet
<1>2. CASE S # {}
  <2>1. PICK x : x \in S
    BY <1>2
  <2>2. S = {x}
    BY <2>1
  <2>3. Cardinality({x}) = 1
    BY FS_Singleton
  <2> QED BY <2>2, <2>3
<1> QED BY <1>1, <1>2

(* create_version, apply_policy_preset and rollback leave at most one active
   version, however many of them run at the same time and crash. *)
THEOREM VersionsStayOne == Spec => []OneActiveVersion
<1>1. IndInv => OneActiveVersion
  BY AtMostOne DEF IndInv, OneActive, OneActiveVersion, ActiveVersions
<1> QED BY <1>1, InitInv, NextInv, PTL DEF Spec

(* Visitors who start the trust loop together seed its FAQ once. *)
THEOREM FaqIsSeededOnce == Spec => []FaqSeededOnce
<1>1. IndInv => FaqSeededOnce
  BY DEF IndInv, FaqOnce, FaqSeededOnce
<1> QED BY <1>1, InitInv, NextInv, PTL DEF Spec

(* A run of onboarding passes only with a session that is ended with it; of an
   organization's requests only a chat that had read the session open before
   its end, or a handoff, makes it any other than completed again. *)
THEOREM PassedRunsEnded == Spec => []PassedMeansEnded
<1>1. ASSUME IndInv PROVE PassedMeansEnded
  <2> SUFFICES ASSUME NEW i \in DOMAIN runs, runs[i].completed
      PROVE  /\ runs[i].session # 0
             /\ \/ Status(runs[i].session) = "completed"
                \/ sessions[runs[i].session].overlap \/ sessions[runs[i].session].handoff
    BY DEF PassedMeansEnded
  <2>1. Ended(sessions, runs[i].session)
    BY <1>1 DEF IndInv, RunsEnded
  <2>2. 0 \notin DOMAIN sessions
    BY <1>1, SessionsDomain
  <2> QED BY <2>1, <2>2 DEF Ended, Status
<1> QED BY <1>1, InitInv, NextInv, PTL DEF Spec

(* Only the commit of a version writes the table. *)
LEMMA VersionsSame ==
  ASSUME [Next]_vars, \A r \in Req : ~CommitVersion(r) PROVE versions' = versions
<1>1. ASSUME NEW r \in Req, Step(r) PROVE versions' = versions
  BY <1>1 DEF Step, NextVersionNumber, StartDeactivate, DeactivateAll, InsertVersion, ReadRun,
    CommitConnect, OpenSample, SampleTurn, SamplePasses, SampleFails, OpenSession, NewSession,
    ActivateSession, DemoTurn, DemoTurnFails, SeedRead, SeedCollection, SeedCommit, SeedFails, TrustLoopHandoff
<1>2. ASSUME NEW r \in Req, Call(r) PROVE versions' = versions
  BY <1>2 DEF Call, CreateVersion, ApplyPreset, Rollback, BeginConfig, StartOnboarding,
    ConnectToken, RunSampleCall, Quickstart, TrustLoop, Chat, Begin, ChatAgain
<1>3. ASSUME NEW r \in Req, Crash(r) PROVE versions' = versions
  BY <1>3 DEF Crash
<1>4. ASSUME NEW id \in DOMAIN sessions, EndByOwner(id) PROVE versions' = versions
  BY <1>4 DEF EndByOwner
<1>5. DeleteFaq \/ UNCHANGED vars => versions' = versions
  BY DEF DeleteFaq, vars
<1> QED BY <1>1, <1>2, <1>3, <1>4, <1>5 DEF Next

(* An organization with an active version keeps one, and the content of a
   version is written once: rollback makes a new version of an old one. *)
THEOREM HistoryIsKept == Spec => HistoryKept
<1> DEFINE Kept == /\ ActiveVersions # {} => ActiveVersions' # {}
                   /\ \A n \in DOMAIN versions :
                        n \in DOMAIN versions' /\ versions'[n].config = versions[n].config
<1>1. ASSUME IndInv, [Next]_vars PROVE Kept
  <2>1. CASE versions' = versions
    BY <2>1 DEF ActiveVersions
  <2>2. ASSUME NEW r \in Req, CommitVersion(r) PROVE Kept
    <3>1. Inserted(r) /\ versions' = AfterCommit(r)
      BY <2>2 DEF CommitVersion
    <3>2. /\ \A n \in DOMAIN versions :
               n \in DOMAIN versions' /\ versions'[n].config = versions[n].config
          /\ ActiveVersions # {} => \E n \in DOMAIN versions' : versions'[n].active
      BY <1>1, <3>1, CommitVersions
    <3> QED BY <3>2 DEF ActiveVersions
  <2> QED BY <1>1, <2>1, <2>2, VersionsSame
<1>2. IndInv /\ [Next]_vars => [Kept]_vars
  BY <1>1
<1> QED BY <1>2, InitInv, NextInv, PTL DEF Spec, HistoryKept

=============================================================================
