------------------------- MODULE ControlPlaneProofs -------------------------
(***************************************************************************)
(* Theorems about ControlPlane, for any requests, provider chain, keys and *)
(* bounds.                                                                 *)
(***************************************************************************)
EXTENDS ControlPlane, TenantNamespaceProofs, SequenceTheorems, WellFoundedInduction

\* The roles that a configuration or a key can give.
Roles == {"", "admin", BasicRole, ClaimedRole} \cup {w[1] : w \in KeyWishes}

Users == [role : Roles, patterns : SUBSET SUBSET Namespaces]

States == {"new", "unauthorized", "forbidden", "done"} \cup DOMAIN Endpoints

Objects == [there : BOOLEAN, version : Nat, auto : 0..1, idle : 0..1, replicas : 0..1]

RequestRecords ==
    [at : States, user : Users, key : Nat, seen : Objects,
     reach : SUBSET Namespaces, touched : SUBSET Namespaces]

KeyRecords ==
    [value : Nat, role : Roles, listed : SUBSET SUBSET Namespaces, field : BOOLEAN,
     scope : SUBSET SUBSET Namespaces, expires : Nat]

IssuedRecords == [live : BOOLEAN, expires : Nat, reach : SUBSET Namespaces]

ObjectsOK == obj \in [{"server", "fleet"} -> Objects]

WantedOK == wanted \in [auto : 0..1, idle : 0..1, replicas : 0..1]

KeysOK ==
    /\ keys \in [KeyNames -> KeyRecords]
    /\ issued \in Seq(IssuedRecords)
    /\ now \in Nat

RequestsOK == req \in [Requests -> RequestRecords]

\* Every variable of the API has its type.
APITypeOK == ObjectsOK /\ WantedOK /\ KeysOK /\ RequestsOK

-----------------------------------------------------------------------------
(* Types *)

LEMMA ConstantsTyped ==
    /\ NoObject \in Objects
    /\ NoKey \in KeyRecords
    /\ Nobody \in Users
    /\ NewRequest \in RequestRecords
<1> DEFINE Patterns == SUBSET SUBSET Namespaces
<1>0. {} \in Patterns /\ "" \in Roles
  BY DEF Roles
<1> HIDE DEF Patterns
<1>1. NoObject \in Objects
  BY DEF NoObject, Objects
<1>2. NoKey \in [value : Nat, role : Roles, listed : Patterns, field : BOOLEAN,
                scope : Patterns, expires : Nat]
  BY <1>0 DEF NoKey
<1>3. Nobody \in [role : Roles, patterns : Patterns]
  BY <1>0 DEF Nobody, User
<1> USE DEF Patterns
<1>4. "new" \in States
  BY DEF States
<1>5. Nobody \in Users /\ NoKey \in KeyRecords
  BY <1>2, <1>3 DEF Users, KeyRecords
<1>6. NewRequest \in RequestRecords
  BY <1>1, <1>4, <1>5 DEF NewRequest, RequestRecords
<1> QED  BY <1>1, <1>5, <1>6

\* Whoever a credential is accepted for is a user with a role and patterns.
LEMMA AuthenticateTyped ==
    ASSUME KeysOK, NEW cred, NEW user \in Authenticate(cred)
    PROVE  user \in Users
<1> DEFINE Patterns == SUBSET SUBSET Namespaces
<1>0. {} \in Patterns
  OBVIOUS
<1> HIDE DEF Patterns
<1>a. \A role \in Roles : User(role, {}) \in [role : Roles, patterns : Patterns]
  BY <1>0 DEF User
<1> USE DEF Patterns
<1>1. {User("admin", {}), User(BasicRole, {}), User(ClaimedRole, {})} \subseteq Users
  BY <1>a DEF Users, Roles
<1>2. ASSUME NEW n \in KeyNames
      PROVE  FromSecret(keys[n]) \in Users
  BY DEF FromSecret, User, Users, KeysOK, KeyRecords
<1>3. APIKeyUsers(cred) \subseteq Users
  BY <1>2 DEF APIKeyUsers, GetKey
<1>4. CASE Chain = {}
  BY <1>1, <1>4 DEF Authenticate, UsersOf, NoneUsers
<1>5. CASE Chain # {}
  <2>1. PICK i \in Chain : user \in UsersOf(Modes[i], cred)
    BY <1>5 DEF Authenticate
  <2>2. Modes[i] \in {"none", "basic", "oidc", "apikey"}
    BY ControlPlaneAssumption DEF Chain
  <2> QED  BY <1>1, <1>3, <2>1, <2>2 DEF UsersOf, NoneUsers, BasicUsers, OIDCUsers
<1> QED  BY <1>4, <1>5

\* An answered request is as new but for what it has touched and its reach.
LEMMA Answered ==
    ASSUME RequestsOK, NEW r \in Requests, NEW t \in SUBSET Namespaces, Answer(r, t)
    PROVE  /\ RequestsOK'
           /\ req'[r].at = "done" /\ req'[r].key = 0 /\ ~req'[r].seen.there
           /\ req'[r].touched = t /\ req'[r].reach = req[r].reach
           /\ \A q \in Requests \ {r} : req'[q] = req[q]
<1> DEFINE o == [NewRequest EXCEPT !.at = "done", !.touched = t, !.reach = req[r].reach]
<1>1. "done" \in States
  BY DEF States
<1>2. o \in RequestRecords
  BY <1>1, ConstantsTyped DEF RequestsOK, RequestRecords
<1>3. /\ o.at = "done" /\ o.key = 0 /\ ~o.seen.there /\ o.touched = t
      /\ o.reach = req[r].reach
  BY DEF NewRequest, NoObject
<1>4. req' = [req EXCEPT ![r] = o]
  BY DEF Answer
<1> HIDE DEF o
<1> QED  BY <1>2, <1>3, <1>4 DEF RequestsOK

\* A request record of which one field is given another value of its type.
LEMMA RequestUpdated ==
    ASSUME NEW q \in RequestRecords
    PROVE  /\ \A at \in States, key \in Nat :
                [q EXCEPT !.at = at, !.key = key] \in RequestRecords
           /\ \A at \in States : [q EXCEPT !.at = at] \in RequestRecords
           /\ \A seen \in Objects : [q EXCEPT !.seen = seen] \in RequestRecords
           /\ \A at \in States, user \in Users, key \in Nat, reach \in SUBSET Namespaces :
                [q EXCEPT !.at = at, !.user = user, !.key = key, !.reach = reach]
                  \in RequestRecords
BY DEF RequestRecords

\* Whoever has asked stands for namespaces: all, or those of the API key.
LEMMA CredentialTyped ==
    ASSUME KeysOK, NEW cred \in Credentials
    PROVE  cred.value \in Nat /\ Reach(cred) \in SUBSET Namespaces
<1>1. CASE cred \in {Credential(kind, 0) : kind \in {"nothing", "basic", "oidc"}}
  BY <1>1 DEF Credential, Reach
<1>2. CASE cred \in {Credential("apikey", i) : i \in DOMAIN issued}
  <2>1. PICK i \in DOMAIN issued : cred = Credential("apikey", i)
    BY <1>2
  <2>2. i \in Nat /\ issued[i] \in IssuedRecords
    BY DEF KeysOK
  <2>3. cred.value = i /\ cred.kind = "apikey"
    BY <2>1 DEF Credential
  <2> QED  BY <2>2, <2>3 DEF Reach, IssuedRecords
<1> QED  BY <1>1, <1>2 DEF Credentials

\* What a step of the middleware makes of the requests.
LEMMA Arrived ==
    ASSUME KeysOK, RequestsOK,
           NEW r \in Requests, NEW op \in Ops, NEW cred \in Credentials, Arrive(r, op, cred)
    PROVE  /\ RequestsOK'
           /\ req'[r].seen = req[r].seen /\ req'[r].touched = req[r].touched
           /\ \A q \in Requests \ {r} : req'[q] = req[q]
           /\ \/ req'[r].at \in {"unauthorized", "forbidden"} /\ req'[r].reach = req[r].reach
              \/ /\ req'[r].at = op
                 /\ req'[r].reach = Reach(cred)
                 /\ req'[r].user \in Authenticate(cred)
                 /\ RouteGuard(req'[r].user, Endpoints[op])
                 /\ NamespaceGuard(req'[r].user, Endpoints[op])
<1>0. op \in States /\ {"unauthorized", "forbidden"} \subseteq States
  BY OpsAssumption DEF States
<1>1. req[r] \in RequestRecords
  BY DEF RequestsOK
<1>2. cred.value \in Nat /\ Reach(cred) \in SUBSET Namespaces
  BY CredentialTyped
<1>3. ASSUME NEW at \in {"unauthorized", "forbidden"},
             req' = [req EXCEPT ![r].at = at, ![r].key = cred.value]
      PROVE  /\ RequestsOK'
             /\ req'[r].seen = req[r].seen /\ req'[r].touched = req[r].touched
             /\ \A q \in Requests \ {r} : req'[q] = req[q]
             /\ req'[r].at \in {"unauthorized", "forbidden"} /\ req'[r].reach = req[r].reach
  <2> DEFINE o == [req[r] EXCEPT !.at = at, !.key = cred.value]
  <2>1. o \in RequestRecords
    BY <1>0, <1>1, <1>2, RequestUpdated
  <2>2. o.at = at /\ o.seen = req[r].seen /\ o.touched = req[r].touched /\ o.reach = req[r].reach
    BY <1>1 DEF RequestRecords
  <2>3. req' = [req EXCEPT ![r] = o]
    BY <1>3 DEF RequestsOK
  <2> HIDE DEF o
  <2> QED  BY <2>1, <2>2, <2>3 DEF RequestsOK
<1>4. ASSUME NEW user \in Authenticate(cred),
             req' = [req EXCEPT ![r] = [@ EXCEPT !.at = op, !.user = user, !.key = cred.value,
                                                 !.reach = Reach(cred)]]
      PROVE  /\ RequestsOK'
             /\ req'[r].seen = req[r].seen /\ req'[r].touched = req[r].touched
             /\ \A q \in Requests \ {r} : req'[q] = req[q]
             /\ req'[r].at = op /\ req'[r].reach = Reach(cred) /\ req'[r].user = user
  <2> DEFINE o == [req[r] EXCEPT !.at = op, !.user = user, !.key = cred.value,
                                 !.reach = Reach(cred)]
  <2>0. user \in Users
    BY AuthenticateTyped
  <2>1. o \in RequestRecords
    BY <1>0, <1>1, <1>2, <2>0, RequestUpdated
  <2>2. /\ o.at = op /\ o.seen = req[r].seen /\ o.touched = req[r].touched
        /\ o.reach = Reach(cred) /\ o.user = user
    BY <1>1 DEF RequestRecords
  <2>3. req' = [req EXCEPT ![r] = o]
    BY <1>4 DEF RequestsOK
  <2> HIDE DEF o
  <2> QED  BY <2>1, <2>2, <2>3 DEF RequestsOK
<1>5. CASE Authenticate(cred) = {}
  BY <1>3, <1>5 DEF Arrive
<1>6. CASE Authenticate(cred) # {}
  <2>1. PICK user \in Authenticate(cred) :
           IF RouteGuard(user, Endpoints[op]) /\ NamespaceGuard(user, Endpoints[op])
           THEN req' = [req EXCEPT ![r] = [@ EXCEPT !.at = op, !.user = user,
                                                    !.key = cred.value,
                                                    !.reach = Reach(cred)]]
           ELSE req' = [req EXCEPT ![r].at = "forbidden", ![r].key = cred.value]
    BY <1>6 DEF Arrive
  <2>2. CASE RouteGuard(user, Endpoints[op]) /\ NamespaceGuard(user, Endpoints[op])
    BY <1>4, <2>1, <2>2
  <2>3. CASE ~(RouteGuard(user, Endpoints[op]) /\ NamespaceGuard(user, Endpoints[op]))
    BY <1>3, <2>1, <2>3
  <2> QED  BY <2>2, <2>3
<1> QED  BY <1>5, <1>6

-----------------------------------------------------------------------------
(* Patches *)

\* Only a patch holds a copy of an object; it is not of a later version than
\* the object, and a copy of the same version is the same.
Copy(r) ==
    req[r].seen.there =>
      /\ req[r].at \in {"patchServer", "patchFleet"}
      /\ obj[Kind(r)].there =>
           /\ req[r].seen.version =< obj[Kind(r)].version
           /\ req[r].seen.version = obj[Kind(r)].version =>
                /\ req[r].seen.auto = obj[Kind(r)].auto
                /\ req[r].seen.idle = obj[Kind(r)].idle
                /\ req[r].seen.replicas = obj[Kind(r)].replicas

PatchInv == NoLostUpdate /\ \A r \in Requests : Copy(r)

LEMMA KindOK == \A r : Kind(r) \in {"server", "fleet"}
BY DEF Kind

\* What becomes of one request does not matter to the others.
LEMMA OneRequest ==
    ASSUME PatchInv, NEW r \in Requests, UNCHANGED <<obj, wanted>>, Copy(r)',
           \A q \in Requests \ {r} : req'[q] = req[q]
    PROVE  PatchInv'
<1>1. NoLostUpdate'
  BY DEF PatchInv, NoLostUpdate
<1>2. ASSUME NEW q \in Requests \ {r}
      PROVE  Copy(q)'
  BY <1>2 DEF PatchInv, Copy, Kind
<1> QED  BY <1>1, <1>2 DEF PatchInv

\* A new version of an object, with nothing of the specification changed.
LEMMA NewVersion ==
    ASSUME ObjectsOK, RequestsOK, PatchInv, NEW k \in {"server", "fleet"},
           obj' = [obj EXCEPT ![k].version = @ + 1], UNCHANGED wanted,
           NEW R \in SUBSET Requests,
           \A q \in Requests \ R : req'[q] = req[q],
           \A q \in R : ~req'[q].seen.there
    PROVE  ObjectsOK' /\ PatchInv'
<1> DEFINE o == [obj[k] EXCEPT !.version = @ + 1]
<1>1. obj[k] \in Objects
  BY DEF ObjectsOK
<1>2. /\ o \in Objects
      /\ o.there = obj[k].there /\ o.version = obj[k].version + 1
      /\ o.auto = obj[k].auto /\ o.idle = obj[k].idle /\ o.replicas = obj[k].replicas
  BY <1>1 DEF Objects
<1>3. obj' = [obj EXCEPT ![k] = o]
  BY DEF ObjectsOK
<1> HIDE DEF o
<1>4. ObjectsOK'
  BY <1>2, <1>3 DEF ObjectsOK
<1>5. NoLostUpdate'
  BY <1>2, <1>3 DEF PatchInv, NoLostUpdate, ObjectsOK
<1>6. ASSUME NEW q \in Requests \ R
      PROVE  Copy(q)'
  <2>1. req[q] \in RequestRecords /\ req[q].seen \in Objects
    BY DEF RequestsOK, RequestRecords
  <2>2. req[q].seen.version \in Nat /\ obj[Kind(q)].version \in Nat
    BY <2>1, KindOK DEF ObjectsOK, Objects
  <2>3. Kind(q)' = Kind(q) /\ Kind(q) \in {"server", "fleet"}
    BY DEF Kind
  <2>4. obj'[Kind(q)] = IF Kind(q) = k THEN o ELSE obj[Kind(q)]
    BY <1>3, <2>3 DEF ObjectsOK
  <2>5. Copy(q) /\ req'[q] = req[q]
    BY DEF PatchInv
  <2> QED  BY <1>2, <2>2, <2>3, <2>4, <2>5 DEF Copy
<1> QED  BY <1>4, <1>5, <1>6 DEF PatchInv, Copy

\* An object that goes is nobody's concern.
LEMMA ObjectGone ==
    ASSUME ObjectsOK, PatchInv, NEW k \in {"server", "fleet"},
           obj' = [obj EXCEPT ![k] = NoObject], UNCHANGED wanted,
           NEW r \in Requests,
           \A q \in Requests \ {r} : req'[q] = req[q],
           ~req'[r].seen.there
    PROVE  ObjectsOK' /\ PatchInv'
<1>1. NoObject \in Objects /\ ~NoObject.there
  BY ConstantsTyped DEF NoObject
<1>2. ObjectsOK'
  BY <1>1 DEF ObjectsOK
<1>3. NoLostUpdate'
  BY <1>1 DEF PatchInv, NoLostUpdate, ObjectsOK
<1>4. ASSUME NEW q \in Requests \ {r}
      PROVE  Copy(q)'
  <2>1. Kind(q)' = Kind(q) /\ Kind(q) \in {"server", "fleet"}
    BY DEF Kind
  <2>2. obj'[Kind(q)] = IF Kind(q) = k THEN NoObject ELSE obj[Kind(q)]
    BY <2>1 DEF ObjectsOK
  <2>3. Copy(q) /\ req'[q] = req[q]
    BY DEF PatchInv
  <2> QED  BY <1>1, <2>1, <2>2, <2>3 DEF Copy
<1> QED  BY <1>2, <1>3, <1>4 DEF PatchInv, Copy

\* The Update of a patch, without a conflict.
LEMMA PatchApplied ==
    ASSUME APITypeOK, PatchInv, NEW r \in Requests,
           req[r].at \in {"patchServer", "patchFleet"}, req[r].seen.there, ~Conflict(r),
           NEW fields \in PatchFields(r),
           obj' = [obj EXCEPT ![Kind(r)] =
                     [f \in DOMAIN @ |-> CASE f \in fields  -> 1 - wanted[f]
                                           [] f = "version" -> @.version + 1
                                           [] OTHER         -> req[r].seen[f]]],
           wanted' = [f \in DOMAIN wanted |->
                        IF f \in fields THEN 1 - wanted[f] ELSE wanted[f]],
           \A q \in Requests \ {r} : req'[q] = req[q],
           ~req'[r].seen.there
    PROVE  ObjectsOK' /\ WantedOK' /\ PatchInv'
<1> DEFINE k == Kind(r)
           o == [f \in DOMAIN obj[k] |-> CASE f \in fields  -> 1 - wanted[f]
                                           [] f = "version" -> obj[k].version + 1
                                           [] OTHER         -> req[r].seen[f]]
<1>1. k \in {"server", "fleet"} /\ obj[k] \in Objects /\ req[r].seen \in Objects
  BY KindOK DEF APITypeOK, ObjectsOK, RequestsOK, RequestRecords
<1>2. obj[k].there /\ obj[k].version = req[r].seen.version
  BY DEF Conflict
<1>3. /\ req[r].seen.auto = obj[k].auto /\ req[r].seen.idle = obj[k].idle
      /\ req[r].seen.replicas = obj[k].replicas
  BY <1>2 DEF PatchInv, Copy
<1>4. /\ wanted.auto \in 0..1 /\ wanted.idle \in 0..1 /\ wanted.replicas \in 0..1
      /\ DOMAIN wanted = {"auto", "idle", "replicas"}
  BY DEF APITypeOK, WantedOK
<1>5. /\ wanted'.auto = IF "auto" \in fields THEN 1 - wanted.auto ELSE wanted.auto
      /\ wanted'.idle = IF "idle" \in fields THEN 1 - wanted.idle ELSE wanted.idle
      /\ wanted'.replicas = IF "replicas" \in fields THEN 1 - wanted.replicas ELSE wanted.replicas
  BY <1>4
<1>6. WantedOK'
  <2>1. wanted'.auto \in 0..1 /\ wanted'.idle \in 0..1 /\ wanted'.replicas \in 0..1
    BY <1>4, <1>5
  <2>2. wanted' = [auto |-> wanted'.auto, idle |-> wanted'.idle, replicas |-> wanted'.replicas]
    BY <1>4
  <2> QED  BY <2>1, <2>2 DEF WantedOK
<1>7. DOMAIN obj[k] = {"there", "version", "auto", "idle", "replicas"}
  BY <1>1 DEF Objects
<1>8. "there" \notin fields /\ "version" \notin fields
  BY DEF PatchFields
<1>9. /\ o.there = req[r].seen.there /\ o.version = obj[k].version + 1
      /\ o.auto = IF "auto" \in fields THEN 1 - wanted.auto ELSE req[r].seen.auto
      /\ o.idle = IF "idle" \in fields THEN 1 - wanted.idle ELSE req[r].seen.idle
      /\ o.replicas = IF "replicas" \in fields THEN 1 - wanted.replicas ELSE req[r].seen.replicas
      /\ DOMAIN o = {"there", "version", "auto", "idle", "replicas"}
  BY <1>7, <1>8
<1>10. obj' = [obj EXCEPT ![k] = o]
  BY <1>1 DEF APITypeOK, ObjectsOK
<1>11. o = [there |-> o.there, version |-> o.version, auto |-> o.auto, idle |-> o.idle,
            replicas |-> o.replicas]
  BY <1>7
<1> HIDE DEF o
<1>12. o \in Objects
  <2>1. o.there \in BOOLEAN /\ o.version \in Nat
    BY <1>1, <1>9 DEF Objects
  <2>2. o.auto \in 0..1 /\ o.idle \in 0..1 /\ o.replicas \in 0..1
    BY <1>1, <1>4, <1>9 DEF Objects
  <2> QED  BY <1>11, <2>1, <2>2 DEF Objects
<1>13. ObjectsOK'
  BY <1>1, <1>10, <1>12 DEF APITypeOK, ObjectsOK
<1>14. NoLostUpdate'
  <2>1. CASE req[r].at = "patchServer"
    <3>1. k = "server" /\ "replicas" \notin fields
      BY <2>1 DEF Kind, PatchFields
    <3>2. obj'["server"] = o /\ obj'["fleet"] = obj["fleet"]
      BY <1>10, <3>1 DEF APITypeOK, ObjectsOK
    <3>3. obj["server"].auto = wanted.auto /\ obj["server"].idle = wanted.idle
      BY <1>2, <3>1 DEF PatchInv, NoLostUpdate
    <3>4. obj["fleet"].there => obj["fleet"].replicas = wanted.replicas
      BY DEF PatchInv, NoLostUpdate
    <3>5. wanted'.replicas = wanted.replicas
      BY <1>5, <3>1
    <3>6. obj'["server"].auto = wanted'.auto /\ obj'["server"].idle = wanted'.idle
      BY <1>3, <1>5, <1>9, <3>1, <3>2, <3>3
    <3> QED  BY <3>2, <3>4, <3>5, <3>6 DEF NoLostUpdate
  <2>2. CASE req[r].at = "patchFleet"
    <3>1. k = "fleet" /\ fields = {"replicas"}
      BY <2>2 DEF Kind, PatchFields
    <3>2. obj'["fleet"] = o /\ obj'["server"] = obj["server"]
      BY <1>10, <3>1 DEF APITypeOK, ObjectsOK
    <3>3. wanted'.auto = wanted.auto /\ wanted'.idle = wanted.idle
      BY <1>5, <3>1
    <3>4. obj'["fleet"].replicas = wanted'.replicas
      BY <1>5, <1>9, <3>1, <3>2
    <3> QED  BY <3>2, <3>3, <3>4 DEF PatchInv, NoLostUpdate
  <2> QED  BY <2>1, <2>2
<1>15. ASSUME NEW q \in Requests \ {r}
       PROVE  Copy(q)'
  <2>1. req[q].seen \in Objects
    BY DEF APITypeOK, RequestsOK, RequestRecords
  <2>2. req[q].seen.version \in Nat /\ obj[Kind(q)].version \in Nat
    BY <2>1, KindOK DEF APITypeOK, ObjectsOK, Objects
  <2>3. Kind(q)' = Kind(q) /\ Kind(q) \in {"server", "fleet"}
    BY DEF Kind
  <2>4. obj'[Kind(q)] = IF Kind(q) = k THEN o ELSE obj[Kind(q)]
    BY <1>10, <2>3 DEF APITypeOK, ObjectsOK
  <2>5. Copy(q) /\ req'[q] = req[q]
    BY DEF PatchInv
  <2>6. CASE Kind(q) = k
    <3>1. req[q].seen.there => req[q].seen.version < o.version
      BY <1>2, <1>9, <2>2, <2>5, <2>6 DEF Copy
    <3>2. o.version \in Nat
      BY <1>12 DEF Objects
    <3> HIDE DEF k
    <3> QED  BY <3>1, <3>2, <2>2, <2>3, <2>4, <2>5, <2>6 DEF Copy
  <2>7. CASE Kind(q) # k
    BY <2>3, <2>4, <2>5, <2>7 DEF Copy
  <2> QED  BY <2>6, <2>7
<1> QED  BY <1>6, <1>13, <1>14, <1>15 DEF PatchInv, Copy

\* A sequence of which at most one element is given another value of its type.
LEMMA SeqUpdated ==
    ASSUME NEW S, NEW s \in Seq(S), NEW i, NEW e, i \in DOMAIN s => e \in S
    PROVE  /\ [s EXCEPT ![i] = e] \in Seq(S)
           /\ DOMAIN [s EXCEPT ![i] = e] = DOMAIN s
<1>1. DOMAIN s = 1..Len(s) /\ Len(s) \in Nat
  OBVIOUS
<1>2. CASE i \in DOMAIN s
  BY <1>1, <1>2, ExceptSeq
<1>3. CASE i \notin DOMAIN s
  <2>1. [s EXCEPT ![i] = e] = s
    BY <1>3
  <2> QED  BY <2>1
<1> QED  BY <1>2, <1>3

\* What toSecret makes of a list are patterns.
LEMMA ListTyped ==
    ASSUME NEW list \in Seq(ListEntries)
    PROVE  /\ {list[i].literal : i \in DOMAIN list} \in SUBSET SUBSET Namespaces
           /\ ParseNamespaces(list) \in SUBSET SUBSET Namespaces
           /\ Joined(list) \in BOOLEAN
           /\ Asked(list) \in SUBSET Namespaces
<1>1. ASSUME NEW i \in DOMAIN list
      PROVE  list[i].literal \in SUBSET Namespaces /\ list[i].parts \in SUBSET SUBSET Namespaces
  <2>1. list[i] \in ListEntries
    BY ElementOfSeq
  <2> QED  BY <2>1 DEF ListEntries
<1> QED  BY <1>1 DEF ParseNamespaces, Joined, Asked

\* The keys and what was issued keep their types.
LEMMA KeysStep ==
    ASSUME APITypeOK, APINext
    PROVE  KeysOK'
<1>0. {NoKey} \subseteq KeyRecords
  BY ConstantsTyped
<1>now. now \in Nat
  BY DEF APITypeOK, KeysOK
<1>1. ASSUME NEW r \in Requests, NEW name \in KeyNames, NEW w \in KeyWishes,
             CreateAPIKey(r, name, w[1], w[2], w[3]), keys[name] = NoKey
      PROVE  KeysOK'
  <2> DEFINE role == IF w[1] = "" THEN req[r].user.role ELSE w[1]
             key == GenerateKey(role, w[2], w[3])
             entry == [live |-> TRUE, expires |-> w[3],
                       reach |-> req[r].reach \cap Asked(w[2])]
  <2>1. w[1] \in Roles /\ w[2] \in Seq(ListEntries) /\ w[3] \in Nat
    BY ControlPlaneAssumption DEF Roles
  <2>2. req[r].user.role \in Roles /\ req[r].reach \in SUBSET Namespaces
    BY DEF APITypeOK, RequestsOK, RequestRecords, Users
  <2>3. role \in Roles
    BY <2>1, <2>2
  <2>4. key \in KeyRecords
    <3>1. Len(issued) + 1 \in Nat
      BY DEF APITypeOK, KeysOK
    <3> HIDE DEF role
    <3> QED  BY <2>1, <2>3, <3>1, ListTyped DEF GenerateKey, KeyRecords
  <2>5. entry \in IssuedRecords
    BY <2>1, <2>2, ListTyped DEF IssuedRecords
  <2>6. keys' = [keys EXCEPT ![name] = key] /\ issued' = Append(issued, entry) /\ now' = now
    BY <1>1 DEF CreateAPIKey
  <2> HIDE DEF key, entry
  <2> QED  BY <2>4, <2>5, <2>6 DEF APITypeOK, KeysOK
<1>2. ASSUME NEW r \in Requests, NEW name \in KeyNames,
             DeleteAPIKey(r, name), keys[name] # NoKey
      PROVE  KeysOK'
  <2> DEFINE v == keys[name].value
             entry == [issued[v] EXCEPT !.live = FALSE]
  <2>1. issued' = [issued EXCEPT ![v] = entry] /\ keys' = [keys EXCEPT ![name] = NoKey]
    BY <1>2 DEF DeleteAPIKey
  <2>2. v \in DOMAIN issued => entry \in IssuedRecords
    <3>1. issued \in Seq(IssuedRecords)
      BY DEF APITypeOK, KeysOK
    <3>2. v \in DOMAIN issued => issued[v] \in IssuedRecords
      BY <3>1, ElementOfSeq
    <3> HIDE DEF v
    <3> QED  BY <3>2, <1>now DEF IssuedRecords
  <2>3. now' = now
    BY <1>2 DEF DeleteAPIKey
  <2> HIDE DEF v, entry
  <2>4. issued' \in Seq(IssuedRecords)
    BY <2>1, <2>2, SeqUpdated DEF APITypeOK, KeysOK
  <2> QED  BY <1>0, <2>1, <2>3, <2>4 DEF APITypeOK, KeysOK
<1>3. ASSUME NEW name \in KeyNames, ExpireSecret(name)
      PROVE  KeysOK'
  <2> DEFINE v == keys[name].value
             entry == [issued[v] EXCEPT !.expires = now]
             key == [keys[name] EXCEPT !.expires = now]
  <2>1. issued' = [issued EXCEPT ![v] = entry] /\ keys' = [keys EXCEPT ![name] = key]
    BY <1>3 DEF ExpireSecret
  <2>2. v \in DOMAIN issued => entry \in IssuedRecords
    <3>1. issued \in Seq(IssuedRecords)
      BY DEF APITypeOK, KeysOK
    <3>2. v \in DOMAIN issued => issued[v] \in IssuedRecords
      BY <3>1, ElementOfSeq
    <3> HIDE DEF v
    <3> QED  BY <3>2, <1>now DEF IssuedRecords
  <2>3. key \in KeyRecords
    BY DEF APITypeOK, KeysOK, KeyRecords
  <2>4. now' = now
    BY <1>3 DEF ExpireSecret
  <2> HIDE DEF v, entry, key
  <2>5. issued' \in Seq(IssuedRecords)
    BY <2>1, <2>2, SeqUpdated DEF APITypeOK, KeysOK
  <2> QED  BY <2>1, <2>3, <2>4, <2>5 DEF APITypeOK, KeysOK
<1>scope. ASSUME NEW name \in KeyNames, NEW w \in KeyWishes, ScopeSecret(name, w[2])
          PROVE  KeysOK'
  <2> DEFINE key == [keys[name] EXCEPT !.field = Joined(w[2]), !.scope = ParseNamespaces(w[2])]
             v == key.value
             entry == [issued[v] EXCEPT
                         !.reach = {n \in Namespaces : AllowsNamespace(FromSecret(key), n)}]
  <2>1. issued' = [issued EXCEPT ![v] = entry] /\ keys' = [keys EXCEPT ![name] = key]
    BY <1>scope DEF ScopeSecret
  <2>2. key \in KeyRecords
    <3>1. w[2] \in Seq(ListEntries)
      BY ControlPlaneAssumption
    <3>2. keys[name] \in KeyRecords
      BY DEF APITypeOK, KeysOK
    <3> QED  BY <3>1, <3>2, ListTyped DEF KeyRecords
  <2>3. v \in DOMAIN issued => entry \in IssuedRecords
    <3>1. issued \in Seq(IssuedRecords)
      BY DEF APITypeOK, KeysOK
    <3>2. v \in DOMAIN issued => issued[v] \in IssuedRecords
      BY <3>1, ElementOfSeq
    <3> DEFINE reach == {n \in Namespaces : AllowsNamespace(FromSecret(key), n)}
    <3>3. reach \in SUBSET Namespaces
      OBVIOUS
    <3> HIDE DEF v, reach
    <3> QED  BY <3>2, <3>3 DEF IssuedRecords, reach
  <2>4. now' = now
    BY <1>scope DEF ScopeSecret
  <2> HIDE DEF v, entry, key
  <2>5. issued' \in Seq(IssuedRecords)
    BY <2>1, <2>3, SeqUpdated DEF APITypeOK, KeysOK
  <2> QED  BY <2>1, <2>2, <2>4, <2>5 DEF APITypeOK, KeysOK
<1>4. ASSUME UNCHANGED <<keys, issued>>, now' = now \/ now' = now + 1
      PROVE  KeysOK'
  BY <1>4 DEF APITypeOK, KeysOK
<1>5. ASSUME NEW r \in Requests, NEW op \in Ops, NEW cred \in Credentials, Arrive(r, op, cred)
      PROVE  KeysOK'
  BY <1>4, <1>5 DEF Arrive
<1>6. ASSUME NEW r \in Requests, LookupFails(r)
      PROVE  KeysOK'
  BY <1>4, <1>6 DEF LookupFails
<1>7. ASSUME NEW r \in Requests, Handle(r)
      PROVE  KeysOK'
  <2>1. CASE Create(r)
    BY <1>4, <2>1 DEF Create, apiVars
  <2>2. CASE Reject(r) \/ ReadForPatch(r)
    BY <1>4, <2>2 DEF Reject, ReadForPatch
  <2>3. CASE WritePatch(r)
    BY <1>4, <2>3 DEF WritePatch
  <2>4. CASE Delete(r) \/ CreateNamed(r)
    BY <1>4, <2>4 DEF Delete, CreateNamed
  <2>5. CASE Get(r) \/ List(r) \/ ReadShared(r) \/ HandlerFails(r)
    BY <1>4, <2>5 DEF Get, List, ReadShared, HandlerFails
  <2>6. ASSUME NEW name \in KeyNames, DeleteAPIKey(r, name)
        PROVE  KeysOK'
    <3>1. CASE keys[name] = NoKey
      BY <1>4, <2>6, <3>1 DEF DeleteAPIKey
    <3>2. CASE keys[name] # NoKey
      BY <1>2, <2>6, <3>2
    <3> QED  BY <3>1, <3>2
  <2>7. ASSUME NEW name \in KeyNames, NEW w \in KeyWishes,
               CreateAPIKey(r, name, w[1], w[2], w[3])
        PROVE  KeysOK'
    <3>1. CASE keys[name] # NoKey
      BY <1>4, <2>7, <3>1 DEF CreateAPIKey
    <3>2. CASE keys[name] = NoKey
      BY <1>1, <2>7, <3>2
    <3> QED  BY <3>1, <3>2
  <2> QED  BY <1>7, <2>1, <2>2, <2>3, <2>4, <2>5, <2>6, <2>7 DEF Handle
<1>8. CASE OperatorCreates /\ UNCHANGED apiVars
  BY <1>4, <1>8 DEF apiVars
<1>9. CASE Tick
  BY <1>4, <1>9 DEF Tick
<1>10. CASE \E k \in DOMAIN obj : OperatorWrites(k)
  BY <1>4, <1>10 DEF OperatorWrites
<1> QED  BY <1>3, <1>scope, <1>5, <1>6, <1>7, <1>8, <1>9, <1>10 DEF APINext

\* The objects, the patches and the requests.
LEMMA PatchStep ==
    ASSUME APITypeOK, PatchInv, APINext
    PROVE  ObjectsOK' /\ WantedOK' /\ RequestsOK' /\ PatchInv'
<1> USE DEF APITypeOK
<1>0. Other \in Namespaces /\ {Other} \in SUBSET Namespaces /\ {} \in SUBSET Namespaces
  BY DEF Namespaces
<1>ans. ASSUME NEW r \in Requests, NEW t \in SUBSET Namespaces, Answer(r, t),
               UNCHANGED <<obj, wanted>>
        PROVE  ObjectsOK' /\ WantedOK' /\ RequestsOK' /\ PatchInv'
  <2>1. /\ RequestsOK' /\ ~req'[r].seen.there
        /\ \A q \in Requests \ {r} : req'[q] = req[q]
    BY <1>ans, Answered
  <2>2. Copy(r)'
    BY <2>1 DEF Copy
  <2>3. PatchInv'
    BY <1>ans, <2>1, <2>2, OneRequest
  <2>4. ObjectsOK' /\ WantedOK'
    BY <1>ans DEF ObjectsOK, WantedOK
  <2> QED  BY <2>1, <2>3, <2>4
<1>same. ASSUME UNCHANGED <<obj, wanted, req>>
         PROVE  ObjectsOK' /\ WantedOK' /\ RequestsOK' /\ PatchInv'
  BY <1>same DEF ObjectsOK, WantedOK, RequestsOK, PatchInv, NoLostUpdate, Copy, Kind
<1>1. ASSUME NEW r \in Requests, NEW op \in Ops, NEW cred \in Credentials, Arrive(r, op, cred)
      PROVE  ObjectsOK' /\ WantedOK' /\ RequestsOK' /\ PatchInv'
  <2>1. /\ RequestsOK' /\ req'[r].seen = req[r].seen
        /\ \A q \in Requests \ {r} : req'[q] = req[q]
    BY <1>1, Arrived
  <2>2. UNCHANGED <<obj, wanted>> /\ req[r].at = "new"
    BY <1>1 DEF Arrive
  <2>3. ~req[r].seen.there
    BY <2>2 DEF PatchInv, Copy
  <2>4. Copy(r)'
    BY <2>1, <2>3 DEF Copy
  <2>5. PatchInv'
    BY <2>1, <2>2, <2>4, OneRequest
  <2> QED  BY <2>1, <2>2, <2>5 DEF ObjectsOK, WantedOK
<1>2. ASSUME NEW r \in Requests, LookupFails(r)
      PROVE  ObjectsOK' /\ WantedOK' /\ RequestsOK' /\ PatchInv'
  <2> DEFINE o == [req[r] EXCEPT !.at = "unauthorized"]
  <2>1. req[r] \in RequestRecords /\ "unauthorized" \in States
    BY DEF RequestsOK, States
  <2>2. o \in RequestRecords
    BY <2>1, RequestUpdated
  <2>3. o.seen = req[r].seen
    BY <2>1 DEF RequestRecords
  <2>4. req' = [req EXCEPT ![r] = o] /\ UNCHANGED <<obj, wanted>> /\ req[r].at = "new"
    BY <1>2 DEF LookupFails, RequestsOK
  <2> HIDE DEF o
  <2>5. RequestsOK' /\ req'[r] = o /\ \A q \in Requests \ {r} : req'[q] = req[q]
    BY <2>2, <2>4 DEF RequestsOK
  <2>6. Copy(r)'
    BY <2>3, <2>4, <2>5 DEF PatchInv, Copy
  <2>7. PatchInv'
    BY <2>4, <2>5, <2>6, OneRequest
  <2> QED  BY <2>4, <2>5, <2>7 DEF ObjectsOK, WantedOK
<1>3. ASSUME NEW r \in Requests, Create(r)
      PROVE  ObjectsOK' /\ WantedOK' /\ RequestsOK' /\ PatchInv'
  BY <1>same, <1>3 DEF Create, apiVars
<1>4. ASSUME NEW r \in Requests, ReadForPatch(r)
      PROVE  ObjectsOK' /\ WantedOK' /\ RequestsOK' /\ PatchInv'
  <2>1. CASE obj[Kind(r)].there
    <3> DEFINE o == [req[r] EXCEPT !.seen = obj[Kind(r)]]
    <3>1. req[r] \in RequestRecords /\ obj[Kind(r)] \in Objects
      BY KindOK DEF RequestsOK, ObjectsOK
    <3>2. o \in RequestRecords
      BY <3>1, RequestUpdated
    <3>3. o.seen = obj[Kind(r)] /\ o.at = req[r].at
      BY <3>1 DEF RequestRecords
    <3>4. /\ req' = [req EXCEPT ![r] = o] /\ UNCHANGED <<obj, wanted>>
          /\ req[r].at \in {"patchServer", "patchFleet"}
      BY <1>4, <2>1 DEF ReadForPatch, RequestsOK
    <3> HIDE DEF o
    <3>5. RequestsOK' /\ req'[r] = o /\ \A q \in Requests \ {r} : req'[q] = req[q]
      BY <3>2, <3>4 DEF RequestsOK
    <3>6. Kind(r)' = Kind(r)
      BY <3>3, <3>5 DEF Kind
    <3>7. obj[Kind(r)].version \in Nat
      BY <3>1 DEF Objects
    <3>8. Copy(r)'
      BY <3>3, <3>4, <3>5, <3>6, <3>7 DEF Copy
    <3>9. PatchInv'
      BY <3>4, <3>5, <3>8, OneRequest
    <3> QED  BY <3>4, <3>5, <3>9 DEF ObjectsOK, WantedOK
  <2>2. CASE ~obj[Kind(r)].there
    BY <1>0, <1>4, <1>ans, <2>2 DEF ReadForPatch
  <2> QED  BY <2>1, <2>2
<1>5. ASSUME NEW r \in Requests, WritePatch(r)
      PROVE  ObjectsOK' /\ WantedOK' /\ RequestsOK' /\ PatchInv'
  <2>1. CASE Conflict(r)
    BY <1>0, <1>5, <1>ans, <2>1 DEF WritePatch
  <2>2. CASE ~Conflict(r)
    <3>1. PICK fields \in PatchFields(r) :
            /\ obj' = [obj EXCEPT ![Kind(r)] =
                         [f \in DOMAIN @ |-> CASE f \in fields  -> 1 - wanted[f]
                                               [] f = "version" -> @.version + 1
                                               [] OTHER         -> req[r].seen[f]]]
            /\ wanted' = [f \in DOMAIN wanted |->
                            IF f \in fields THEN 1 - wanted[f] ELSE wanted[f]]
            /\ Answer(r, {Other})
      BY <1>5, <2>2 DEF WritePatch
    <3>2. /\ RequestsOK' /\ ~req'[r].seen.there
          /\ \A q \in Requests \ {r} : req'[q] = req[q]
      BY <1>0, <3>1, Answered
    <3>3. req[r].at \in {"patchServer", "patchFleet"} /\ req[r].seen.there
      BY <1>5 DEF WritePatch
    <3>4. ObjectsOK' /\ WantedOK' /\ PatchInv'
      BY <2>2, <3>1, <3>2, <3>3, PatchApplied
    <3> QED  BY <3>2, <3>4
  <2> QED  BY <2>1, <2>2
<1>6. ASSUME NEW r \in Requests, Delete(r)
      PROVE  ObjectsOK' /\ WantedOK' /\ RequestsOK' /\ PatchInv'
  <2>1. CASE obj[Kind(r)].there
    <3>1. Answer(r, {Other}) /\ UNCHANGED wanted
      BY <1>6, <2>1 DEF Delete
    <3>2. /\ RequestsOK' /\ ~req'[r].seen.there
          /\ \A q \in Requests \ {r} : req'[q] = req[q]
      BY <1>0, <3>1, Answered
    <3>3. Kind(r) \in {"server", "fleet"}
      BY KindOK
    <3>4. CASE obj' = [obj EXCEPT ![Kind(r)] = NoObject]
      BY <3>1, <3>2, <3>3, <3>4, ObjectGone DEF WantedOK
    <3>5. CASE obj' = [obj EXCEPT ![Kind(r)].version = @ + 1]
      <4>1. /\ {r} \in SUBSET Requests /\ \A q \in {r} : ~req'[q].seen.there
        BY <3>2
      <4>2. ObjectsOK' /\ PatchInv'
        BY <3>1, <3>2, <3>3, <3>5, <4>1, NewVersion
      <4> QED  BY <3>1, <3>2, <4>2 DEF WantedOK
    <3> QED  BY <1>6, <2>1, <3>4, <3>5 DEF Delete
  <2>2. CASE ~obj[Kind(r)].there
    BY <1>0, <1>6, <1>ans, <2>2 DEF Delete
  <2> QED  BY <2>1, <2>2
<1>7. ASSUME NEW r \in Requests, Reject(r)
      PROVE  ObjectsOK' /\ WantedOK' /\ RequestsOK' /\ PatchInv'
  BY <1>0, <1>7, <1>ans DEF Reject
<1>8. ASSUME NEW r \in Requests, CreateNamed(r)
      PROVE  ObjectsOK' /\ WantedOK' /\ RequestsOK' /\ PatchInv'
  BY <1>0, <1>8, <1>ans DEF CreateNamed
<1>9. ASSUME NEW r \in Requests, Get(r)
      PROVE  ObjectsOK' /\ WantedOK' /\ RequestsOK' /\ PatchInv'
  BY <1>0, <1>9, <1>ans DEF Get
<1>10. ASSUME NEW r \in Requests, List(r)
       PROVE  ObjectsOK' /\ WantedOK' /\ RequestsOK' /\ PatchInv'
  <2>1. Visible(r) \in SUBSET Namespaces
    BY DEF Visible
  <2> QED  BY <1>10, <1>ans, <2>1 DEF List
<1>11. ASSUME NEW r \in Requests, ReadShared(r) \/ HandlerFails(r)
       PROVE  ObjectsOK' /\ WantedOK' /\ RequestsOK' /\ PatchInv'
  BY <1>0, <1>11, <1>ans DEF ReadShared, HandlerFails
<1>12. ASSUME NEW r \in Requests, NEW name \in KeyNames, DeleteAPIKey(r, name)
       PROVE  ObjectsOK' /\ WantedOK' /\ RequestsOK' /\ PatchInv'
  BY <1>0, <1>12, <1>ans DEF DeleteAPIKey
<1>13. ASSUME NEW r \in Requests, NEW name \in KeyNames, NEW w \in KeyWishes,
              CreateAPIKey(r, name, w[1], w[2], w[3])
       PROVE  ObjectsOK' /\ WantedOK' /\ RequestsOK' /\ PatchInv'
  BY <1>0, <1>13, <1>ans DEF CreateAPIKey
<1>14. CASE OperatorCreates /\ UNCHANGED apiVars
  BY <1>same, <1>14 DEF apiVars
<1>15. CASE Tick
  BY <1>same, <1>15 DEF Tick
<1>16. ASSUME NEW k \in DOMAIN obj, OperatorWrites(k)
       PROVE  ObjectsOK' /\ WantedOK' /\ RequestsOK' /\ PatchInv'
  <2>1. obj' = [obj EXCEPT ![k].version = @ + 1] /\ UNCHANGED <<wanted, req>>
    BY <1>16 DEF OperatorWrites
  <2>2. {} \in SUBSET Requests /\ k \in {"server", "fleet"}
    BY DEF ObjectsOK
  <2>3. ObjectsOK' /\ PatchInv'
    BY <2>1, <2>2, NewVersion
  <2> QED  BY <2>1, <2>3 DEF WantedOK, RequestsOK
<1>17. ASSUME NEW name \in KeyNames, ExpireSecret(name)
       PROVE  ObjectsOK' /\ WantedOK' /\ RequestsOK' /\ PatchInv'
  BY <1>same, <1>17 DEF ExpireSecret
<1>scope. ASSUME NEW name \in KeyNames, NEW list, ScopeSecret(name, list)
          PROVE  ObjectsOK' /\ WantedOK' /\ RequestsOK' /\ PatchInv'
  BY <1>same, <1>scope DEF ScopeSecret
<1>18. ASSUME NEW r \in Requests, Handle(r)
       PROVE  ObjectsOK' /\ WantedOK' /\ RequestsOK' /\ PatchInv'
  BY <1>3, <1>4, <1>5, <1>6, <1>7, <1>8, <1>9, <1>10, <1>11, <1>12, <1>13, <1>18 DEF Handle
<1> QED  BY <1>1, <1>2, <1>14, <1>15, <1>16, <1>17, <1>scope, <1>18 DEF APINext

\* The types and the copies that patches hold, in every reachable state.
LEMMA APIInvariance == APISpec => [](APITypeOK /\ PatchInv)
<1>1. APIInit => APITypeOK /\ PatchInv
  <2> SUFFICES ASSUME APIInit
               PROVE  APITypeOK /\ PatchInv
    OBVIOUS
  <2> DEFINE o == [NoObject EXCEPT !.there = TRUE]
  <2>0. o.auto = 0 /\ o.idle = 0 /\ o.replicas = 0
    BY DEF NoObject
  <2>1. o \in Objects
    BY ConstantsTyped DEF Objects
  <2>2. obj = [k \in {"server", "fleet"} |-> o]
    BY DEF APIInit
  <2> HIDE DEF o
  <2>3. ObjectsOK
    BY <2>1, <2>2 DEF ObjectsOK
  <2>4. WantedOK
    BY DEF APIInit, WantedOK
  <2>5. KeysOK
    BY ConstantsTyped DEF APIInit, KeysOK
  <2>6. RequestsOK
    BY ConstantsTyped DEF APIInit, RequestsOK
  <2>7. NoLostUpdate
    <3>1. obj["server"] = o /\ obj["fleet"] = o
      BY <2>2
    <3>2. wanted.auto = 0 /\ wanted.idle = 0 /\ wanted.replicas = 0
      BY DEF APIInit
    <3> QED  BY <2>0, <3>1, <3>2 DEF NoLostUpdate
  <2>8. \A r \in Requests : Copy(r)
    BY DEF APIInit, Copy, NewRequest, NoObject
  <2> QED  BY <2>3, <2>4, <2>5, <2>6, <2>7, <2>8 DEF APITypeOK, PatchInv
<1>2. APITypeOK /\ PatchInv /\ [APINext]_allVars => APITypeOK' /\ PatchInv'
  <2>1. CASE APINext
    BY <2>1, KeysStep, PatchStep DEF APITypeOK
  <2>2. CASE UNCHANGED allVars
    BY <2>2 DEF allVars, apiVars, APITypeOK, ObjectsOK, WantedOK, KeysOK, RequestsOK,
                PatchInv, NoLostUpdate, Copy, Kind
  <2> QED  BY <2>1, <2>2
<1> QED  BY <1>1, <1>2, PTL DEF APISpec

\* Every variable of the control plane has its type, whatever chain of
\* providers is configured.
THEOREM APITypeCorrect == APISpec => []APITypeOK
BY APIInvariance, PTL

\* Concurrent patches do not undo each other: UpdateGameServerLifecycle and
\* UpdateGameServerFleet write back all they have read, but not over another
\* version, for any number of requests and of other writers.
THEOREM NoLostUpdateHolds == APISpec => []NoLostUpdate
<1>1. PatchInv => NoLostUpdate
  BY DEF PatchInv
<1> QED  BY <1>1, APIInvariance, PTL

-----------------------------------------------------------------------------
(* Creation in a tenant's namespace *)

\* Whatever the API does beside, TenantNamespace's invariant holds: creation is
\* a step of it, and what else fails only counts.
LEMMA TenantStep ==
    ASSUME IInv, [APINext]_allVars
    PROVE  IInv'
<1>1. ASSUME [Next]_vars
      PROVE  IInv'
  BY <1>1, IInvStep
<1>2. ASSUME UNCHANGED <<ns, quota, policy, servers, fleets, pc, cause>>,
             faults < MaxFaults, faults' = faults + 1
      PROVE  IInv'
  <2>1. TypeOK'
    BY <1>2, TenantAssumption DEF IInv, TypeOK
  <2> QED  BY <1>2, <2>1 DEF IInv, Progress, Hardened
<1>3. ASSUME NEW r \in Requests, Create(r)
      PROVE  IInv'
  BY <1>1, <1>3 DEF Create, Next
<1>4. ASSUME NEW r \in Requests, LookupFails(r) \/ HandlerFails(r)
      PROVE  IInv'
  BY <1>2, <1>4 DEF LookupFails, HandlerFails
<1>5. ASSUME NEW r \in Requests, Handle(r)
      PROVE  IInv'
  <2>1. CASE Reject(r) \/ ReadForPatch(r) \/ WritePatch(r) \/ Delete(r)
    BY <1>1, <2>1 DEF Reject, ReadForPatch, WritePatch, Delete
  <2>2. CASE CreateNamed(r) \/ Get(r) \/ List(r) \/ ReadShared(r)
    BY <1>1, <2>2 DEF CreateNamed, Get, List, ReadShared
  <2>3. ASSUME NEW name \in KeyNames, DeleteAPIKey(r, name)
        PROVE  IInv'
    BY <1>1, <2>3 DEF DeleteAPIKey
  <2>4. ASSUME NEW name \in KeyNames, NEW w \in KeyWishes,
               CreateAPIKey(r, name, w[1], w[2], w[3])
        PROVE  IInv'
    BY <1>1, <2>4 DEF CreateAPIKey
  <2> QED  BY <1>3, <1>4, <1>5, <2>1, <2>2, <2>3, <2>4 DEF Handle
<1>6. ASSUME NEW r \in Requests, NEW op \in Ops, NEW cred \in Credentials, Arrive(r, op, cred)
      PROVE  IInv'
  BY <1>1, <1>6 DEF Arrive
<1>7. CASE OperatorCreates \/ Tick
  BY <1>1, <1>7 DEF Tick, Next
<1>8. ASSUME NEW k, OperatorWrites(k) \/ ExpireSecret(k)
      PROVE  IInv'
  BY <1>1, <1>8 DEF OperatorWrites, ExpireSecret
<1>scope. ASSUME NEW name, NEW list, ScopeSecret(name, list)
          PROVE  IInv'
  BY <1>1, <1>scope DEF ScopeSecret
<1>9. CASE UNCHANGED allVars
  BY <1>1, <1>9 DEF allVars
<1> QED  BY <1>4, <1>5, <1>6, <1>7, <1>8, <1>scope, <1>9 DEF APINext

LEMMA TenantInvariance == APISpec => []IInv
<1>1. APIInit => IInv
  <2>1. Init => TypeOK
    <3>1. Init => quota \in BOOLEAN /\ policy \in BOOLEAN
      BY Zenon DEF Init
    <3> QED
      BY <3>1, TenantAssumption DEF Init, TypeOK
  <2> QED
    BY <2>1 DEF Init, IInv, APIInit
<1>2. IInv /\ [APINext]_allVars => IInv'
  BY TenantStep
<1> QED
  BY <1>1, <1>2, PTL DEF APISpec

\* A new tenant's namespace is hardened before anything is created in it, also
\* while the rest of the API is in use and fails: what is proved of
\* EnsureNamespace alone holds of the control plane.
THEOREM FinderHardensInAPI == APISpec => []FinderHardens
<1>1. IInv => FinderHardens
  BY DEF IInv, FinderHardens, Progress
<1> QED
  BY <1>1, TenantInvariance, PTL

-----------------------------------------------------------------------------
(* The route table *)

\* The operations in the tenant's namespace, and those in the other one.
Creates == {"createServer", "createFleet"}

OnOther ==
    {"patchServer", "patchFleet", "deleteServer", "deleteFleet", "getServer", "getFleet",
     "sftp", "console", "listActions", "getExecution", "listSnapshots", "execute", "snapshot"}

\* There are twelve rules.
LEMMA TwelveRules == DOMAIN DefaultRules = 1..12
BY SMT DEF DefaultRules

\* Their methods and the patterns' lengths and first segments.
LEMMA Methods ==
    /\ DefaultRules[1].method = "POST" /\ Len(DefaultRules[1].pattern) = 2
    /\ DefaultRules[1].pattern[1] = "gameservers"
    /\ DefaultRules[2].method = "DELETE" /\ Len(DefaultRules[2].pattern) = 3
    /\ DefaultRules[2].pattern[1] = "gameservers"
    /\ DefaultRules[3].method = "PATCH" /\ Len(DefaultRules[3].pattern) = 3
    /\ DefaultRules[3].pattern[1] = "gameservers"
    /\ DefaultRules[4].method = "GET" /\ Len(DefaultRules[4].pattern) = 4
    /\ DefaultRules[4].pattern[1] = "gameservers"
    /\ DefaultRules[5].method = "GET" /\ Len(DefaultRules[5].pattern) = 4
    /\ DefaultRules[5].pattern[1] = "gameservers"
    /\ DefaultRules[6].method = "POST" /\ Len(DefaultRules[6].pattern) = 5
    /\ DefaultRules[6].pattern[1] = "gameservers"
    /\ DefaultRules[7].method = "POST" /\ Len(DefaultRules[7].pattern) = 4
    /\ DefaultRules[7].pattern[1] = "gameservers"
    /\ DefaultRules[8].method = "POST" /\ Len(DefaultRules[8].pattern) = 2
    /\ DefaultRules[8].pattern[1] = "gameserverfleets"
    /\ DefaultRules[9].method = "PATCH" /\ Len(DefaultRules[9].pattern) = 3
    /\ DefaultRules[9].pattern[1] = "gameserverfleets"
    /\ DefaultRules[10].method = "DELETE" /\ Len(DefaultRules[10].pattern) = 3
    /\ DefaultRules[10].pattern[1] = "gameserverfleets"
    /\ DefaultRules[11].method = "*" /\ Len(DefaultRules[11].pattern) = 1
    /\ DefaultRules[11].pattern[1] = "apikeys"
    /\ DefaultRules[12].method = "*" /\ Len(DefaultRules[12].pattern) = 2
    /\ DefaultRules[12].pattern[1] = "apikeys"
BY DEF DefaultRules, Rule

\* The patterns' other segments.
LEMMA Segments ==
    /\ DefaultRules[1].pattern[2] = "{}"
    /\ DefaultRules[2].pattern[2] = "{}" /\ DefaultRules[2].pattern[3] = "{}"
    /\ DefaultRules[3].pattern[2] = "{}" /\ DefaultRules[3].pattern[3] = "{}"
    /\ DefaultRules[4].pattern[2] = "{}" /\ DefaultRules[4].pattern[3] = "{}"
    /\ DefaultRules[4].pattern[4] = "console"
    /\ DefaultRules[5].pattern[2] = "{}" /\ DefaultRules[5].pattern[3] = "{}"
    /\ DefaultRules[5].pattern[4] = "sftp"
    /\ DefaultRules[6].pattern[2] = "{}" /\ DefaultRules[6].pattern[3] = "{}"
    /\ DefaultRules[6].pattern[4] = "actions" /\ DefaultRules[6].pattern[5] = "{}"
    /\ DefaultRules[7].pattern[2] = "{}" /\ DefaultRules[7].pattern[3] = "{}"
    /\ DefaultRules[7].pattern[4] = "snapshots"
    /\ DefaultRules[8].pattern[2] = "{}"
    /\ DefaultRules[9].pattern[2] = "{}" /\ DefaultRules[9].pattern[3] = "{}"
    /\ DefaultRules[10].pattern[2] = "{}" /\ DefaultRules[10].pattern[3] = "{}"
    /\ DefaultRules[12].pattern[2] = "{}"
BY DEF DefaultRules, Rule

\* Whom the rules admit.
LEMMA Admitted ==
    /\ DefaultRules[1].roles = {"admin"}
    /\ DefaultRules[2].roles = {"admin"}
    /\ DefaultRules[3].roles = {"operator", "admin"}
    /\ DefaultRules[4].roles = {"operator", "admin"}
    /\ DefaultRules[5].roles = {"operator", "admin"}
    /\ DefaultRules[6].roles = {"operator", "admin"}
    /\ DefaultRules[7].roles = {"operator", "admin"}
    /\ DefaultRules[8].roles = {"admin"}
    /\ DefaultRules[9].roles = {"operator", "admin"}
    /\ DefaultRules[10].roles = {"admin"}
    /\ DefaultRules[11].roles = {"admin"}
    /\ DefaultRules[12].roles = {"admin"}
BY DEF DefaultRules, Rule

\* Keys are for whoever may reach every namespace.
LEMMA KeysClusterWide ==
    /\ DefaultRules[11].clusterWide = TRUE
    /\ DefaultRules[12].clusterWide = TRUE
BY DEF DefaultRules, Rule

\* The first rule that matches decides.
LEMMA FirstMatch ==
    ASSUME NEW user, NEW e, RouteGuard(user, e), NEW k \in 1..12,
           Matches(DefaultRules[k], e),
           \A j \in 1..(k - 1) : ~Matches(DefaultRules[j], e)
    PROVE  Allows(DefaultRules[k], user)
BY TwelveRules DEF RouteGuard

\* Why a rule does not match.
LEMMA OtherMethod ==
    ASSUME NEW rule, NEW e, rule.method # "*", rule.method # e.method
    PROVE  ~Matches(rule, e)
BY DEF Matches

LEMMA OtherLength ==
    ASSUME NEW rule, NEW e, Len(rule.pattern) # Len(e.path)
    PROVE  ~Matches(rule, e)
BY DEF Matches, MatchPath

LEMMA OtherSegment ==
    ASSUME NEW rule, NEW e, NEW i \in DOMAIN e.path,
           rule.pattern[i] # "{}", rule.pattern[i] # e.path[i]
    PROVE  ~Matches(rule, e)
BY DEF Matches, MatchPath

\* A path of n segments.
HasLength(path, n) == Len(path) = n /\ DOMAIN path = 1..n

\* What each rule demands of a request that no rule before it is about.
LEMMA RouteCreateServer ==
    ASSUME NEW user, NEW e, RouteGuard(user, e), HasLength(e.path, 2),
           e.method = "POST", e.path[1] = "gameservers"
    PROVE  user.role = "admin"
<1>1. Matches(DefaultRules[1], e)
  <2> DEFINE rule == DefaultRules[1]
  <2>1. /\ rule.method = "POST" /\ Len(rule.pattern) = 2
        /\ rule.pattern[1] = "gameservers" /\ rule.pattern[2] = "{}"
    BY Methods, Segments
  <2> HIDE DEF rule
  <2>2. ASSUME NEW i \in DOMAIN e.path
        PROVE  rule.pattern[i] = "{}" \/ rule.pattern[i] = e.path[i]
    <3>1. i = 1 \/ i = 2
      BY DEF HasLength
    <3> QED  BY <2>1, <3>1
  <2>3. Matches(rule, e)
    BY <2>1, <2>2 DEF HasLength, Matches, MatchPath
  <2> QED  BY <2>3 DEF rule
<1>2. \A j \in 1..(1 - 1) : ~Matches(DefaultRules[j], e)
  OBVIOUS
<1>3. Allows(DefaultRules[1], user)
  BY <1>1, <1>2, FirstMatch
<1> QED  BY <1>3, Admitted DEF Allows

LEMMA RouteDeleteServer ==
    ASSUME NEW user, NEW e, RouteGuard(user, e), HasLength(e.path, 3),
           e.method = "DELETE", e.path[1] = "gameservers"
    PROVE  user.role = "admin"
<1>1. Matches(DefaultRules[2], e)
  <2> DEFINE rule == DefaultRules[2]
  <2>1. /\ rule.method = "DELETE" /\ Len(rule.pattern) = 3
        /\ rule.pattern[1] = "gameservers" /\ rule.pattern[2] = "{}"
        /\ rule.pattern[3] = "{}"
    BY Methods, Segments
  <2> HIDE DEF rule
  <2>2. ASSUME NEW i \in DOMAIN e.path
        PROVE  rule.pattern[i] = "{}" \/ rule.pattern[i] = e.path[i]
    <3>1. i = 1 \/ i = 2 \/ i = 3
      BY DEF HasLength
    <3> QED  BY <2>1, <3>1
  <2>3. Matches(rule, e)
    BY <2>1, <2>2 DEF HasLength, Matches, MatchPath
  <2> QED  BY <2>3 DEF rule
<1>2. ~Matches(DefaultRules[1], e)
  BY Methods, OtherMethod
<1>3. \A j \in 1..(2 - 1) : ~Matches(DefaultRules[j], e)
  <2>1. \A j \in 1..(2 - 1) : j = 1
    OBVIOUS
  <2> QED  BY <2>1, <1>2
<1>4. Allows(DefaultRules[2], user)
  BY <1>1, <1>3, FirstMatch
<1> QED  BY <1>4, Admitted DEF Allows

LEMMA RoutePatchServer ==
    ASSUME NEW user, NEW e, RouteGuard(user, e), HasLength(e.path, 3),
           e.method = "PATCH", e.path[1] = "gameservers"
    PROVE  user.role \in {"operator", "admin"}
<1>1. Matches(DefaultRules[3], e)
  <2> DEFINE rule == DefaultRules[3]
  <2>1. /\ rule.method = "PATCH" /\ Len(rule.pattern) = 3
        /\ rule.pattern[1] = "gameservers" /\ rule.pattern[2] = "{}"
        /\ rule.pattern[3] = "{}"
    BY Methods, Segments
  <2> HIDE DEF rule
  <2>2. ASSUME NEW i \in DOMAIN e.path
        PROVE  rule.pattern[i] = "{}" \/ rule.pattern[i] = e.path[i]
    <3>1. i = 1 \/ i = 2 \/ i = 3
      BY DEF HasLength
    <3> QED  BY <2>1, <3>1
  <2>3. Matches(rule, e)
    BY <2>1, <2>2 DEF HasLength, Matches, MatchPath
  <2> QED  BY <2>3 DEF rule
<1>2. ~Matches(DefaultRules[1], e) /\ ~Matches(DefaultRules[2], e)
  BY Methods, OtherMethod
<1>3. \A j \in 1..(3 - 1) : ~Matches(DefaultRules[j], e)
  <2>1. \A j \in 1..(3 - 1) : j = 1 \/ j = 2
    OBVIOUS
  <2> QED  BY <2>1, <1>2
<1>4. Allows(DefaultRules[3], user)
  BY <1>1, <1>3, FirstMatch
<1> QED  BY <1>4, Admitted DEF Allows

LEMMA RouteConsole ==
    ASSUME NEW user, NEW e, RouteGuard(user, e), HasLength(e.path, 4),
           e.method = "GET", e.path[1] = "gameservers", e.path[4] = "console"
    PROVE  user.role \in {"operator", "admin"}
<1>1. Matches(DefaultRules[4], e)
  <2> DEFINE rule == DefaultRules[4]
  <2>1. /\ rule.method = "GET" /\ Len(rule.pattern) = 4
        /\ rule.pattern[1] = "gameservers" /\ rule.pattern[2] = "{}"
        /\ rule.pattern[3] = "{}" /\ rule.pattern[4] = "console"
    BY Methods, Segments
  <2> HIDE DEF rule
  <2>2. ASSUME NEW i \in DOMAIN e.path
        PROVE  rule.pattern[i] = "{}" \/ rule.pattern[i] = e.path[i]
    <3>1. i = 1 \/ i = 2 \/ i = 3 \/ i = 4
      BY DEF HasLength
    <3> QED  BY <2>1, <3>1
  <2>3. Matches(rule, e)
    BY <2>1, <2>2 DEF HasLength, Matches, MatchPath
  <2> QED  BY <2>3 DEF rule
<1>2. /\ ~Matches(DefaultRules[1], e) /\ ~Matches(DefaultRules[2], e)
      /\ ~Matches(DefaultRules[3], e)
  BY Methods, OtherMethod
<1>3. \A j \in 1..(4 - 1) : ~Matches(DefaultRules[j], e)
  <2>1. \A j \in 1..(4 - 1) : j = 1 \/ j = 2 \/ j = 3
    OBVIOUS
  <2> QED  BY <2>1, <1>2
<1>4. Allows(DefaultRules[4], user)
  BY <1>1, <1>3, FirstMatch
<1> QED  BY <1>4, Admitted DEF Allows

LEMMA RouteSFTP ==
    ASSUME NEW user, NEW e, RouteGuard(user, e), HasLength(e.path, 4),
           e.method = "GET", e.path[1] = "gameservers", e.path[4] = "sftp"
    PROVE  user.role \in {"operator", "admin"}
<1>1. Matches(DefaultRules[5], e)
  <2> DEFINE rule == DefaultRules[5]
  <2>1. /\ rule.method = "GET" /\ Len(rule.pattern) = 4
        /\ rule.pattern[1] = "gameservers" /\ rule.pattern[2] = "{}"
        /\ rule.pattern[3] = "{}" /\ rule.pattern[4] = "sftp"
    BY Methods, Segments
  <2> HIDE DEF rule
  <2>2. ASSUME NEW i \in DOMAIN e.path
        PROVE  rule.pattern[i] = "{}" \/ rule.pattern[i] = e.path[i]
    <3>1. i = 1 \/ i = 2 \/ i = 3 \/ i = 4
      BY DEF HasLength
    <3> QED  BY <2>1, <3>1
  <2>3. Matches(rule, e)
    BY <2>1, <2>2 DEF HasLength, Matches, MatchPath
  <2> QED  BY <2>3 DEF rule
<1>2. /\ ~Matches(DefaultRules[1], e) /\ ~Matches(DefaultRules[2], e)
      /\ ~Matches(DefaultRules[3], e)
  BY Methods, OtherMethod
<1>3. ~Matches(DefaultRules[4], e)
  <2>1. 4 \in DOMAIN e.path
    BY DEF HasLength
  <2> QED  BY <2>1, Methods, Segments, OtherSegment
<1>4. \A j \in 1..(5 - 1) : ~Matches(DefaultRules[j], e)
  <2>1. \A j \in 1..(5 - 1) : j = 1 \/ j = 2 \/ j = 3 \/ j = 4
    OBVIOUS
  <2> QED  BY <2>1, <1>2, <1>3
<1>5. Allows(DefaultRules[5], user)
  BY <1>1, <1>4, FirstMatch
<1> QED  BY <1>5, Admitted DEF Allows

LEMMA RouteAction ==
    ASSUME NEW user, NEW e, RouteGuard(user, e), HasLength(e.path, 5),
           e.method = "POST", e.path[1] = "gameservers", e.path[4] = "actions"
    PROVE  user.role \in {"operator", "admin"}
<1>1. Matches(DefaultRules[6], e)
  <2> DEFINE rule == DefaultRules[6]
  <2>1. /\ rule.method = "POST" /\ Len(rule.pattern) = 5
        /\ rule.pattern[1] = "gameservers" /\ rule.pattern[2] = "{}"
        /\ rule.pattern[3] = "{}" /\ rule.pattern[4] = "actions"
        /\ rule.pattern[5] = "{}"
    BY Methods, Segments
  <2> HIDE DEF rule
  <2>2. ASSUME NEW i \in DOMAIN e.path
        PROVE  rule.pattern[i] = "{}" \/ rule.pattern[i] = e.path[i]
    <3>1. i = 1 \/ i = 2 \/ i = 3 \/ i = 4 \/ i = 5
      BY DEF HasLength
    <3> QED  BY <2>1, <3>1
  <2>3. Matches(rule, e)
    BY <2>1, <2>2 DEF HasLength, Matches, MatchPath
  <2> QED  BY <2>3 DEF rule
<1>2. /\ ~Matches(DefaultRules[2], e) /\ ~Matches(DefaultRules[3], e)
      /\ ~Matches(DefaultRules[4], e) /\ ~Matches(DefaultRules[5], e)
  BY Methods, OtherMethod
<1>3. ~Matches(DefaultRules[1], e)
  BY Methods, OtherLength DEF HasLength
<1>4. \A j \in 1..(6 - 1) : ~Matches(DefaultRules[j], e)
  <2>1. \A j \in 1..(6 - 1) : j = 1 \/ j = 2 \/ j = 3 \/ j = 4 \/ j = 5
    OBVIOUS
  <2> QED  BY <2>1, <1>2, <1>3
<1>5. Allows(DefaultRules[6], user)
  BY <1>1, <1>4, FirstMatch
<1> QED  BY <1>5, Admitted DEF Allows

LEMMA RouteSnapshot ==
    ASSUME NEW user, NEW e, RouteGuard(user, e), HasLength(e.path, 4),
           e.method = "POST", e.path[1] = "gameservers", e.path[4] = "snapshots"
    PROVE  user.role \in {"operator", "admin"}
<1>1. Matches(DefaultRules[7], e)
  <2> DEFINE rule == DefaultRules[7]
  <2>1. /\ rule.method = "POST" /\ Len(rule.pattern) = 4
        /\ rule.pattern[1] = "gameservers" /\ rule.pattern[2] = "{}"
        /\ rule.pattern[3] = "{}" /\ rule.pattern[4] = "snapshots"
    BY Methods, Segments
  <2> HIDE DEF rule
  <2>2. ASSUME NEW i \in DOMAIN e.path
        PROVE  rule.pattern[i] = "{}" \/ rule.pattern[i] = e.path[i]
    <3>1. i = 1 \/ i = 2 \/ i = 3 \/ i = 4
      BY DEF HasLength
    <3> QED  BY <2>1, <3>1
  <2>3. Matches(rule, e)
    BY <2>1, <2>2 DEF HasLength, Matches, MatchPath
  <2> QED  BY <2>3 DEF rule
<1>2. /\ ~Matches(DefaultRules[2], e) /\ ~Matches(DefaultRules[3], e)
      /\ ~Matches(DefaultRules[4], e) /\ ~Matches(DefaultRules[5], e)
  BY Methods, OtherMethod
<1>3. ~Matches(DefaultRules[1], e) /\ ~Matches(DefaultRules[6], e)
  BY Methods, OtherLength DEF HasLength
<1>4. \A j \in 1..(7 - 1) : ~Matches(DefaultRules[j], e)
  <2>1. \A j \in 1..(7 - 1) : j = 1 \/ j = 2 \/ j = 3 \/ j = 4 \/ j = 5 \/ j = 6
    OBVIOUS
  <2> QED  BY <2>1, <1>2, <1>3
<1>5. Allows(DefaultRules[7], user)
  BY <1>1, <1>4, FirstMatch
<1> QED  BY <1>5, Admitted DEF Allows

LEMMA RouteCreateFleet ==
    ASSUME NEW user, NEW e, RouteGuard(user, e), HasLength(e.path, 2),
           e.method = "POST", e.path[1] = "gameserverfleets"
    PROVE  user.role = "admin"
<1>1. Matches(DefaultRules[8], e)
  <2> DEFINE rule == DefaultRules[8]
  <2>1. /\ rule.method = "POST" /\ Len(rule.pattern) = 2
        /\ rule.pattern[1] = "gameserverfleets" /\ rule.pattern[2] = "{}"
    BY Methods, Segments
  <2> HIDE DEF rule
  <2>2. ASSUME NEW i \in DOMAIN e.path
        PROVE  rule.pattern[i] = "{}" \/ rule.pattern[i] = e.path[i]
    <3>1. i = 1 \/ i = 2
      BY DEF HasLength
    <3> QED  BY <2>1, <3>1
  <2>3. Matches(rule, e)
    BY <2>1, <2>2 DEF HasLength, Matches, MatchPath
  <2> QED  BY <2>3 DEF rule
<1>2. /\ ~Matches(DefaultRules[2], e) /\ ~Matches(DefaultRules[3], e)
      /\ ~Matches(DefaultRules[4], e) /\ ~Matches(DefaultRules[5], e)
  BY Methods, OtherMethod
<1>3. ~Matches(DefaultRules[6], e) /\ ~Matches(DefaultRules[7], e)
  BY Methods, OtherLength DEF HasLength
<1>4. ~Matches(DefaultRules[1], e)
  <2>1. 1 \in DOMAIN e.path
    BY DEF HasLength
  <2> QED  BY <2>1, Methods, Segments, OtherSegment
<1>5. \A j \in 1..(8 - 1) : ~Matches(DefaultRules[j], e)
  <2>1. \A j \in 1..(8 - 1) :
          \/ j = 1 \/ j = 2 \/ j = 3 \/ j = 4 \/ j = 5 \/ j = 6
          \/ j = 7
    OBVIOUS
  <2> QED  BY <2>1, <1>2, <1>3, <1>4
<1>6. Allows(DefaultRules[8], user)
  BY <1>1, <1>5, FirstMatch
<1> QED  BY <1>6, Admitted DEF Allows

LEMMA RoutePatchFleet ==
    ASSUME NEW user, NEW e, RouteGuard(user, e), HasLength(e.path, 3),
           e.method = "PATCH", e.path[1] = "gameserverfleets"
    PROVE  user.role \in {"operator", "admin"}
<1>1. Matches(DefaultRules[9], e)
  <2> DEFINE rule == DefaultRules[9]
  <2>1. /\ rule.method = "PATCH" /\ Len(rule.pattern) = 3
        /\ rule.pattern[1] = "gameserverfleets" /\ rule.pattern[2] = "{}"
        /\ rule.pattern[3] = "{}"
    BY Methods, Segments
  <2> HIDE DEF rule
  <2>2. ASSUME NEW i \in DOMAIN e.path
        PROVE  rule.pattern[i] = "{}" \/ rule.pattern[i] = e.path[i]
    <3>1. i = 1 \/ i = 2 \/ i = 3
      BY DEF HasLength
    <3> QED  BY <2>1, <3>1
  <2>3. Matches(rule, e)
    BY <2>1, <2>2 DEF HasLength, Matches, MatchPath
  <2> QED  BY <2>3 DEF rule
<1>2. /\ ~Matches(DefaultRules[1], e) /\ ~Matches(DefaultRules[2], e)
      /\ ~Matches(DefaultRules[4], e) /\ ~Matches(DefaultRules[5], e)
      /\ ~Matches(DefaultRules[6], e) /\ ~Matches(DefaultRules[7], e)
      /\ ~Matches(DefaultRules[8], e)
  BY Methods, OtherMethod
<1>3. ~Matches(DefaultRules[3], e)
  <2>1. 1 \in DOMAIN e.path
    BY DEF HasLength
  <2> QED  BY <2>1, Methods, Segments, OtherSegment
<1>4. \A j \in 1..(9 - 1) : ~Matches(DefaultRules[j], e)
  <2>1. \A j \in 1..(9 - 1) :
          \/ j = 1 \/ j = 2 \/ j = 3 \/ j = 4 \/ j = 5 \/ j = 6
          \/ j = 7 \/ j = 8
    OBVIOUS
  <2> QED  BY <2>1, <1>2, <1>3
<1>5. Allows(DefaultRules[9], user)
  BY <1>1, <1>4, FirstMatch
<1> QED  BY <1>5, Admitted DEF Allows

LEMMA RouteDeleteFleet ==
    ASSUME NEW user, NEW e, RouteGuard(user, e), HasLength(e.path, 3),
           e.method = "DELETE", e.path[1] = "gameserverfleets"
    PROVE  user.role = "admin"
<1>1. Matches(DefaultRules[10], e)
  <2> DEFINE rule == DefaultRules[10]
  <2>1. /\ rule.method = "DELETE" /\ Len(rule.pattern) = 3
        /\ rule.pattern[1] = "gameserverfleets" /\ rule.pattern[2] = "{}"
        /\ rule.pattern[3] = "{}"
    BY Methods, Segments
  <2> HIDE DEF rule
  <2>2. ASSUME NEW i \in DOMAIN e.path
        PROVE  rule.pattern[i] = "{}" \/ rule.pattern[i] = e.path[i]
    <3>1. i = 1 \/ i = 2 \/ i = 3
      BY DEF HasLength
    <3> QED  BY <2>1, <3>1
  <2>3. Matches(rule, e)
    BY <2>1, <2>2 DEF HasLength, Matches, MatchPath
  <2> QED  BY <2>3 DEF rule
<1>2. /\ ~Matches(DefaultRules[1], e) /\ ~Matches(DefaultRules[3], e)
      /\ ~Matches(DefaultRules[4], e) /\ ~Matches(DefaultRules[5], e)
      /\ ~Matches(DefaultRules[6], e) /\ ~Matches(DefaultRules[7], e)
      /\ ~Matches(DefaultRules[8], e) /\ ~Matches(DefaultRules[9], e)
  BY Methods, OtherMethod
<1>3. ~Matches(DefaultRules[2], e)
  <2>1. 1 \in DOMAIN e.path
    BY DEF HasLength
  <2> QED  BY <2>1, Methods, Segments, OtherSegment
<1>4. \A j \in 1..(10 - 1) : ~Matches(DefaultRules[j], e)
  <2>1. \A j \in 1..(10 - 1) :
          \/ j = 1 \/ j = 2 \/ j = 3 \/ j = 4 \/ j = 5 \/ j = 6
          \/ j = 7 \/ j = 8 \/ j = 9
    OBVIOUS
  <2> QED  BY <2>1, <1>2, <1>3
<1>5. Allows(DefaultRules[10], user)
  BY <1>1, <1>4, FirstMatch
<1> QED  BY <1>5, Admitted DEF Allows

LEMMA RouteKeys ==
    ASSUME NEW user, NEW e, RouteGuard(user, e), HasLength(e.path, 1),
           e.path[1] = "apikeys"
    PROVE  user.role = "admin" /\ ClusterWide(user)
<1>1. Matches(DefaultRules[11], e)
  <2> DEFINE rule == DefaultRules[11]
  <2>1. /\ rule.method = "*" /\ Len(rule.pattern) = 1
        /\ rule.pattern[1] = "apikeys"
    BY Methods, Segments
  <2> HIDE DEF rule
  <2>2. ASSUME NEW i \in DOMAIN e.path
        PROVE  rule.pattern[i] = "{}" \/ rule.pattern[i] = e.path[i]
    <3>1. i = 1
      BY DEF HasLength
    <3> QED  BY <2>1, <3>1
  <2>3. Matches(rule, e)
    BY <2>1, <2>2 DEF HasLength, Matches, MatchPath
  <2> QED  BY <2>3 DEF rule
<1>2. /\ ~Matches(DefaultRules[1], e) /\ ~Matches(DefaultRules[2], e)
      /\ ~Matches(DefaultRules[3], e)
  BY Methods, OtherLength DEF HasLength
<1>3. /\ ~Matches(DefaultRules[4], e) /\ ~Matches(DefaultRules[5], e)
      /\ ~Matches(DefaultRules[6], e)
  BY Methods, OtherLength DEF HasLength
<1>4. /\ ~Matches(DefaultRules[7], e) /\ ~Matches(DefaultRules[8], e)
      /\ ~Matches(DefaultRules[9], e)
  BY Methods, OtherLength DEF HasLength
<1>5. ~Matches(DefaultRules[10], e)
  BY Methods, OtherLength DEF HasLength
<1>6. \A j \in 1..(11 - 1) : ~Matches(DefaultRules[j], e)
  <2>1. \A j \in 1..(11 - 1) :
          \/ j = 1 \/ j = 2 \/ j = 3 \/ j = 4 \/ j = 5 \/ j = 6
          \/ j = 7 \/ j = 8 \/ j = 9 \/ j = 10
    OBVIOUS
  <2> QED  BY <2>1, <1>2, <1>3, <1>4, <1>5
<1>7. Allows(DefaultRules[11], user)
  BY <1>1, <1>6, FirstMatch
<1> QED  BY <1>7, Admitted, KeysClusterWide DEF Allows

LEMMA RouteKey ==
    ASSUME NEW user, NEW e, RouteGuard(user, e), HasLength(e.path, 2),
           e.path[1] = "apikeys"
    PROVE  user.role = "admin" /\ ClusterWide(user)
<1>1. Matches(DefaultRules[12], e)
  <2> DEFINE rule == DefaultRules[12]
  <2>1. /\ rule.method = "*" /\ Len(rule.pattern) = 2
        /\ rule.pattern[1] = "apikeys" /\ rule.pattern[2] = "{}"
    BY Methods, Segments
  <2> HIDE DEF rule
  <2>2. ASSUME NEW i \in DOMAIN e.path
        PROVE  rule.pattern[i] = "{}" \/ rule.pattern[i] = e.path[i]
    <3>1. i = 1 \/ i = 2
      BY DEF HasLength
    <3> QED  BY <2>1, <3>1
  <2>3. Matches(rule, e)
    BY <2>1, <2>2 DEF HasLength, Matches, MatchPath
  <2> QED  BY <2>3 DEF rule
<1>2. /\ ~Matches(DefaultRules[2], e) /\ ~Matches(DefaultRules[3], e)
      /\ ~Matches(DefaultRules[4], e)
  BY Methods, OtherLength DEF HasLength
<1>3. /\ ~Matches(DefaultRules[5], e) /\ ~Matches(DefaultRules[6], e)
      /\ ~Matches(DefaultRules[7], e)
  BY Methods, OtherLength DEF HasLength
<1>4. /\ ~Matches(DefaultRules[9], e) /\ ~Matches(DefaultRules[10], e)
      /\ ~Matches(DefaultRules[11], e)
  BY Methods, OtherLength DEF HasLength
<1>5. ~Matches(DefaultRules[1], e) /\ ~Matches(DefaultRules[8], e)
  <2>1. 1 \in DOMAIN e.path
    BY DEF HasLength
  <2> QED  BY <2>1, Methods, Segments, OtherSegment
<1>6. \A j \in 1..(12 - 1) : ~Matches(DefaultRules[j], e)
  <2>1. \A j \in 1..(12 - 1) :
          \/ j = 1 \/ j = 2 \/ j = 3 \/ j = 4 \/ j = 5 \/ j = 6
          \/ j = 7 \/ j = 8 \/ j = 9 \/ j = 10 \/ j = 11
    OBVIOUS
  <2> QED  BY <2>1, <1>2, <1>3, <1>4, <1>5
<1>7. Allows(DefaultRules[12], user)
  BY <1>1, <1>6, FirstMatch
<1> QED  BY <1>7, Admitted, KeysClusterWide DEF Allows

\* An operation's method, the length of its path and its first segment; the
\* namespace; the fourth segment.
At(op, method, n, first) ==
    /\ Endpoints[op].method = method
    /\ HasLength(Endpoints[op].path, n)
    /\ Endpoints[op].path[1] = first

In(op, n) == Endpoints[op].path[2] = n

Asks(op, what) == Endpoints[op].path[4] = what

LEMMA Paths ==
    /\ At("createServer", "POST", 2, "gameservers") /\ In("createServer", Tenant)
    /\ At("createFleet", "POST", 2, "gameserverfleets") /\ In("createFleet", Tenant)
    /\ At("patchServer", "PATCH", 3, "gameservers") /\ In("patchServer", Other)
    /\ At("patchFleet", "PATCH", 3, "gameserverfleets") /\ In("patchFleet", Other)
    /\ At("deleteServer", "DELETE", 3, "gameservers") /\ In("deleteServer", Other)
    /\ At("deleteFleet", "DELETE", 3, "gameserverfleets") /\ In("deleteFleet", Other)
    /\ At("getServer", "GET", 3, "gameservers") /\ In("getServer", Other)
    /\ At("getFleet", "GET", 3, "gameserverfleets") /\ In("getFleet", Other)
    /\ At("sftp", "GET", 4, "gameservers") /\ In("sftp", Other)
    /\ Asks("sftp", "sftp")
    /\ At("console", "GET", 4, "gameservers") /\ In("console", Other)
    /\ Asks("console", "console")
    /\ At("listActions", "GET", 4, "gameservers") /\ In("listActions", Other)
    /\ At("getExecution", "GET", 5, "gameservers") /\ In("getExecution", Other)
    /\ At("listSnapshots", "GET", 4, "gameservers") /\ In("listSnapshots", Other)
    /\ At("execute", "POST", 5, "gameservers") /\ In("execute", Other)
    /\ Asks("execute", "actions")
    /\ At("snapshot", "POST", 4, "gameservers") /\ In("snapshot", Other)
    /\ Asks("snapshot", "snapshots")
    /\ At("createKey", "POST", 1, "apikeys")
    /\ At("listKeys", "GET", 1, "apikeys")
    /\ At("deleteKey", "DELETE", 2, "apikeys")
<1>1. At("createServer", "POST", 2, "gameservers") /\ In("createServer", Tenant)
  BY DEF Endpoints, Endpoint, HasLength, At, In, Asks
<1>2. At("createFleet", "POST", 2, "gameserverfleets") /\ In("createFleet", Tenant)
  BY DEF Endpoints, Endpoint, HasLength, At, In, Asks
<1>3. At("patchServer", "PATCH", 3, "gameservers") /\ In("patchServer", Other)
  BY DEF Endpoints, Endpoint, HasLength, At, In, Asks
<1>4. At("patchFleet", "PATCH", 3, "gameserverfleets") /\ In("patchFleet", Other)
  BY DEF Endpoints, Endpoint, HasLength, At, In, Asks
<1>5. At("deleteServer", "DELETE", 3, "gameservers") /\ In("deleteServer", Other)
  BY DEF Endpoints, Endpoint, HasLength, At, In, Asks
<1>6. At("deleteFleet", "DELETE", 3, "gameserverfleets") /\ In("deleteFleet", Other)
  BY DEF Endpoints, Endpoint, HasLength, At, In, Asks
<1>7. At("getServer", "GET", 3, "gameservers") /\ In("getServer", Other)
  BY DEF Endpoints, Endpoint, HasLength, At, In, Asks
<1>8. At("getFleet", "GET", 3, "gameserverfleets") /\ In("getFleet", Other)
  BY DEF Endpoints, Endpoint, HasLength, At, In, Asks
<1>9. /\ At("sftp", "GET", 4, "gameservers") /\ In("sftp", Other)
      /\ Asks("sftp", "sftp")
  BY DEF Endpoints, Endpoint, HasLength, At, In, Asks
<1>10. /\ At("console", "GET", 4, "gameservers") /\ In("console", Other)
      /\ Asks("console", "console")
  BY DEF Endpoints, Endpoint, HasLength, At, In, Asks
<1>11. At("listActions", "GET", 4, "gameservers") /\ In("listActions", Other)
  BY DEF Endpoints, Endpoint, HasLength, At, In, Asks
<1>12. At("getExecution", "GET", 5, "gameservers") /\ In("getExecution", Other)
  BY DEF Endpoints, Endpoint, HasLength, At, In, Asks
<1>13. At("listSnapshots", "GET", 4, "gameservers") /\ In("listSnapshots", Other)
  BY DEF Endpoints, Endpoint, HasLength, At, In, Asks
<1>14. /\ At("execute", "POST", 5, "gameservers") /\ In("execute", Other)
      /\ Asks("execute", "actions")
  BY DEF Endpoints, Endpoint, HasLength, At, In, Asks
<1>15. /\ At("snapshot", "POST", 4, "gameservers") /\ In("snapshot", Other)
      /\ Asks("snapshot", "snapshots")
  BY DEF Endpoints, Endpoint, HasLength, At, In, Asks
<1>16. At("createKey", "POST", 1, "apikeys")
  BY DEF Endpoints, Endpoint, HasLength, At, In, Asks
<1>17. At("listKeys", "GET", 1, "apikeys")
  BY DEF Endpoints, Endpoint, HasLength, At, In, Asks
<1>18. At("deleteKey", "DELETE", 2, "apikeys")
  BY DEF Endpoints, Endpoint, HasLength, At, In, Asks
<1> QED  BY <1>1, <1>2, <1>3, <1>4, <1>5, <1>6, <1>7, <1>8, <1>9,
            <1>10, <1>11, <1>12, <1>13, <1>14, <1>15, <1>16, <1>17, <1>18

\* RouteGuard lets only those roles pass that an operation is open to, and to
\* the keys only who may reach every namespace.
LEMMA GuardedRoutes ==
    ASSUME NEW op \in DOMAIN Endpoints, NEW user, RouteGuard(user, Endpoints[op])
    PROVE  /\ OpenTo(op, user.role)
           /\ op = "createKey" => ClusterWide(user)
<1>1. op = "createServer" => user.role = "admin"
  BY Paths, RouteCreateServer DEF At, In, Asks
<1>2. op = "createFleet" => user.role = "admin"
  BY Paths, RouteCreateFleet DEF At, In, Asks
<1>3. op = "patchServer" => user.role \in {"operator", "admin"}
  BY Paths, RoutePatchServer DEF At, In, Asks
<1>4. op = "patchFleet" => user.role \in {"operator", "admin"}
  BY Paths, RoutePatchFleet DEF At, In, Asks
<1>5. op = "deleteServer" => user.role = "admin"
  BY Paths, RouteDeleteServer DEF At, In, Asks
<1>6. op = "deleteFleet" => user.role = "admin"
  BY Paths, RouteDeleteFleet DEF At, In, Asks
<1>7. op = "sftp" => user.role \in {"operator", "admin"}
  BY Paths, RouteSFTP DEF At, In, Asks
<1>8. op = "console" => user.role \in {"operator", "admin"}
  BY Paths, RouteConsole DEF At, In, Asks
<1>9. op = "execute" => user.role \in {"operator", "admin"}
  BY Paths, RouteAction DEF At, In, Asks
<1>10. op = "snapshot" => user.role \in {"operator", "admin"}
  BY Paths, RouteSnapshot DEF At, In, Asks
<1>11. op = "createKey" => user.role = "admin" /\ ClusterWide(user)
  BY Paths, RouteKeys DEF At, In, Asks
<1>12. op = "listKeys" => user.role = "admin"
  BY Paths, RouteKeys DEF At, In, Asks
<1>13. op = "deleteKey" => user.role = "admin"
  BY Paths, RouteKey DEF At, In, Asks
<1> QED  BY <1>1, <1>2, <1>3, <1>4, <1>5, <1>6, <1>7,
            <1>8, <1>9, <1>10, <1>11, <1>12, <1>13 DEF OpenTo

\* NamespaceGuard lets only those pass that may reach the path's namespace.
LEMMA GuardedNamespaces ==
    ASSUME NEW op \in DOMAIN Endpoints, NEW user, NamespaceGuard(user, Endpoints[op])
    PROVE  /\ op \in Creates => AllowsNamespace(user, Tenant)
           /\ op \in OnOther => AllowsNamespace(user, Other)
<1>1. ASSUME NEW n, Len(Endpoints[op].path) >= 2, Endpoints[op].path[2] = n,
             Endpoints[op].path[1] \in {"gameservers", "gameserverfleets"}
      PROVE  AllowsNamespace(user, n)
  BY <1>1 DEF NamespaceGuard, NamespaceFromPath
<1>2. op \in Creates => AllowsNamespace(user, Tenant)
  BY <1>1, Paths DEF Creates, HasLength, At, In
<1>3. op \in OnOther => AllowsNamespace(user, Other)
  BY <1>1, Paths DEF OnOther, HasLength, At, In
<1> QED  BY <1>2, <1>3

LEMMA Operations ==
    DOMAIN Endpoints =
      Creates \cup OnOther \cup {"listServers", "listFleets", "listProfiles", "getProfile",
                                 "listKeys", "createKey", "deleteKey"}
BY DEF Endpoints, Creates, OnOther

-----------------------------------------------------------------------------
(* Rights *)

\* The chain has a provider, and every one asks for a credential: with "none",
\* which is also what an empty chain falls back to, everybody is an
\* administrator.
Authenticating == Chain # {} /\ \A i \in Chain : Modes[i] # "none"

\* A key that there is was issued, is alive, expires when it should, does not
\* reach further than it was issued for, and no other Secret holds it.
KeyOK(n) ==
    /\ keys[n].value = 0 => keys[n] = NoKey
    /\ keys[n].value # 0 =>
         /\ keys[n].value \in DOMAIN issued
         /\ issued[keys[n].value].live
         /\ issued[keys[n].value].expires = keys[n].expires
         /\ \A m \in Namespaces :
              AllowsNamespace(FromSecret(keys[n]), m) => m \in issued[keys[n].value].reach
         /\ \A k \in KeyNames : keys[k].value = keys[n].value => k = n

\* Of what is alive there is a Secret.
IssuedOK == \A i \in DOMAIN issued : issued[i].live => \E n \in KeyNames : keys[n].value = i

KeysInv == IssuedOK /\ \A n \in KeyNames : KeyOK(n)

\* A request that is being served has the rights for it: its user may do it,
\* and reaches no further than the credential.
Served(r) ==
    /\ OpenTo(req[r].at, req[r].user.role)
    /\ \A m \in Namespaces : AllowsNamespace(req[r].user, m) => m \in req[r].reach
    /\ req[r].at \in Creates => Tenant \in req[r].reach
    /\ req[r].at \in OnOther => Other \in req[r].reach
    /\ req[r].at = "createKey" => Namespaces \subseteq req[r].reach

Rights(r) ==
    /\ req[r].at = "new" => req[r].key = 0 /\ req[r].touched = {}
    /\ req[r].touched \subseteq req[r].reach
    /\ pc[r] # "idle" => req[r].at \in Creates
    /\ req[r].at \in DOMAIN Endpoints => Served(r)

RightsInv == \A r \in Requests : Rights(r)

\* Whom a credential is accepted for reaches no further than the credential.
LEMMA WithinReach ==
    ASSUME Authenticating, KeysOK, KeysInv, NEW cred \in Credentials,
           NEW user \in Authenticate(cred), NEW m \in Namespaces, AllowsNamespace(user, m)
    PROVE  m \in Reach(cred)
<1>1. PICK i \in Chain : user \in UsersOf(Modes[i], cred)
  BY DEF Authenticate, Authenticating
<1>2. Modes[i] \in {"basic", "oidc", "apikey"}
  BY <1>1, ControlPlaneAssumption DEF Authenticating, Chain
<1>3. CASE cred.kind # "apikey"
  BY <1>3 DEF Reach
<1>4. CASE cred.kind = "apikey"
  <2>1. user \in APIKeyUsers(cred)
    BY <1>1, <1>2, <1>4 DEF UsersOf, BasicUsers, OIDCUsers
  <2>2. PICK n \in GetKey(cred.value) : user = FromSecret(keys[n])
    BY <1>4, <2>1 DEF APIKeyUsers
  <2>3. n \in KeyNames /\ keys[n].value = cred.value
    BY <2>2 DEF GetKey
  <2>4. cred.value # 0
    <3>1. \A i2 \in DOMAIN issued : i2 # 0
      BY DEF KeysOK
    <3> QED  BY <1>4, <3>1 DEF Credentials, Credential
  <2>5. AllowsNamespace(FromSecret(keys[n]), m)
    BY <2>2
  <2>6. m \in issued[cred.value].reach
    BY <2>3, <2>4, <2>5 DEF KeysInv, KeyOK
  <2> QED  BY <1>4, <2>6 DEF Reach
<1> QED  BY <1>3, <1>4

\* A request that the middleware lets through has the rights for what it asks.
LEMMA ServedOnArrival ==
    ASSUME Authenticating, KeysOK, KeysInv, NEW cred \in Credentials, NEW op \in Ops,
           NEW user \in Authenticate(cred),
           RouteGuard(user, Endpoints[op]), NamespaceGuard(user, Endpoints[op])
    PROVE  /\ OpenTo(op, user.role)
           /\ \A m \in Namespaces : AllowsNamespace(user, m) => m \in Reach(cred)
           /\ op \in Creates => Tenant \in Reach(cred)
           /\ op \in OnOther => Other \in Reach(cred)
           /\ op = "createKey" => Namespaces \subseteq Reach(cred)
<1>1. op \in DOMAIN Endpoints /\ Tenant \in Namespaces /\ Other \in Namespaces
  BY OpsAssumption DEF Namespaces
<1>2. \A m \in Namespaces : AllowsNamespace(user, m) => m \in Reach(cred)
  BY WithinReach
<1>3. /\ op \in Creates => Tenant \in Reach(cred)
      /\ op \in OnOther => Other \in Reach(cred)
  BY <1>1, <1>2, GuardedNamespaces
<1>4. OpenTo(op, user.role) /\ (op = "createKey" => ClusterWide(user))
  BY <1>1, GuardedRoutes
<1>5. op = "createKey" => Namespaces \subseteq Reach(cred)
  BY <1>2, <1>4 DEF AllowsNamespace
<1> QED  BY <1>2, <1>3, <1>4, <1>5

\* What comes back out of a key's Secret does not reach further than the list
\* that went into it.
LEMMA StoredScope ==
    ASSUME NEW list \in Seq(ListEntries), NEW role, NEW expires, NEW m \in Namespaces,
           AllowsNamespace(FromSecret(GenerateKey(role, list, expires)), m)
    PROVE  m \in Asked(list)
<1> DEFINE literals == {list[i].literal : i \in DOMAIN list}
           key == GenerateKey(role, list, expires)
<1>1. key.field = Joined(list) /\ key.scope = ParseNamespaces(list) /\ key.listed = literals
  BY DEF GenerateKey
<1> HIDE DEF key
<1>2. CASE Joined(list)
  <2>1. ParseNamespaces(list) = {} \/ \E p \in ParseNamespaces(list) : m \in p
    BY <1>1, <1>2 DEF AllowsNamespace, ClusterWide, FromSecret, User, key
  <2> QED  BY <2>1 DEF ParseNamespaces, Asked
<1>3. CASE ~Joined(list)
  <2>1. \A i \in DOMAIN list : list[i] \in ListEntries
    BY ElementOfSeq
  <2>2. \A i \in DOMAIN list : list[i].empty
    BY <1>3 DEF Joined
  <2> QED  BY <2>1, <2>2 DEF ListEntries, Asked
<1> QED  BY <1>2, <1>3

\* The keys: one is created with rights the caller has, and none outlives its
\* deletion.
LEMMA KeysInvStep ==
    ASSUME APITypeOK, KeysInv, RightsInv, APINext
    PROVE  KeysInv'
<1> USE DEF APITypeOK
<1>0. \A n \in KeyNames : keys[n] \in KeyRecords /\ keys[n].value \in Nat
  BY DEF KeysOK, KeyRecords
<1>len. DOMAIN issued = 1..Len(issued) /\ Len(issued) \in Nat
  BY DEF KeysOK
<1>nokey. NoKey.value = 0
  BY DEF NoKey
<1>same. ASSUME UNCHANGED <<keys, issued>>
         PROVE  KeysInv'
  BY <1>same DEF KeysInv, KeyOK, IssuedOK, FromSecret, AllowsNamespace, ClusterWide, User
<1>1. ASSUME NEW r \in Requests, NEW name \in KeyNames, NEW w \in KeyWishes,
             CreateAPIKey(r, name, w[1], w[2], w[3]), keys[name] = NoKey
      PROVE  KeysInv'
  <2> DEFINE key == GenerateKey(IF w[1] = "" THEN req[r].user.role ELSE w[1], w[2], w[3])
             entry == [live |-> TRUE, expires |-> w[3],
                       reach |-> req[r].reach \cap Asked(w[2])]
             v == Len(issued) + 1
  <2>1. keys' = [keys EXCEPT ![name] = key] /\ issued' = Append(issued, entry)
    BY <1>1 DEF CreateAPIKey
  <2>2. key.value = v /\ key.expires = w[3]
    BY DEF GenerateKey
  <2>3. Namespaces \subseteq req[r].reach
    <3>1. req[r].at = "createKey" /\ "createKey" \in DOMAIN Endpoints
      BY <1>1, Operations DEF CreateAPIKey
    <3> QED  BY <3>1 DEF RightsInv, Rights, Served
  <2>4. entry.live /\ entry.expires = key.expires
    BY <2>2
  <2>5. ASSUME NEW m \in Namespaces, AllowsNamespace(FromSecret(key), m)
        PROVE  m \in entry.reach
    <3>1. w[2] \in Seq(ListEntries)
      BY ControlPlaneAssumption
    <3>2. m \in Asked(w[2])
      BY <2>5, <3>1, StoredScope
    <3> QED  BY <2>3, <3>2
  <2>6. /\ keys'[name] = key
        /\ \A n \in KeyNames : n # name => keys'[n] = keys[n]
    BY <2>1 DEF KeysOK
  <2> HIDE DEF key, entry
  <2>7. /\ DOMAIN issued' = 1..v /\ issued'[v] = entry
        /\ \A i \in DOMAIN issued : issued'[i] = issued[i]
    BY <2>1, <1>len DEF KeysOK
  <2>8. \A n \in KeyNames : keys[n].value # v
    <3>1. \A n \in KeyNames : keys[n].value # 0 => keys[n].value =< Len(issued)
      BY <1>len DEF KeysInv, KeyOK
    <3> QED  BY <1>0, <1>len, <3>1
  <2>9. v # 0 /\ v \in DOMAIN issued'
    BY <1>len, <2>7
  <2>10. KeyOK(name)'
    BY <2>2, <2>4, <2>5, <2>6, <2>7, <2>8, <2>9 DEF KeyOK, FromSecret, AllowsNamespace, ClusterWide, User
  <2>11. ASSUME NEW n \in KeyNames, n # name
         PROVE  KeyOK(n)'
    <3>1. KeyOK(n) /\ keys'[n] = keys[n]
      BY <2>6, <2>11 DEF KeysInv
    <3>2. CASE keys[n].value = 0
      BY <3>1, <3>2 DEF KeyOK
    <3>3. CASE keys[n].value # 0
      <4>1. /\ keys[n].value \in DOMAIN issued /\ keys[n].value \in DOMAIN issued'
            /\ issued'[keys[n].value] = issued[keys[n].value]
        BY <1>len, <2>7, <3>1, <3>3 DEF KeyOK
      <4>2. \A k \in KeyNames : keys'[k].value = keys[n].value => k = n
        BY <2>2, <2>6, <2>8, <3>1, <3>3 DEF KeyOK
      <4> HIDE DEF v
      <4> QED  BY <3>1, <3>3, <4>1, <4>2 DEF KeyOK, FromSecret, AllowsNamespace, ClusterWide, User
    <3> QED  BY <3>2, <3>3
  <2>12. IssuedOK'
    <3> SUFFICES ASSUME NEW i \in DOMAIN issued', issued'[i].live
                 PROVE  \E n \in KeyNames : keys'[n].value = i
      BY DEF IssuedOK
    <3>1. CASE i = v
      BY <2>2, <2>6, <3>1
    <3>2. CASE i # v
      <4>1. i \in DOMAIN issued /\ i # 0
        BY <1>len, <2>7, <3>2
      <4>2. PICK n \in KeyNames : keys[n].value = i
        BY <2>7, <4>1 DEF KeysInv, IssuedOK
      <4>3. n # name
        BY <1>1, <1>nokey, <4>1, <4>2
      <4> QED  BY <2>6, <4>2, <4>3
    <3> QED  BY <3>1, <3>2
  <2> QED  BY <2>10, <2>11, <2>12 DEF KeysInv
<1>2. ASSUME NEW r \in Requests, NEW name \in KeyNames,
             DeleteAPIKey(r, name), keys[name] # NoKey
      PROVE  KeysInv'
  <2> DEFINE v == keys[name].value
             entry == [issued[v] EXCEPT !.live = FALSE]
  <2>1. issued' = [issued EXCEPT ![v] = entry] /\ keys' = [keys EXCEPT ![name] = NoKey]
    BY <1>2 DEF DeleteAPIKey
  <2>2. v # 0 /\ v \in DOMAIN issued
    BY <1>2 DEF KeysInv, KeyOK
  <2>3. ~entry.live
    <3>1. issued[v] \in IssuedRecords
      BY <1>len, <2>2, ElementOfSeq DEF KeysOK
    <3> HIDE DEF v
    <3> QED  BY <3>1 DEF IssuedRecords
  <2> HIDE DEF entry
  <2>4. /\ DOMAIN issued' = DOMAIN issued /\ issued'[v] = entry
        /\ \A i \in DOMAIN issued : i # v => issued'[i] = issued[i]
    BY <2>1, <2>2
  <2>5. /\ keys'[name] = NoKey
        /\ \A n \in KeyNames : n # name => keys'[n] = keys[n]
    BY <2>1 DEF KeysOK
  <2>6. KeyOK(name)'
    BY <1>nokey, <2>5 DEF KeyOK
  <2>7. ASSUME NEW n \in KeyNames, n # name
        PROVE  KeyOK(n)'
    <3>1. KeyOK(n) /\ KeyOK(name) /\ keys'[n] = keys[n]
      BY <2>5, <2>7 DEF KeysInv
    <3>2. CASE keys[n].value = 0
      BY <3>1, <3>2 DEF KeyOK
    <3>3. CASE keys[n].value # 0
      <4>1. keys[n].value # v
        BY <2>2, <2>7, <3>1 DEF KeyOK
      <4>2. keys[n].value \in DOMAIN issued' /\ issued'[keys[n].value] = issued[keys[n].value]
        BY <2>4, <3>1, <3>3, <4>1 DEF KeyOK
      <4>3. \A k \in KeyNames : keys'[k].value = keys[n].value => k = n
        BY <1>nokey, <2>5, <3>1, <3>3 DEF KeyOK
      <4> QED  BY <3>1, <3>3, <4>2, <4>3 DEF KeyOK, FromSecret, AllowsNamespace, ClusterWide, User
    <3> QED  BY <3>2, <3>3
  <2>8. IssuedOK'
    <3> SUFFICES ASSUME NEW i \in DOMAIN issued', issued'[i].live
                 PROVE  \E n \in KeyNames : keys'[n].value = i
      BY DEF IssuedOK
    <3>1. i # v
      BY <2>3, <2>4
    <3>2. PICK n \in KeyNames : keys[n].value = i
      BY <2>4, <3>1 DEF KeysInv, IssuedOK
    <3> QED  BY <2>5, <3>1, <3>2
  <2> QED  BY <2>6, <2>7, <2>8 DEF KeysInv
<1>3. ASSUME NEW name \in KeyNames, ExpireSecret(name)
      PROVE  KeysInv'
  <2> DEFINE v == keys[name].value
             entry == [issued[v] EXCEPT !.expires = now]
             key == [keys[name] EXCEPT !.expires = now]
  <2>1. issued' = [issued EXCEPT ![v] = entry] /\ keys' = [keys EXCEPT ![name] = key]
    BY <1>3 DEF ExpireSecret
  <2>2. v # 0 /\ v \in DOMAIN issued
    BY <1>3 DEF ExpireSecret, KeysInv, KeyOK
  <2>3. /\ entry.live = issued[v].live /\ entry.expires = now
        /\ entry.reach = issued[v].reach
    <3>1. issued[v] \in IssuedRecords
      BY <1>len, <2>2, ElementOfSeq DEF KeysOK
    <3> HIDE DEF v
    <3> QED  BY <3>1 DEF IssuedRecords
  <2>4. /\ key.value = v /\ key.expires = now
        /\ key.field = keys[name].field
        /\ key.scope = keys[name].scope /\ key.listed = keys[name].listed
    BY <1>0 DEF KeyRecords
  <2> HIDE DEF entry, key
  <2>5. /\ DOMAIN issued' = DOMAIN issued /\ issued'[v] = entry
        /\ \A i \in DOMAIN issued : i # v => issued'[i] = issued[i]
    BY <2>1, <2>2
  <2>6. /\ keys'[name] = key
        /\ \A n \in KeyNames : n # name => keys'[n] = keys[n]
    BY <2>1 DEF KeysOK
  <2>7. \A n \in KeyNames : keys'[n].value = keys[n].value
    BY <2>4, <2>6
  <2>8. KeyOK(name)'
    <3>1. KeyOK(name)
      BY DEF KeysInv
    <3> QED  BY <2>2, <2>3, <2>4, <2>5, <2>6, <2>7, <3>1 DEF KeyOK, FromSecret, AllowsNamespace, ClusterWide, User
  <2>9. ASSUME NEW n \in KeyNames, n # name
        PROVE  KeyOK(n)'
    <3>1. KeyOK(n) /\ KeyOK(name) /\ keys'[n] = keys[n]
      BY <2>6, <2>9 DEF KeysInv
    <3>2. CASE keys[n].value = 0
      BY <3>1, <3>2 DEF KeyOK
    <3>3. CASE keys[n].value # 0
      <4>1. keys[n].value # v
        BY <2>2, <2>9, <3>1 DEF KeyOK
      <4>2. keys[n].value \in DOMAIN issued' /\ issued'[keys[n].value] = issued[keys[n].value]
        BY <2>5, <3>1, <3>3, <4>1 DEF KeyOK
      <4> QED  BY <2>7, <3>1, <3>3, <4>2 DEF KeyOK, FromSecret, AllowsNamespace, ClusterWide, User
    <3> QED  BY <3>2, <3>3
  <2>10. IssuedOK'
    BY <2>3, <2>5, <2>7 DEF KeysInv, IssuedOK
  <2> QED  BY <2>8, <2>9, <2>10 DEF KeysInv
<1>scope. ASSUME NEW name \in KeyNames, NEW w \in KeyWishes, ScopeSecret(name, w[2])
          PROVE  KeysInv'
  <2> DEFINE v == keys[name].value
             key == [keys[name] EXCEPT !.field = Joined(w[2]), !.scope = ParseNamespaces(w[2])]
             reach == {n \in Namespaces : AllowsNamespace(FromSecret(key), n)}
             entry == [issued[v] EXCEPT !.reach = reach]
  <2>0. key.value = v /\ key.expires = keys[name].expires
    BY <1>0 DEF KeyRecords
  <2>1. issued' = [issued EXCEPT ![v] = entry] /\ keys' = [keys EXCEPT ![name] = key]
    BY <1>scope, <2>0 DEF ScopeSecret
  <2>2. v # 0 /\ v \in DOMAIN issued
    BY <1>scope DEF ScopeSecret, KeysInv, KeyOK
  <2>3. /\ entry.live = issued[v].live /\ entry.expires = issued[v].expires
        /\ entry.reach = reach
    <3>1. issued[v] \in IssuedRecords
      BY <1>len, <2>2, ElementOfSeq DEF KeysOK
    <3> HIDE DEF v, reach
    <3> QED  BY <3>1 DEF IssuedRecords
  <2>4. \A m \in Namespaces : AllowsNamespace(FromSecret(key), m) => m \in reach
    OBVIOUS
  <2> HIDE DEF entry, key, reach
  <2>5. /\ DOMAIN issued' = DOMAIN issued /\ issued'[v] = entry
        /\ \A i \in DOMAIN issued : i # v => issued'[i] = issued[i]
    BY <2>1, <2>2
  <2>6. /\ keys'[name] = key
        /\ \A n \in KeyNames : n # name => keys'[n] = keys[n]
    BY <2>1 DEF KeysOK
  <2>7. \A n \in KeyNames : keys'[n].value = keys[n].value
    BY <2>0, <2>6
  <2>8. KeyOK(name)'
    <3>1. KeyOK(name)
      BY DEF KeysInv
    <3>2. \A m \in Namespaces : AllowsNamespace(FromSecret(keys'[name]), m) => m \in issued'[v].reach
      BY <2>3, <2>4, <2>5, <2>6
    <3> QED  BY <2>0, <2>2, <2>3, <2>5, <2>6, <2>7, <3>1, <3>2
             DEF KeyOK, FromSecret, AllowsNamespace, ClusterWide, User
  <2>9. ASSUME NEW n \in KeyNames, n # name
        PROVE  KeyOK(n)'
    <3>1. KeyOK(n) /\ KeyOK(name) /\ keys'[n] = keys[n]
      BY <2>6, <2>9 DEF KeysInv
    <3>2. CASE keys[n].value = 0
      BY <3>1, <3>2 DEF KeyOK
    <3>3. CASE keys[n].value # 0
      <4>1. keys[n].value # v
        BY <2>2, <2>9, <3>1 DEF KeyOK
      <4>2. keys[n].value \in DOMAIN issued' /\ issued'[keys[n].value] = issued[keys[n].value]
        BY <2>5, <3>1, <3>3, <4>1 DEF KeyOK
      <4> QED  BY <2>7, <3>1, <3>3, <4>2 DEF KeyOK, FromSecret, AllowsNamespace, ClusterWide, User
    <3> QED  BY <3>2, <3>3
  <2>10. IssuedOK'
    BY <2>3, <2>5, <2>7 DEF KeysInv, IssuedOK
  <2> QED  BY <2>8, <2>9, <2>10 DEF KeysInv
<1>4. ASSUME NEW r \in Requests, Handle(r)
      PROVE  KeysInv'
  <2>1. CASE Create(r)
    BY <1>same, <2>1 DEF Create, apiVars
  <2>2. CASE Reject(r) \/ ReadForPatch(r) \/ WritePatch(r) \/ Delete(r)
    BY <1>same, <2>2 DEF Reject, ReadForPatch, WritePatch, Delete
  <2>3. CASE CreateNamed(r) \/ Get(r) \/ List(r) \/ ReadShared(r) \/ HandlerFails(r)
    BY <1>same, <2>3 DEF CreateNamed, Get, List, ReadShared, HandlerFails
  <2>4. ASSUME NEW name \in KeyNames, DeleteAPIKey(r, name)
        PROVE  KeysInv'
    <3>1. CASE keys[name] = NoKey
      BY <1>same, <2>4, <3>1 DEF DeleteAPIKey
    <3>2. CASE keys[name] # NoKey
      BY <1>2, <2>4, <3>2
    <3> QED  BY <3>1, <3>2
  <2>5. ASSUME NEW name \in KeyNames, NEW w \in KeyWishes,
               CreateAPIKey(r, name, w[1], w[2], w[3])
        PROVE  KeysInv'
    <3>1. CASE keys[name] # NoKey
      BY <1>same, <2>5, <3>1 DEF CreateAPIKey
    <3>2. CASE keys[name] = NoKey
      BY <1>1, <2>5, <3>2
    <3> QED  BY <3>1, <3>2
  <2> QED  BY <1>4, <2>1, <2>2, <2>3, <2>4, <2>5 DEF Handle
<1>5. ASSUME NEW r \in Requests, NEW op \in Ops, NEW cred \in Credentials, Arrive(r, op, cred)
      PROVE  KeysInv'
  BY <1>same, <1>5 DEF Arrive
<1>6. ASSUME NEW r \in Requests, LookupFails(r)
      PROVE  KeysInv'
  BY <1>same, <1>6 DEF LookupFails
<1>7. CASE (OperatorCreates /\ UNCHANGED apiVars) \/ Tick
  BY <1>same, <1>7 DEF apiVars, Tick
<1>8. CASE \E k \in DOMAIN obj : OperatorWrites(k)
  BY <1>same, <1>8 DEF OperatorWrites
<1> QED  BY <1>3, <1>scope, <1>4, <1>5, <1>6, <1>7, <1>8 DEF APINext

\* The requests: none has touched, or is about to touch, what is not its own.
LEMMA RightsStep ==
    ASSUME Authenticating, TypeOK, APITypeOK, PatchInv, KeysInv, RightsInv, APINext
    PROVE  RightsInv'
<1> USE DEF APITypeOK
<1>0. {"done", "unauthorized", "forbidden", "new"} \cap DOMAIN Endpoints = {}
  BY Operations DEF Creates, OnOther
<1>same. ASSUME NEW q \in Requests, req'[q] = req[q], pc'[q] = pc[q]
         PROVE  Rights(q)'
  BY <1>same DEF RightsInv, Rights, Served
<1>req. ASSUME UNCHANGED <<req, pc>>
        PROVE  RightsInv'
  BY <1>req, <1>same DEF RightsInv
<1>ans. ASSUME NEW r \in Requests, NEW t \in SUBSET Namespaces, Answer(r, t), UNCHANGED pc,
               pc[r] = "idle", t \subseteq req[r].reach
        PROVE  RightsInv'
  <2>1. /\ req'[r].at = "done" /\ req'[r].touched = t /\ req'[r].reach = req[r].reach
        /\ \A q \in Requests \ {r} : req'[q] = req[q]
    BY <1>ans, Answered
  <2>2. Rights(r)'
    BY <1>0, <1>ans, <2>1 DEF Rights
  <2> QED  BY <1>ans, <1>same, <2>1, <2>2 DEF RightsInv
<1>idle. ASSUME NEW r \in Requests, req[r].at \notin Creates
         PROVE  pc[r] = "idle"
  BY <1>idle DEF RightsInv, Rights
<1>none. ASSUME NEW r \in Requests, Answer(r, {}), UNCHANGED pc, pc[r] = "idle"
         PROVE  RightsInv'
  BY <1>ans, <1>none
<1>other. ASSUME NEW r \in Requests, Answer(r, {Other}), UNCHANGED pc, req[r].at \in OnOther
          PROVE  RightsInv'
  <2>1. req[r].at \in DOMAIN Endpoints /\ req[r].at \notin Creates
    BY <1>other, Operations DEF Creates, OnOther
  <2>2. Other \in req[r].reach
    BY <1>other, <2>1 DEF RightsInv, Rights, Served
  <2>3. {Other} \in SUBSET Namespaces /\ {Other} \subseteq req[r].reach /\ pc[r] = "idle"
    BY <1>idle, <2>1, <2>2 DEF Namespaces
  <2> QED  BY <1>ans, <1>other, <2>3
<1>1. ASSUME NEW r \in Requests, NEW op \in Ops, NEW cred \in Credentials, Arrive(r, op, cred)
      PROVE  RightsInv'
  <2>1. /\ req'[r].touched = req[r].touched
        /\ \A q \in Requests \ {r} : req'[q] = req[q]
        /\ \/ req'[r].at \in {"unauthorized", "forbidden"} /\ req'[r].reach = req[r].reach
           \/ /\ req'[r].at = op
              /\ req'[r].reach = Reach(cred)
              /\ req'[r].user \in Authenticate(cred)
              /\ RouteGuard(req'[r].user, Endpoints[op])
              /\ NamespaceGuard(req'[r].user, Endpoints[op])
    BY <1>1, Arrived
  <2>2. req[r].at = "new" /\ UNCHANGED pc
    BY <1>1 DEF Arrive, vars
  <2>3. pc[r] = "idle"
    BY <1>idle, <2>2 DEF Creates
  <2>4. CASE req'[r].at \in {"unauthorized", "forbidden"} /\ req'[r].reach = req[r].reach
    <3>1. Rights(r)'
      BY <1>0, <2>1, <2>2, <2>3, <2>4 DEF RightsInv, Rights
    <3> QED  BY <1>same, <2>1, <2>2, <3>1 DEF RightsInv
  <2>5. CASE /\ req'[r].at = op
             /\ req'[r].reach = Reach(cred)
             /\ req'[r].user \in Authenticate(cred)
             /\ RouteGuard(req'[r].user, Endpoints[op])
             /\ NamespaceGuard(req'[r].user, Endpoints[op])
    <3>1. Served(r)'
      BY <2>5, ServedOnArrival DEF Served
    <3>2. req[r].touched = {}
      BY <2>2 DEF RightsInv, Rights
    <3>3. op # "new"
      BY <1>0, OpsAssumption
    <3>4. Rights(r)'
      BY <2>1, <2>2, <2>3, <2>5, <3>1, <3>2, <3>3 DEF Rights
    <3> QED  BY <1>same, <2>1, <2>2, <3>4 DEF RightsInv
  <2> QED  BY <2>1, <2>4, <2>5
<1>2. ASSUME NEW r \in Requests, LookupFails(r)
      PROVE  RightsInv'
  <2> DEFINE o == [req[r] EXCEPT !.at = "unauthorized"]
  <2>1. req[r] \in RequestRecords
    BY DEF RequestsOK
  <2>2. o.at = "unauthorized" /\ o.touched = req[r].touched /\ o.reach = req[r].reach
    BY <2>1 DEF RequestRecords
  <2>3. req' = [req EXCEPT ![r] = o] /\ UNCHANGED pc /\ req[r].at = "new"
    BY <1>2 DEF LookupFails, RequestsOK
  <2> HIDE DEF o
  <2>4. req'[r] = o /\ \A q \in Requests \ {r} : req'[q] = req[q]
    BY <2>3 DEF RequestsOK
  <2>5. pc[r] = "idle"
    BY <1>idle, <2>3 DEF Creates
  <2>6. Rights(r)'
    BY <1>0, <2>2, <2>3, <2>4, <2>5 DEF RightsInv, Rights
  <2> QED  BY <1>same, <2>3, <2>4, <2>6 DEF RightsInv
<1>3. ASSUME NEW r \in Requests, Create(r)
      PROVE  RightsInv'
  <2>1. /\ UNCHANGED req /\ req[r].at \in Creates
        /\ \A q \in Requests \ {r} : pc'[q] = pc[q]
    BY <1>3 DEF Create, apiVars, Creates, EnsureNamespace, FindNamespace, CreateNamespace,
                CreateQuota, CreatePolicy, CreateServer, CreateFleet, Fails, Goto, TypeOK
  <2>2. Rights(r)'
    BY <2>1 DEF RightsInv, Rights, Served
  <2> QED  BY <1>same, <2>1, <2>2 DEF RightsInv
<1>4. ASSUME NEW r \in Requests, ReadForPatch(r)
      PROVE  RightsInv'
  <2>0. req[r].at \notin Creates /\ UNCHANGED pc
    BY <1>4 DEF ReadForPatch, Creates, vars
  <2>1. CASE obj[Kind(r)].there
    <3> DEFINE o == [req[r] EXCEPT !.seen = obj[Kind(r)]]
    <3>1. req[r] \in RequestRecords
      BY DEF RequestsOK
    <3>2. /\ o.at = req[r].at /\ o.user = req[r].user /\ o.key = req[r].key
          /\ o.reach = req[r].reach /\ o.touched = req[r].touched
      BY <3>1 DEF RequestRecords
    <3>3. req' = [req EXCEPT ![r] = o]
      BY <1>4, <2>1 DEF ReadForPatch, RequestsOK
    <3> HIDE DEF o
    <3>4. req'[r] = o /\ \A q \in Requests \ {r} : req'[q] = req[q]
      BY <3>3 DEF RequestsOK
    <3>5. Rights(r)'
      BY <2>0, <3>2, <3>4 DEF RightsInv, Rights, Served
    <3> QED  BY <1>same, <2>0, <3>4, <3>5 DEF RightsInv
  <2>2. CASE ~obj[Kind(r)].there
    BY <1>4, <1>idle, <1>none, <2>0, <2>2 DEF ReadForPatch
  <2> QED  BY <2>1, <2>2
<1>5. ASSUME NEW r \in Requests, WritePatch(r) \/ Delete(r) \/ CreateNamed(r) \/ Get(r)
      PROVE  RightsInv'
  <2>1. UNCHANGED pc /\ (Answer(r, {}) \/ Answer(r, {Other}))
    BY <1>5 DEF WritePatch, Delete, CreateNamed, Get, vars
  <2>2. req[r].at \in OnOther /\ req[r].at \notin Creates
    BY <1>5 DEF WritePatch, Delete, CreateNamed, Get, OnOther, Creates
  <2> QED  BY <1>idle, <1>none, <1>other, <2>1, <2>2
<1>6. ASSUME NEW r \in Requests, Reject(r)
      PROVE  RightsInv'
  BY <1>6, <1>none DEF Reject, vars
<1>7. ASSUME NEW r \in Requests, List(r)
      PROVE  RightsInv'
  <2>1. req[r].at \in DOMAIN Endpoints /\ req[r].at \notin Creates
    BY <1>7, Operations DEF List, Creates
  <2>2. Visible(r) \in SUBSET Namespaces
    BY DEF Visible
  <2>3. Visible(r) \subseteq req[r].reach
    BY <2>1 DEF Visible, RightsInv, Rights, Served
  <2> QED  BY <1>7, <1>ans, <1>idle, <2>1, <2>2, <2>3 DEF List, vars
<1>8. ASSUME NEW r \in Requests, ReadShared(r) \/ HandlerFails(r)
      PROVE  RightsInv'
  <2>1. UNCHANGED pc /\ Answer(r, {})
    BY <1>8 DEF ReadShared, HandlerFails, vars
  <2>2. req[r].at \notin Creates
    BY <1>8 DEF ReadShared, HandlerFails, Creates
  <2> QED  BY <1>idle, <1>none, <2>1, <2>2
<1>9. ASSUME NEW r \in Requests, NEW name \in KeyNames, DeleteAPIKey(r, name)
      PROVE  RightsInv'
  <2>1. UNCHANGED pc /\ Answer(r, {}) /\ req[r].at \notin Creates
    BY <1>9 DEF DeleteAPIKey, Creates, vars
  <2> QED  BY <1>idle, <1>none, <2>1
<1>10. ASSUME NEW r \in Requests, NEW name \in KeyNames, NEW w \in KeyWishes,
              CreateAPIKey(r, name, w[1], w[2], w[3])
       PROVE  RightsInv'
  <2>1. UNCHANGED pc /\ Answer(r, {}) /\ req[r].at \notin Creates
    BY <1>10 DEF CreateAPIKey, Creates, vars
  <2> QED  BY <1>idle, <1>none, <2>1
<1>11. CASE (OperatorCreates /\ UNCHANGED apiVars) \/ Tick
  BY <1>11, <1>req DEF OperatorCreates, apiVars, Tick, vars
<1>12. ASSUME NEW k, OperatorWrites(k) \/ ExpireSecret(k)
       PROVE  RightsInv'
  BY <1>12, <1>req DEF OperatorWrites, ExpireSecret, vars
<1>scope. ASSUME NEW name, NEW list, ScopeSecret(name, list)
          PROVE  RightsInv'
  BY <1>scope, <1>req DEF ScopeSecret, vars
<1>13. ASSUME NEW r \in Requests, Handle(r)
       PROVE  RightsInv'
  BY <1>3, <1>4, <1>5, <1>6, <1>7, <1>8, <1>9, <1>10, <1>13 DEF Handle
<1> QED  BY <1>1, <1>2, <1>11, <1>12, <1>scope, <1>13 DEF APINext

\* All that the theorems about rights rest on, in every reachable state.
LEMMA RightsInvariance ==
    ASSUME Authenticating
    PROVE  APISpec => [](APITypeOK /\ KeysInv /\ RightsInv)
<1>1. APIInit => KeysInv /\ RightsInv
  <2> SUFFICES ASSUME APIInit
               PROVE  KeysInv /\ RightsInv
    OBVIOUS
  <2>1. DOMAIN issued = {}
    BY DEF APIInit
  <2>2. KeysInv
    BY <2>1 DEF APIInit, KeysInv, KeyOK, IssuedOK, NoKey
  <2>3. "new" \notin DOMAIN Endpoints
    BY Operations DEF Creates, OnOther
  <2>4. RightsInv
    BY <2>3 DEF APIInit, Init, RightsInv, Rights, NewRequest
  <2> QED  BY <2>2, <2>4
<1>2. KeysInv /\ RightsInv /\ IInv /\ APITypeOK /\ PatchInv /\ [APINext]_allVars
        => KeysInv' /\ RightsInv'
  <2> SUFFICES ASSUME KeysInv, RightsInv, IInv, APITypeOK, PatchInv, [APINext]_allVars
               PROVE  KeysInv' /\ RightsInv'
    OBVIOUS
  <2>1. CASE APINext
    BY <2>1, KeysInvStep, RightsStep DEF IInv
  <2>2. CASE UNCHANGED allVars
    BY <2>2 DEF allVars, vars, apiVars, KeysInv, KeyOK, IssuedOK, FromSecret, User,
                AllowsNamespace, ClusterWide, RightsInv, Rights, Served
  <2> QED  BY <2>1, <2>2
<1> QED  BY <1>1, <1>2, APIInvariance, TenantInvariance, PTL DEF APISpec

\* No request touches anything outside of the namespaces that its credential
\* stands for, and none is served that its role may not make, however keys are
\* created with keys, deleted, expired and scoped beside, and although a list
\* of namespaces is joined, parsed and trimmed on its way through the Secret:
\* the middleware's guards, the lists' filter, CreateAPIKey, toSecret and
\* fromSecret together.  A list without any pattern stands for the whole
\* cluster (see Asked).  Whoever is authenticated by "none" is an
\* administrator, so the chain must not hold it, nor be empty.
THEOREM WithinRightsHolds ==
    ASSUME Authenticating
    PROVE  APISpec => []WithinRights
<1>1. RightsInv => WithinRights
  <2> SUFFICES ASSUME RightsInv, NEW r \in Requests
               PROVE  /\ Touched(r) \subseteq req[r].reach
                      /\ req[r].at \in DOMAIN Endpoints => OpenTo(req[r].at, req[r].user.role)
    BY DEF WithinRights
  <2>1. Creates \subseteq DOMAIN Endpoints
    BY Operations
  <2> QED  BY <2>1 DEF RightsInv, Rights, Served, Touched
<1> QED  BY <1>1, RightsInvariance, PTL

-----------------------------------------------------------------------------
(* API keys *)

\* AUTH_MODE has the provider of API keys.
TakesKeys == \E i \in Chain : Modes[i] = "apikey"

LEMMA Least ==
    ASSUME NEW T, T \subseteq Nat, T # {}
    PROVE  \E x \in T : \A y \in T : x =< y
<1>1. IsWellFoundedOn(OpToRel(<, Nat), Nat)
  BY NatLessThanWellFounded
<1>2. PICK x \in T : \A y \in T : ~(<<y, x>> \in OpToRel(<, Nat))
  BY <1>1, WFMin
<1>3. \A y \in T : ~(y < x)
  BY <1>2 DEF OpToRel
<1> QED  BY <1>3

\* A key's value is accepted exactly when GetKey finds it, wherever in the
\* chain its provider is.
LEMMA KeyFound ==
    ASSUME Authenticating, TakesKeys, NEW v
    PROVE  Authenticate(Credential("apikey", v)) = {} <=> GetKey(v) = {}
<1> DEFINE cred == Credential("apikey", v)
           Found == {FromSecret(keys[n]) : n \in GetKey(v)}
<1>0. cred.kind = "apikey" /\ cred.value = v
  BY DEF Credential
<1> HIDE DEF cred
<1>1. Chain # {} /\ \A i \in Chain : Modes[i] \in {"basic", "oidc", "apikey"}
  BY ControlPlaneAssumption DEF Authenticating, Chain
<1>2. UsersOf("basic", cred) = {} /\ UsersOf("oidc", cred) = {}
  BY <1>0 DEF UsersOf, BasicUsers, OIDCUsers
<1>3. UsersOf("apikey", cred) = Found
  BY <1>0 DEF UsersOf, APIKeyUsers
<1>4. ASSUME GetKey(v) = {}
      PROVE  Authenticate(cred) = {}
  <2>1. Found = {}
    BY <1>4
  <2> HIDE DEF Found
  <2>2. \A i \in Chain : UsersOf(Modes[i], cred) = {}
    BY <1>1, <1>2, <1>3, <2>1
  <2> QED  BY <1>1, <2>2 DEF Authenticate
<1>5. ASSUME GetKey(v) # {}
      PROVE  Authenticate(cred) # {}
  <2>1. Found # {}
    BY <1>5
  <2> HIDE DEF Found
  <2> DEFINE T == {i \in Chain : Modes[i] = "apikey"}
  <2>2. T # {} /\ T \subseteq Nat /\ Chain \subseteq Nat
    BY ControlPlaneAssumption DEF TakesKeys, Chain
  <2>3. PICK i \in T : \A j \in T : i =< j
    BY <2>2, Least
  <2>4. i \in Chain /\ i \in Nat /\ UsersOf(Modes[i], cred) = Found
    BY <1>3, <2>2
  <2>5. ASSUME NEW j \in Chain, j < i
        PROVE  UsersOf(Modes[j], cred) = {}
    <3>1. j \notin T
      BY <2>2, <2>3, <2>4, <2>5
    <3> QED  BY <1>1, <1>2, <2>5, <3>1
  <2>6. PICK user : user \in UsersOf(Modes[i], cred)
    BY <2>1, <2>4
  <2>7. user \in Authenticate(cred)
    BY <1>1, <2>4, <2>5, <2>6 DEF Authenticate
  <2> QED  BY <2>7
<1> QED  BY <1>4, <1>5 DEF cred

\* GetKey finds what is alive.
LEMMA FoundAlive ==
    ASSUME KeysOK, KeysInv, NEW v \in DOMAIN issued
    PROVE  GetKey(v) # {} <=> issued[v].live /\ issued[v].expires \notin 1..(now - 1)
<1>0. v # 0 /\ now \in Nat
  BY DEF KeysOK
<1>1. ASSUME NEW n \in KeyNames, keys[n].value = v
      PROVE  /\ issued[v].live
             /\ Expired(keys[n]) <=> issued[v].expires \in 1..(now - 1)
  <2>1. issued[v].live /\ issued[v].expires = keys[n].expires
    BY <1>0, <1>1 DEF KeysInv, KeyOK
  <2>2. keys[n].expires \in Nat
    BY DEF KeysOK, KeyRecords
  <2> QED  BY <1>0, <2>1, <2>2 DEF Expired
<1>2. ASSUME GetKey(v) # {}
      PROVE  issued[v].live /\ issued[v].expires \notin 1..(now - 1)
  <2>1. PICK n \in KeyNames : keys[n].value = v /\ ~Expired(keys[n])
    BY <1>2 DEF GetKey
  <2> QED  BY <1>1, <2>1
<1>3. ASSUME issued[v].live, issued[v].expires \notin 1..(now - 1)
      PROVE  GetKey(v) # {}
  <2>1. PICK n \in KeyNames : keys[n].value = v
    BY <1>3 DEF KeysInv, IssuedOK
  <2>2. ~Expired(keys[n])
    BY <1>1, <1>3, <2>1
  <2> QED  BY <2>1, <2>2 DEF GetKey
<1> QED  BY <1>2, <1>3

\* A request has the value of its credential, and is unauthorized exactly if
\* nobody accepts that.
LEMMA ArrivedWith ==
    ASSUME RequestsOK, NEW r \in Requests, NEW op \in Ops, NEW cred, Arrive(r, op, cred)
    PROVE  /\ req'[r].key = cred.value
           /\ req'[r].at = "unauthorized" <=> Authenticate(cred) = {}
           /\ \A q \in Requests \ {r} : req'[q] = req[q]
<1>0. op # "unauthorized"
  BY OpsAssumption, Operations DEF Creates, OnOther
<1>1. req[r] \in RequestRecords
  BY DEF RequestsOK
<1>2. CASE Authenticate(cred) = {}
  BY <1>1, <1>2 DEF Arrive, RequestsOK, RequestRecords
<1>3. ASSUME NEW user \in Authenticate(cred),
             req' = [req EXCEPT ![r] = [@ EXCEPT !.at = op, !.user = user, !.key = cred.value,
                                                 !.reach = Reach(cred)]]
      PROVE  /\ req'[r].key = cred.value /\ req'[r].at = op
             /\ \A q \in Requests \ {r} : req'[q] = req[q]
  BY <1>1, <1>3 DEF RequestsOK, RequestRecords
<1>4. ASSUME req' = [req EXCEPT ![r].at = "forbidden", ![r].key = cred.value]
      PROVE  /\ req'[r].key = cred.value /\ req'[r].at = "forbidden"
             /\ \A q \in Requests \ {r} : req'[q] = req[q]
  BY <1>1, <1>4 DEF RequestsOK, RequestRecords
<1>5. CASE Authenticate(cred) # {}
  BY <1>0, <1>3, <1>4, <1>5 DEF Arrive
<1> QED  BY <1>2, <1>5

\* No other step gives a request a key.
LEMMA KeyOnArrivalOnly ==
    ASSUME RequestsOK, NEW q \in Requests, Handle(q) \/ LookupFails(q), NEW r \in Requests
    PROVE  req'[r].key \in {req[r].key, 0}
<1>0. {Other} \in SUBSET Namespaces /\ {} \in SUBSET Namespaces
      /\ Visible(q) \in SUBSET Namespaces
  BY DEF Namespaces, Visible
<1>1. ASSUME NEW t \in SUBSET Namespaces, Answer(q, t)
      PROVE  req'[r].key \in {req[r].key, 0}
  BY <1>1, Answered
<1>2. CASE Create(q)
  BY <1>2 DEF Create, apiVars
<1>3. CASE Reject(q) \/ WritePatch(q) \/ Delete(q)
  BY <1>0, <1>1, <1>3 DEF Reject, WritePatch, Delete
<1>4. CASE CreateNamed(q) \/ Get(q) \/ List(q) \/ ReadShared(q) \/ HandlerFails(q)
  BY <1>0, <1>1, <1>4 DEF CreateNamed, Get, List, ReadShared, HandlerFails
<1>5. ASSUME NEW name \in KeyNames, DeleteAPIKey(q, name)
      PROVE  req'[r].key \in {req[r].key, 0}
  BY <1>0, <1>1, <1>5 DEF DeleteAPIKey
<1>6. ASSUME NEW name \in KeyNames, NEW w \in KeyWishes,
             CreateAPIKey(q, name, w[1], w[2], w[3])
      PROVE  req'[r].key \in {req[r].key, 0}
  BY <1>0, <1>1, <1>6 DEF CreateAPIKey
<1>7. CASE ReadForPatch(q)
  <2>1. CASE obj[Kind(q)].there
    BY <1>7, <2>1 DEF ReadForPatch, RequestsOK, RequestRecords
  <2>2. CASE ~obj[Kind(q)].there
    BY <1>0, <1>1, <1>7, <2>2 DEF ReadForPatch
  <2> QED  BY <2>1, <2>2
<1>8. CASE LookupFails(q)
  BY <1>8 DEF LookupFails, RequestsOK, RequestRecords
<1> QED  BY <1>2, <1>3, <1>4, <1>5, <1>6, <1>7, <1>8 DEF Handle

\* An API key works exactly from its creation to its deletion or expiry, for
\* any number of keys and requests, whatever Secrets have borne its name and
\* wherever in the chain the provider is: GetKey and Chain.Authenticate.
THEOREM AcceptedWhileAliveHolds ==
    ASSUME Authenticating, TakesKeys
    PROVE  APISpec => AcceptedWhileAlive
<1>1. ASSUME APITypeOK, KeysInv, RightsInv, [APINext]_allVars, NEW r \in Requests,
             req[r].at = "new", req'[r].key # 0
      PROVE  (req'[r].at # "unauthorized")
               <=> issued[req'[r].key].live /\ issued[req'[r].key].expires \notin 1..(now - 1)
  <2>0. req[r].key = 0 /\ req'[r].key # req[r].key
    BY <1>1 DEF RightsInv, Rights
  <2>1. APINext
    BY <1>1, <2>0 DEF allVars, apiVars
  <2>2. PICK op \in Ops, cred \in Credentials : Arrive(r, op, cred)
    <3>1. \E q \in Requests : \/ \E op \in Ops, cred \in Credentials : Arrive(q, op, cred)
                              \/ LookupFails(q)
                              \/ Handle(q)
      BY <2>0, <2>1 DEF APINext, apiVars, Tick, OperatorWrites, ExpireSecret, ScopeSecret
    <3>2. PICK q \in Requests : \/ \E op \in Ops, cred \in Credentials : Arrive(q, op, cred)
                                \/ LookupFails(q)
                                \/ Handle(q)
      BY <3>1
    <3>3. PICK op \in Ops, cred \in Credentials : Arrive(q, op, cred)
      BY <1>1, <2>0, <3>2, KeyOnArrivalOnly DEF APITypeOK
    <3>4. q = r
      BY <1>1, <2>0, <3>3, ArrivedWith DEF APITypeOK
    <3> QED  BY <3>3, <3>4
  <2>3. req'[r].key = cred.value /\ (req'[r].at = "unauthorized" <=> Authenticate(cred) = {})
    BY <1>1, <2>2, ArrivedWith DEF APITypeOK
  <2>4. PICK v \in DOMAIN issued : cred = Credential("apikey", v)
    BY <1>1, <2>3 DEF Credentials, Credential
  <2>5. cred.value = v
    BY <2>4 DEF Credential
  <2>6. Authenticate(cred) = {} <=> GetKey(v) = {}
    BY <2>4, KeyFound
  <2>7. GetKey(v) # {} <=> issued[v].live /\ issued[v].expires \notin 1..(now - 1)
    BY <1>1, FoundAlive DEF APITypeOK
  <2> QED  BY <2>3, <2>5, <2>6, <2>7
<1>2. APITypeOK /\ KeysInv /\ RightsInv /\ [APINext]_allVars
        => [\A r \in Requests :
              req[r].at = "new" /\ req'[r].key # 0
                => LET key == issued[req'[r].key]
                   IN  (req'[r].at # "unauthorized")
                         <=> key.live /\ key.expires \notin 1..(now - 1)]_allVars
  BY <1>1
<1> QED  BY <1>2, RightsInvariance, PTL DEF APISpec, AcceptedWhileAlive
=============================================================================
