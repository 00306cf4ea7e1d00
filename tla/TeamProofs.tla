----------------------------- MODULE TeamProofs -----------------------------
(***************************************************************************)
(* What holds of a theater's staff for any people and roles and any number *)
(* of requests at once, each dying wherever it likes.                      *)
(*                                                                         *)
(* A request remembers: the role of its actor, the membership it aims at,  *)
(* and that it found a second owner, or none to lose.  The invariant says  *)
(* what each memory is worth as long as nobody wrote in between; every     *)
(* write that makes one worthless is what raced and stale record.          *)
(***************************************************************************)
EXTENDS Team, TLAPS, FiniteSetTheorems

(* What a request remembers of the memberships it read. *)
Acting(r) == r.step \in {"target", "count", "counted", "write"}
Aiming(r) == r.step \in {"count", "counted", "write"}
Adding(r) == r.step \in {"member", "mail"}

(* A request that counted owners still has one to leave behind, and one    *)
(* that did not need to count aims at a membership that is no owner's.     *)
CountsGood ==
    ~raced /\ ~shell =>
      /\ Owners # {}
      /\ \A s \in Slot : At(s, "counted") => \E q \in Owners : q # req[s].target

AimGood(s) ==
    /\ Aiming(req[s]) => req[s].id <= id[req[s].target]
    /\ At(s, "write") /\ ~raced /\ id[req[s].target] = req[s].id => role[req[s].target] # "owner"

AimsGood == \A s \in Slot : AimGood(s)

(* A User without a password and without a link has a creator on the way to *)
(* the mail, or one that failed, whether or not the membership is there yet; *)
(* and nobody is added before they have a User.                             *)
InvitesGood ==
    /\ \A p \in Person : account[p] = "invited" /\ link[p] = "none" =>
          p \in failed \/ \E s \in Slot : Invites(req[s], p)
    /\ \A s \in Slot : Adding(req[s]) => account[req[s].target] # "none"

(* An actor whose membership nobody touched still has the role the request  *)
(* read and is not the target; what the request read of the target allowed  *)
(* what it is about to do, and a target that became an owner since is stale. *)
AuthorityOf(s) ==
    /\ Acting(req[s]) /\ "actor" \notin stale[s] =>
         /\ role[req[s].actor] = req[s].role
         /\ At(s, "target") => id[req[s].actor] = req[s].id
         /\ Aiming(req[s]) => req[s].actor # req[s].target
    /\ Aiming(req[s]) /\ req[s].new = "owner" => req[s].role = "owner"
    /\ Aiming(req[s]) /\ req[s].step # "write" => req[s].role = "owner"
    /\ At(s, "write") /\ role[req[s].target] = "owner" =>
         \/ req[s].role = "owner" \/ "target" \in stale[s]
         \/ req[s].id # id[req[s].target]

AuthorityGood == \A s \in Slot : AuthorityOf(s)

(* The inductive invariant. *)
IInv == TypeOK /\ CountsGood /\ AimsGood /\ InvitesGood /\ AuthorityGood

-----------------------------------------------------------------------------
(* What a request's step says of its other fields. *)
LEMMA RequestFields ==
  ASSUME NEW r \in RequestState
  PROVE  /\ r.step \in {"idle", "target", "count", "counted", "write", "user", "member", "mail"}
         /\ r.step = "idle" => r = Idle
         /\ Acting(r) => r.actor \in Person /\ r.role \in ManagerUp /\ r.id \in Nat
         /\ Aiming(r) => r.target \in Person /\ r.new \in Role \cup {"none"}
         /\ r.step \in {"user", "member", "mail"} =>
              r.target \in Person /\ r.new \in Role /\ r.created \in BOOLEAN
         /\ r.step = "count" => [r EXCEPT !.step = "counted"] \in RequestState
         /\ r.step = "user" => [r EXCEPT !.step = "member", !.created = TRUE] \in RequestState
         /\ r.step = "member" => [r EXCEPT !.step = "mail"] \in RequestState
<1> DEFINE Loads  == [step : {"target"}, actor : Person, role : ManagerUp, id : Nat]
           Aims   == [step : {"count", "counted", "write"}, actor : Person, role : ManagerUp,
                      target : Person, id : Nat, new : Role \cup {"none"}]
           Adds   == [step : {"user", "member", "mail"}, target : Person, new : Role,
                      created : BOOLEAN]
<1>1. RequestState = {Idle} \cup Loads \cup Aims \cup Adds
  BY DEF RequestState
<1>2. CASE r = Idle
  BY <1>2 DEF Idle, Acting, Aiming
<1>3. CASE r \in Loads
  BY <1>3 DEF Acting, Aiming
<1>4. CASE r \in Aims
  <2>1. r.step \in {"count", "counted", "write"} /\ [r EXCEPT !.step = "counted"] \in Aims
    BY <1>4
  <2> QED
    BY <1>1, <1>4, <2>1 DEF Acting, Aiming
<1>5. CASE r \in Adds
  <2>1. /\ r.step \in {"user", "member", "mail"}
        /\ [r EXCEPT !.step = "mail"] \in Adds
        /\ [r EXCEPT !.step = "member", !.created = TRUE] \in Adds
    BY <1>5
  <2> QED
    BY <1>1, <1>5, <2>1 DEF Acting, Aiming
<1> QED
  BY <1>1, <1>2, <1>3, <1>4, <1>5

LEMMA IdleIsRequest == Idle \in RequestState /\ Idle.step = "idle"
  BY DEF RequestState, Idle

(* The founder owns the theater and no request is being served. *)
LEMMA InitInv == ASSUME Init PROVE IInv
<1>1. TypeOK
  BY FounderIsAPerson, SomeRoles, IdleIsRequest DEF Init, TypeOK
<1>2. \A s \in Slot : req[s].step = "idle"
  BY IdleIsRequest DEF Init
<1>3. CountsGood /\ AimsGood
  BY <1>2, FounderIsAPerson DEF Init, CountsGood, AimsGood, AimGood, Owners, At, Aiming
<1>4. InvitesGood /\ AuthorityGood
  BY <1>2 DEF Init, InvitesGood, AuthorityGood, AuthorityOf, Adding, Acting, Aiming, At
<1> QED
  BY <1>1, <1>3, <1>4 DEF IInv

(* A step that leaves the tables alone keeps the invariant if the request   *)
(* it changes is still right, and whoever it would have mailed is on record. *)
LEMMA TablesKept ==
  ASSUME IInv, NEW s \in Slot, NEW r \in RequestState,
         req' = [req EXCEPT ![s] = r],
         UNCHANGED <<role, id, account, link, raced, shell>>,
         failed \subseteq failed', failed' \subseteq Person,
         \/ stale' = stale
         \/ stale' = [stale EXCEPT ![s] = {}] /\ ~Acting(r),
         \A p \in Person : Invites(req[s], p) => Invites(r, p) \/ p \in failed',
         r.step = "counted" /\ ~raced /\ ~shell => \E q \in Owners : q # r.target,
         Aiming(r) => r.id <= id[r.target],
         r.step = "write" => id[r.target] = r.id /\ role[r.target] # "owner",
         Adding(r) => account[r.target] # "none",
         Aiming(r) => /\ r.new = "owner" => r.role = "owner"
                      /\ r.step # "write" => r.role = "owner",
         Acting(r) /\ "actor" \notin stale[s] =>
            /\ role[r.actor] = r.role
            /\ r.step = "target" => id[r.actor] = r.id
            /\ Aiming(r) => r.actor # r.target
  PROVE  IInv'
<1>1. /\ \A t \in Slot : req'[t] = IF t = s THEN r ELSE req[t]
      /\ stale' \in [Slot -> SUBSET {"actor", "target"}]
      /\ \A t \in Slot : stale'[t] = stale[t] \/ ~Acting(req'[t])
  BY DEF IInv, TypeOK
<1>2. TypeOK'
  BY <1>1 DEF IInv, TypeOK
<1>3. CountsGood'
  BY <1>1 DEF IInv, CountsGood, Owners, At
<1>4. AimsGood'
  BY <1>1 DEF IInv, AimsGood, AimGood, At
<1>5. InvitesGood'
  <2>1. ASSUME NEW p \in Person, account'[p] = "invited", link'[p] = "none"
        PROVE  p \in failed' \/ \E t \in Slot : Invites(req'[t], p)
    <3>1. p \in failed \/ \E t \in Slot : Invites(req[t], p)
      BY <2>1 DEF IInv, InvitesGood
    <3>2. \A t \in Slot : Invites(req[t], p) => p \in failed' \/ Invites(req'[t], p)
      BY <1>1
    <3> QED
      BY <3>1, <3>2
  <2>2. \A t \in Slot : Adding(req'[t]) => account'[req'[t].target] # "none"
    BY <1>1 DEF IInv, InvitesGood
  <2> QED
    BY <2>1, <2>2 DEF InvitesGood
<1>6. AuthorityGood'
  <2> SUFFICES ASSUME NEW t \in Slot
               PROVE  /\ Acting(req'[t]) /\ "actor" \notin stale'[t] =>
                           /\ role'[req'[t].actor] = req'[t].role
                           /\ req'[t].step = "target" => id'[req'[t].actor] = req'[t].id
                           /\ Aiming(req'[t]) => req'[t].actor # req'[t].target
                      /\ Aiming(req'[t]) /\ req'[t].new = "owner" => req'[t].role = "owner"
                      /\ Aiming(req'[t]) /\ req'[t].step # "write" => req'[t].role = "owner"
                      /\ req'[t].step = "write" /\ role'[req'[t].target] = "owner" =>
                           \/ req'[t].role = "owner" \/ "target" \in stale'[t]
                           \/ req'[t].id # id'[req'[t].target]
    BY DEF AuthorityGood, AuthorityOf, At
  <2>1. CASE t = s
    BY <1>1, <2>1
  <2>2. CASE t # s
    <3>1. req'[t] = req[t] /\ (Acting(req[t]) => stale'[t] = stale[t])
      BY <1>1, <2>2
    <3> QED
      BY <3>1 DEF IInv, AuthorityGood, AuthorityOf, At, Acting
  <2> QED
    BY <2>1, <2>2
<1> QED
  BY <1>2, <1>3, <1>4, <1>5, <1>6 DEF IInv

(* manager_required *)
LEMMA EnterStep == ASSUME IInv, NEW s \in Slot, NEW p \in Person, Enter(s, p) PROVE IInv'
<1> DEFINE r == [step |-> "target", actor |-> p, role |-> role[p], id |-> id[p]]
<1>1. r \in RequestState
  BY DEF Enter, IInv, TypeOK, RequestState
<1>2. req' = [req EXCEPT ![s] = r] /\ UNCHANGED <<role, id, account, link, history>>
  BY DEF Enter
<1>3. \A q \in Person : ~Invites(req[s], q)
  BY DEF Enter, At, Invites
<1>4. failed \subseteq Person
  BY DEF IInv, TypeOK
<1> QED
  BY <1>1, <1>2, <1>3, <1>4, TablesKept DEF history, Adding, Acting, Aiming

(* The target is loaded: whether it is an owner decides the next step. *)
LEMMA LoadStep ==
  ASSUME IInv, NEW s \in Slot, NEW p \in Person, NEW new \in Role \cup {"none"}, Load(s, p, new)
  PROVE  IInv'
<1> DEFINE r == [step   |-> IF role[p] = "owner" THEN "count" ELSE "write",
                 actor  |-> req[s].actor, role |-> req[s].role,
                 target |-> p, id |-> id[p], new |-> new]
<1>1. req[s] \in RequestState /\ req[s].step = "target"
  BY DEF IInv, TypeOK, Load, At
<1>2. req[s].actor \in Person /\ req[s].role \in ManagerUp
  BY <1>1, RequestFields DEF Acting
<1>3. r.step \in {"count", "write"} /\ id[p] \in Nat
  BY DEF IInv, TypeOK
<1>4. r \in RequestState
  BY <1>2, <1>3 DEF RequestState
<1>5. "actor" \notin stale[s] => role[req[s].actor] = req[s].role /\ id[req[s].actor] = req[s].id
  BY <1>1 DEF IInv, AuthorityGood, AuthorityOf, Acting, At
<1>6. /\ "actor" \notin stale[s] => req[s].actor # p
      /\ role[p] = "owner" \/ new = "owner" => req[s].role = "owner"
  BY <1>5 DEF Load, MayTouch
<1>7. /\ r.id <= id[r.target]
      /\ r.step = "write" => id[r.target] = r.id /\ role[r.target] # "owner"
      /\ r.step # "counted" /\ r.step # "target" /\ ~Adding(r)
  BY <1>3 DEF Adding
<1>8. /\ r.new = "owner" => r.role = "owner"
      /\ r.step # "write" => r.role = "owner"
  BY <1>6
<1>9. "actor" \notin stale[s] => role[r.actor] = r.role /\ r.actor # r.target
  BY <1>5, <1>6
<1>10. req' = [req EXCEPT ![s] = r] /\ UNCHANGED <<role, id, account, link, history>>
  BY DEF Load
<1>11. \A q \in Person : ~Invites(req[s], q)
  BY <1>1 DEF Invites
<1>12. failed \subseteq Person
  BY DEF IInv, TypeOK
<1> HIDE DEF r
<1> QED
  BY <1>4, <1>7, <1>8, <1>9, <1>10, <1>11, <1>12, TablesKept DEF history

(* There are two owners, so there is one beside the target. *)
LEMMA CountOwnersStep == ASSUME IInv, NEW s \in Slot, CountOwners(s) PROVE IInv'
<1> DEFINE r == [req[s] EXCEPT !.step = "counted"]
<1>1. req[s] \in RequestState /\ req[s].step = "count"
  BY DEF IInv, TypeOK, CountOwners, At
<1>2. r \in RequestState /\ req[s].target \in Person
  BY <1>1, RequestFields DEF Aiming
<1>3. /\ r.step = "counted" /\ r.target = req[s].target /\ r.actor = req[s].actor
      /\ r.role = req[s].role /\ r.new = req[s].new
  BY <1>1 DEF RequestState, Idle
<1>4. \E q \in Owners : q # req[s].target
  <2>1. Owners \subseteq {req[s].target} => Cardinality(Owners) <= 1
    <3>1. Cardinality({}) = 0 /\ Cardinality({req[s].target}) = 1
      BY FS_EmptySet, FS_Singleton
    <3> QED
      BY <3>1, FS_Subset, FS_Singleton
  <2>2. Cardinality(Owners) \in Nat
    BY TeamBounds, FS_Subset, FS_CardinalityType DEF Owners
  <2> QED
    BY <2>1, <2>2 DEF CountOwners
<1>5. /\ "actor" \notin stale[s] => role[r.actor] = r.role /\ r.actor # r.target
      /\ r.role = "owner" /\ r.id <= id[r.target]
  <2>1. r.id = req[s].id
    BY <1>1 DEF RequestState, Idle
  <2> QED
    BY <1>1, <1>3, <2>1 DEF IInv, AuthorityGood, AuthorityOf, AimsGood, AimGood, Acting, Aiming
<1>6. req' = [req EXCEPT ![s] = r] /\ UNCHANGED <<role, id, account, link, history>>
  BY DEF CountOwners
<1>7. \A q \in Person : ~Invites(req[s], q)
  BY <1>1 DEF Invites
<1>8. failed \subseteq Person
  BY DEF IInv, TypeOK
<1> HIDE DEF r
<1> QED
  BY <1>2, <1>3, <1>4, <1>5, <1>6, <1>7, <1>8, TablesKept DEF history, Adding

(* team_add reads: no User, or no membership. *)
LEMMA AddFindStep ==
  ASSUME IInv, NEW s \in Slot, NEW p \in Person, NEW new \in Role, AddFind(s, p, new) PROVE IInv'
<1> DEFINE r == [step |-> IF account[p] = "none" THEN "user" ELSE "member",
                 target |-> p, new |-> new, created |-> FALSE]
<1>1. r \in RequestState /\ r.step \in {"user", "member"}
  BY DEF RequestState
<1>2. /\ req' = [req EXCEPT ![s] = r] /\ stale' = [stale EXCEPT ![s] = {}]
      /\ UNCHANGED <<role, id, account, link, failed, raced, shell>>
  BY DEF AddFind, Forgets
<1>3. \A q \in Person : ~Invites(req[s], q)
  BY DEF AddFind, At, Invites
<1>4. failed \subseteq Person
  BY DEF IInv, TypeOK
<1> QED
  BY <1>1, <1>2, <1>3, <1>4, TablesKept DEF Adding, Acting, Aiming

(* A request ends where it is; whoever it had made a User for is on record. *)
LEMMA DiesStep == ASSUME IInv, NEW s \in Slot, Dies(s) PROVE IInv'
<1>1. /\ req' = [req EXCEPT ![s] = Idle] /\ stale' = [stale EXCEPT ![s] = {}]
      /\ failed' = failed \cup {p \in Person : Invites(req[s], p)}
      /\ UNCHANGED <<role, id, account, link, raced, shell>>
  BY DEF Dies, Ends, Forgets
<1>2. failed \subseteq failed' /\ failed' \subseteq Person
  BY <1>1 DEF IInv, TypeOK
<1>3. \A p \in Person : Invites(req[s], p) => p \in failed'
  BY <1>1
<1> QED
  BY <1>1, <1>2, <1>3, TablesKept, IdleIsRequest DEF Adding, Acting, Aiming

-----------------------------------------------------------------------------
(* Steps that write a table *)

(* What a change of p's membership leaves true of another request's memory. *)
LEMMA Remembered ==
  ASSUME IInv, NEW p \in Person, NEW new \in Role \cup {"none"}, NEW done \in SUBSET Slot,
         Changes(p, new, done),
         \A q \in Person : id'[q] = IF q = p /\ role[p] = "none" THEN id[q] + 1 ELSE id[q],
         NEW t \in Slot \ done, req'[t] = req[t]
  PROVE  AimGood(t)' /\ AuthorityOf(t)'
<1> DEFINE r == req[t]
<1>1. /\ req'[t] = r /\ r \in RequestState
      /\ \A q \in Person : role'[q] = IF q = p THEN new ELSE role[q]
      /\ \A q \in Person : id[q] \in Nat
  BY DEF Changes, IInv, TypeOK
<1>2. /\ stale'[t] = IF role[p] = new THEN stale[t] ELSE stale[t] \cup Outdated(r, p, new)
      /\ role[p] # new /\ Spoils(r, p, new) => raced'
      /\ raced => raced'
  BY DEF Changes, IInv, TypeOK
<1>3. /\ Acting(r) => r.actor \in Person /\ r.role \in ManagerUp /\ r.id \in Nat
      /\ Aiming(r) => r.target \in Person
  BY <1>1, RequestFields
<1>4. Aiming(r) => Acting(r) /\ r.id <= id[r.target]
  BY DEF IInv, AimsGood, AimGood, Aiming, Acting
<1>5. Aiming(r) => r.id <= id'[r.target]
  BY <1>1, <1>3, <1>4
<1>6. ASSUME r.step = "write", ~raced', id'[r.target] = r.id, role'[r.target] = "owner"
      PROVE  FALSE
  <2>1. Aiming(r) /\ r.target \in Person /\ r.id \in Nat /\ r.id <= id[r.target]
    BY <1>6, <1>3, <1>4 DEF Aiming
  <2>2. id[r.target] = r.id => role[r.target] # "owner"
    BY <1>2, <1>6 DEF IInv, AimsGood, AimGood, At
  <2>3. r.target = p /\ new = "owner" /\ role[p] # new
    BY <1>1, <1>6, <2>1, <2>2, SomeRoles
  <2> QED
    BY <1>2, <1>6, <2>3 DEF Spoils
<1>7. ASSUME Acting(r), "actor" \notin stale'[t]
      PROVE  /\ role'[r.actor] = r.role
             /\ r.step = "target" => id'[r.actor] = r.id
             /\ Aiming(r) => r.actor # r.target
  <2>1. /\ "actor" \notin stale[t]
        /\ role[p] # new => r.actor # p
    BY <1>2, <1>7 DEF Outdated, Acting
  <2>2. /\ role[r.actor] = r.role
        /\ r.step = "target" => id[r.actor] = r.id
        /\ Aiming(r) => r.actor # r.target
    BY <1>7, <2>1 DEF IInv, AuthorityGood, AuthorityOf, At
  <2>3. r.role # "none"
    BY <1>3, <1>7, SomeRoles DEF ManagerUp
  <2> QED
    BY <1>1, <1>3, <1>7, <2>1, <2>2, <2>3
<1>8. /\ Aiming(r) /\ r.new = "owner" => r.role = "owner"
      /\ Aiming(r) /\ r.step # "write" => r.role = "owner"
  BY DEF IInv, AuthorityGood, AuthorityOf
<1>9. ASSUME r.step = "write", role'[r.target] = "owner", r.role # "owner", "target" \notin stale'[t]
      PROVE  r.id # id'[r.target]
  <2>1. r.target \in Person /\ r.id \in Nat /\ r.id <= id[r.target]
    BY <1>9, <1>3, <1>4 DEF Aiming, Acting
  <2>2. CASE role[p] = new
    <3>1. role[r.target] = "owner" /\ "target" \notin stale[t]
      BY <1>1, <1>2, <1>9, <2>1, <2>2
    <3>2. r.id # id[r.target]
      BY <1>9, <3>1 DEF IInv, AuthorityGood, AuthorityOf, At
    <3> QED
      BY <1>1, <2>1, <3>2
  <2>3. CASE role[p] # new
    <3>1. "target" \notin stale[t] /\ ~(r.target = p /\ new = "owner")
      BY <1>2, <1>9, <2>3 DEF Outdated
    <3>2. r.target # p /\ role[r.target] = "owner"
      BY <1>1, <1>9, <2>1, <3>1
    <3>3. r.id # id[r.target]
      BY <1>9, <3>1, <3>2 DEF IInv, AuthorityGood, AuthorityOf, At
    <3> QED
      BY <1>1, <2>1, <3>2, <3>3
  <2> QED
    BY <2>2, <2>3
<1> QED
  BY <1>1, <1>5, <1>6, <1>7, <1>8, <1>9 DEF At, AimGood, AuthorityOf

(* save or delete of a membership that is still the one that was loaded. *)
LEMMA WriteStep == ASSUME IInv, NEW s \in Slot, Write(s) PROVE IInv'
<1> DEFINE p   == req[s].target
           new == req[s].new
<1>1. req[s] \in RequestState /\ req[s].step \in {"counted", "write"}
  BY DEF IInv, TypeOK, Write
<1>2. p \in Person /\ new \in Role \cup {"none"} /\ req[s].actor \in Person
  BY <1>1, RequestFields DEF Acting, Aiming
<1>3. /\ role[p] # "none" /\ id[p] = req[s].id
      /\ role' = [role EXCEPT ![p] = new]
      /\ Changes(p, new, {s})
      /\ raced' = (raced \/ \E t \in (IF role[p] = new THEN {} ELSE Slot \ {s}) : Spoils(req[t], p, new))
      /\ req' = [req EXCEPT ![s] = Idle]
      /\ UNCHANGED <<id, account, link, failed, shell>>
  BY DEF Write, Changes, Ends
<1>4. \A t \in Slot : req'[t] = IF t = s THEN Idle ELSE req[t]
  BY <1>3 DEF IInv, TypeOK
<1>5. \A q \in Person : role'[q] = IF q = p THEN new ELSE role[q]
  BY <1>2, <1>3 DEF IInv, TypeOK
<1>6. TypeOK'
  <2>1. stale' \in [Slot -> SUBSET {"actor", "target"}] /\ raced' \in BOOLEAN
    BY <1>3 DEF Changes, Outdated, IInv, TypeOK
  <2> QED
    BY <1>2, <1>3, <1>5, <2>1, IdleIsRequest DEF IInv, TypeOK
<1>7. CountsGood'
  <2> SUFFICES ASSUME ~raced', ~shell'
               PROVE  /\ Owners' # {}
                      /\ \A t \in Slot : req'[t].step = "counted" =>
                            \E q \in Owners' : q # req'[t].target
    BY DEF CountsGood, At
  <2>1. ~raced /\ ~shell
    BY <1>3
  <2>2. \A q \in Owners : q # p => q \in Owners'
    BY <1>5 DEF Owners
  <2>3. CASE req[s].step = "counted"
    <3>1. \E q \in Owners : q # p
      BY <2>1, <2>3 DEF IInv, CountsGood, At
    <3>2. ASSUME NEW t \in Slot, req'[t].step = "counted"
          PROVE  \E q \in Owners' : q # req'[t].target
      <4>1. t # s /\ req'[t] = req[t]
        BY <1>4, <3>2, IdleIsRequest
      <4>2. \E q \in Owners : q # req[t].target
        BY <2>1, <3>2, <4>1 DEF IInv, CountsGood, At
      <4>3. role[p] = "owner" => new = "owner"
        BY <1>3, <3>2, <4>1 DEF Spoils
      <4>4. Owners \subseteq Owners'
        BY <1>5, <4>3 DEF Owners
      <4> QED
        BY <4>1, <4>2, <4>4
    <3> QED
      BY <2>2, <3>1, <3>2
  <2>4. CASE req[s].step = "write"
    <3>1. role[p] # "owner"
      BY <1>3, <2>1, <2>4 DEF IInv, AimsGood, AimGood, At
    <3>2. Owners \subseteq Owners'
      BY <1>5, <3>1 DEF Owners
    <3> QED
      BY <1>4, <2>1, <3>2, IdleIsRequest DEF IInv, CountsGood, At
  <2> QED
    BY <1>1, <2>3, <2>4
<1>8. AimsGood' /\ AuthorityGood'
  <2>1. \A q \in Person : id'[q] = IF q = p /\ role[p] = "none" THEN id[q] + 1 ELSE id[q]
    BY <1>3
  <2>2. ~Aiming(req'[s]) /\ ~Acting(req'[s]) /\ req'[s].step = "idle"
    BY <1>4, IdleIsRequest DEF Aiming, Acting
  <2>3. AimGood(s)' /\ AuthorityOf(s)'
    BY <2>2 DEF AimGood, AuthorityOf, At
  <2>4. ASSUME NEW t \in Slot \ {s}
        PROVE  AimGood(t)' /\ AuthorityOf(t)'
    <3>1. req'[t] = req[t]
      BY <1>4, <2>4
    <3>2. {s} \in SUBSET Slot /\ t \in Slot \ {s} /\ Changes(p, new, {s})
      BY <1>3, <2>4
    <3> HIDE DEF p, new
    <3> QED
      BY <1>2, <2>1, <3>1, <3>2, Remembered
  <2> QED
    BY <2>3, <2>4 DEF AimsGood, AuthorityGood
<1>9. InvitesGood'
  <2>1. \A q \in Person : ~Invites(req[s], q)
    BY <1>1 DEF Invites
  <2>2. ASSUME NEW q \in Person, account'[q] = "invited", link'[q] = "none"
        PROVE  q \in failed' \/ \E t \in Slot : Invites(req'[t], q)
    BY <1>3, <1>4, <2>1, <2>2 DEF IInv, InvitesGood
  <2>3. \A t \in Slot : Adding(req'[t]) => account'[req'[t].target] # "none"
    BY <1>3, <1>4, IdleIsRequest DEF IInv, InvitesGood, Adding
  <2> QED
    BY <2>2, <2>3 DEF InvitesGood
<1> QED
  BY <1>6, <1>7, <1>8, <1>9 DEF IInv

(* The User of somebody new, with no usable password. *)
LEMMA AddUserStep == ASSUME IInv, NEW s \in Slot, AddUser(s) PROVE IInv'
<1> DEFINE p == req[s].target
           r == [req[s] EXCEPT !.step = "member", !.created = TRUE]
<1>1. req[s] \in RequestState /\ req[s].step = "user"
  BY DEF IInv, TypeOK, AddUser, At
<1>2. p \in Person /\ r \in RequestState
  BY <1>1, RequestFields
<1>3. r.step = "member" /\ r.target = p /\ r.created = TRUE
  BY <1>1 DEF RequestState, Idle
<1>4. /\ account' = [account EXCEPT ![p] = "invited"]
      /\ req' = [req EXCEPT ![s] = r]
      /\ UNCHANGED <<role, id, link, failed, stale, raced, shell>>
  BY DEF AddUser, history
<1>5. \A t \in Slot : req'[t] = IF t = s THEN r ELSE req[t]
  BY <1>4 DEF IInv, TypeOK
<1>6. \A q \in Person : account'[q] = IF q = p THEN "invited" ELSE account[q]
  BY <1>4 DEF IInv, TypeOK
<1>7. TypeOK'
  BY <1>2, <1>4, <1>6 DEF IInv, TypeOK
<1>8. CountsGood' /\ AimsGood'
  BY <1>3, <1>4, <1>5 DEF IInv, CountsGood, AimsGood, AimGood, Owners, At, Aiming
<1>9. InvitesGood'
  <2>1. \A t \in Slot : Adding(req[t]) => req[t].target \in Person
    BY RequestFields DEF IInv, TypeOK, Adding
  <2>2. Invites(req'[s], p) /\ \A q \in Person : ~Invites(req[s], q)
    BY <1>1, <1>3, <1>5 DEF Invites
  <2>3. ASSUME NEW q \in Person, account'[q] = "invited", link'[q] = "none"
        PROVE  q \in failed' \/ \E t \in Slot : Invites(req'[t], q)
    <3>1. q = p \/ account[q] = "invited"
      BY <1>6, <2>3
    <3> QED
      BY <1>4, <1>5, <2>2, <2>3, <3>1 DEF IInv, InvitesGood
  <2>4. \A t \in Slot : Adding(req'[t]) => account'[req'[t].target] # "none"
    BY <1>3, <1>5, <1>6, <2>1, <1>2 DEF IInv, InvitesGood, Adding
  <2> QED
    BY <2>3, <2>4 DEF InvitesGood
<1>10. AuthorityGood'
  BY <1>3, <1>4, <1>5 DEF IInv, AuthorityGood, AuthorityOf, At, Acting, Aiming
<1> QED
  BY <1>7, <1>8, <1>9, <1>10 DEF IInv

(* A membership that was not there gets a new id, and nobody's memory of    *)
(* one that was there is about it.                                          *)
LEMMA AddMemberStep == ASSUME IInv, NEW s \in Slot, AddMember(s) PROVE IInv'
<1> DEFINE p == req[s].target
           r == IF req[s].created THEN [req[s] EXCEPT !.step = "mail"] ELSE Idle
<1>1. req[s] \in RequestState /\ req[s].step = "member"
  BY DEF IInv, TypeOK, AddMember, At
<1>2. p \in Person /\ req[s].new \in Role /\ r \in RequestState
  BY <1>1, RequestFields, IdleIsRequest
<1>3. /\ r = Idle \/ (r.step = "mail" /\ r.target = p)
      /\ req[s].created => r.step = "mail" /\ r.created = TRUE
  <2>1. req[s].created \in BOOLEAN
    BY <1>1, RequestFields
  <2> QED
    BY <1>1, <2>1 DEF RequestState, Idle
<1>4. /\ role[p] = "none"
      /\ role' = [role EXCEPT ![p] = req[s].new]
      /\ id' = [id EXCEPT ![p] = id[p] + 1]
      /\ req' = [req EXCEPT ![s] = r]
      /\ UNCHANGED <<account, link, failed, stale, raced, shell>>
  BY DEF AddMember, Ends, history
<1>5. \A t \in Slot : req'[t] = IF t = s THEN r ELSE req[t]
  BY <1>4 DEF IInv, TypeOK
<1>6. \A q \in Person : /\ role'[q] = IF q = p THEN req[s].new ELSE role[q]
                        /\ id'[q] = IF q = p THEN id[q] + 1 ELSE id[q]
                        /\ id[q] \in Nat
  BY <1>4 DEF IInv, TypeOK
<1>7. req'[s].step \notin {"target", "count", "counted", "write"}
  BY <1>3, <1>5, IdleIsRequest
<1>8. account[p] # "none"
  BY <1>1 DEF IInv, InvitesGood, Adding
<1>9. TypeOK'
  BY <1>2, <1>4, <1>5, <1>6, <1>8 DEF IInv, TypeOK
<1>10. CountsGood'
  <2>1. Owners \subseteq Owners'
    BY <1>4, <1>6 DEF Owners
  <2> QED
    BY <1>4, <1>5, <1>7, <2>1 DEF IInv, CountsGood, At
<1>11. ASSUME NEW t \in Slot, Acting(req'[t])
       PROVE  /\ t # s /\ req'[t] = req[t] /\ req[t] \in RequestState /\ Acting(req[t])
              /\ req[t].actor \in Person /\ req[t].role # "none" /\ req[t].id \in Nat
              /\ Aiming(req[t]) => req[t].target \in Person
  <2>1. t # s /\ req'[t] = req[t]
    BY <1>5, <1>7, <1>11 DEF Acting
  <2>2. req[t] \in RequestState
    BY DEF IInv, TypeOK
  <2> QED
    BY <1>11, <2>1, <2>2, RequestFields, SomeRoles DEF ManagerUp
<1>12. AimsGood'
  <2> SUFFICES ASSUME NEW t \in Slot, Aiming(req'[t])
               PROVE  /\ req'[t].id <= id'[req'[t].target]
                      /\ /\ req'[t].step = "write" /\ ~raced'
                         /\ id'[req'[t].target] = req'[t].id
                         => role'[req'[t].target] # "owner"
    BY DEF AimsGood, AimGood, At, Aiming
  <2>1. req'[t] = req[t] /\ Aiming(req[t]) /\ req[t].id \in Nat /\ req[t].target \in Person
    BY <1>11 DEF Acting, Aiming
  <2>2. /\ req[t].id <= id[req[t].target]
        /\ req[t].step = "write" /\ ~raced /\ id[req[t].target] = req[t].id =>
             role[req[t].target] # "owner"
    BY <2>1 DEF IInv, AimsGood, AimGood, At
  <2> QED
    BY <1>4, <1>6, <2>1, <2>2
<1>13. InvitesGood'
  <2>1. \A q \in Person : Invites(req[s], q) => Invites(req'[s], q)
    <3>1. req'[s] = r
      BY <1>5
    <3>2. ASSUME req[s].created
          PROVE  r.step = "mail" /\ r.target = p /\ r.created = TRUE
      BY <1>3, <3>2 DEF Idle
    <3> HIDE DEF r
    <3> QED
      BY <3>1, <3>2 DEF Invites
  <2>2. ASSUME NEW q \in Person, account'[q] = "invited", link'[q] = "none"
        PROVE  q \in failed' \/ \E t \in Slot : Invites(req'[t], q)
    BY <1>4, <1>5, <2>1, <2>2 DEF IInv, InvitesGood
  <2>3. \A t \in Slot : Adding(req'[t]) => account'[req'[t].target] # "none"
    BY <1>3, <1>4, <1>5, <1>8, IdleIsRequest DEF IInv, InvitesGood, Adding
  <2> QED
    BY <2>2, <2>3 DEF InvitesGood
<1>14. AuthorityGood'
  <2> SUFFICES ASSUME NEW t \in Slot, Acting(req'[t])
               PROVE  /\ "actor" \notin stale'[t] =>
                           /\ role'[req'[t].actor] = req'[t].role
                           /\ req'[t].step = "target" => id'[req'[t].actor] = req'[t].id
                           /\ Aiming(req'[t]) => req'[t].actor # req'[t].target
                      /\ Aiming(req'[t]) /\ req'[t].new = "owner" => req'[t].role = "owner"
                      /\ Aiming(req'[t]) /\ req'[t].step # "write" => req'[t].role = "owner"
                      /\ req'[t].step = "write" /\ role'[req'[t].target] = "owner" =>
                           \/ req'[t].role = "owner" \/ "target" \in stale'[t]
                           \/ req'[t].id # id'[req'[t].target]
    BY DEF AuthorityGood, AuthorityOf, At, Acting, Aiming
  <2>1. /\ req'[t] = req[t] /\ Acting(req[t]) /\ stale'[t] = stale[t]
        /\ req[t].actor \in Person /\ req[t].role # "none" /\ req[t].id \in Nat
        /\ Aiming(req[t]) => req[t].target \in Person
    BY <1>4, <1>11
  <2>2. "actor" \notin stale[t] => role[req[t].actor] = req[t].role /\ req[t].actor # p
    BY <1>4, <2>1 DEF IInv, AuthorityGood, AuthorityOf
  <2>3. Aiming(req[t]) => req[t].id <= id[req[t].target]
    BY DEF IInv, AimsGood, AimGood
  <2>4. ASSUME req[t].step = "write", role'[req[t].target] = "owner"
        PROVE  \/ req[t].role = "owner" \/ "target" \in stale[t]
               \/ req[t].id # id'[req[t].target]
    <3>1. Aiming(req[t]) /\ req[t].target \in Person
      BY <2>1, <2>4 DEF Aiming
    <3>2. CASE req[t].target = p
      BY <1>2, <1>6, <2>1, <2>3, <3>1, <3>2
    <3>3. CASE req[t].target # p
      <4>1. role[req[t].target] = "owner" /\ id'[req[t].target] = id[req[t].target]
        BY <1>6, <2>4, <3>1, <3>3
      <4> QED
        BY <2>4, <4>1 DEF IInv, AuthorityGood, AuthorityOf, At
    <3> QED
      BY <3>2, <3>3
  <2>5. /\ Aiming(req[t]) /\ req[t].new = "owner" => req[t].role = "owner"
        /\ Aiming(req[t]) /\ req[t].step # "write" => req[t].role = "owner"
        /\ "actor" \notin stale[t] =>
             /\ req[t].step = "target" => id[req[t].actor] = req[t].id
             /\ Aiming(req[t]) => req[t].actor # req[t].target
    BY <2>1 DEF IInv, AuthorityGood, AuthorityOf, At
  <2> QED
    BY <1>6, <2>1, <2>2, <2>4, <2>5
<1> QED
  BY <1>9, <1>10, <1>12, <1>13, <1>14 DEF IInv

(* Invitations and passwords: no membership changes. *)
LEMMA LinkStep ==
  ASSUME IInv,
         \/ \E s \in Slot : SendInvite(s)
         \/ \E p \in Person : SetPassword(p) \/ LinkExpires(p)
  PROVE  IInv'
<1>1. UNCHANGED <<role, id, failed, stale, raced, shell>>
  BY DEF SendInvite, SetPassword, LinkExpires, history
<1>2. \A t \in Slot : req'[t] \in {req[t], Idle}
  BY DEF IInv, TypeOK, SendInvite, Ends, SetPassword, LinkExpires
<1>3. \A q \in Person : /\ account'[q] = "none" => account[q] = "none"
                        /\ account'[q] = "invited" => account[q] = "invited"
  BY DEF IInv, TypeOK, SendInvite, SetPassword, LinkExpires
<1>4. \A s \in Slot : SendInvite(s) => req[s].target \in Person
  BY RequestFields DEF IInv, TypeOK, SendInvite, At
<1>5. ASSUME NEW q \in Person, link'[q] = "none"
      PROVE  /\ link[q] = "none"
             /\ \A t \in Slot : Invites(req[t], q) => Invites(req'[t], q)
  <2>1. link[q] = "none"
    BY <1>4, <1>5 DEF IInv, TypeOK, SendInvite, SetPassword, LinkExpires
  <2>2. CASE \E s \in Slot : SendInvite(s)
    <3>1. PICK s \in Slot : SendInvite(s)
      BY <2>2
    <3>2. /\ req[s].target # q
          /\ \A t \in Slot : t # s => req'[t] = req[t]
      BY <1>4, <1>5, <3>1 DEF SendInvite, Ends, IInv, TypeOK
    <3> QED
      BY <2>1, <3>2 DEF Invites
  <2>3. CASE \E p \in Person : SetPassword(p) \/ LinkExpires(p)
    BY <2>1, <2>3 DEF SetPassword, LinkExpires
  <2> QED
    BY <2>2, <2>3
<1>6. TypeOK'
  <2>1. req' \in [Slot -> RequestState] /\ account' \in [Person -> {"none", "invited", "usable"}]
    BY IdleIsRequest DEF IInv, TypeOK, SendInvite, Ends, SetPassword, LinkExpires
  <2>2. link' \in [Person -> {"none", "mailed", "dead"}]
    BY DEF IInv, TypeOK, SendInvite, SetPassword, LinkExpires
  <2> QED
    BY <1>1, <1>3, <2>1, <2>2 DEF IInv, TypeOK
<1>7. CountsGood' /\ AimsGood'
  BY <1>1, <1>2, IdleIsRequest DEF IInv, CountsGood, AimsGood, AimGood, Owners, At, Aiming
<1>8. InvitesGood'
  <2>1. \A t \in Slot : Adding(req[t]) => req[t].target \in Person
    BY RequestFields DEF IInv, TypeOK, Adding
  <2>2. ASSUME NEW q \in Person, account'[q] = "invited", link'[q] = "none"
        PROVE  q \in failed' \/ \E t \in Slot : Invites(req'[t], q)
    BY <1>1, <1>3, <1>5, <2>2 DEF IInv, InvitesGood
  <2>3. \A t \in Slot : Adding(req'[t]) => account'[req'[t].target] # "none"
    BY <1>2, <1>3, <2>1, IdleIsRequest DEF IInv, InvitesGood, Adding
  <2> QED
    BY <2>2, <2>3 DEF InvitesGood
<1>9. AuthorityGood'
  BY <1>1, <1>2, IdleIsRequest DEF IInv, AuthorityGood, AuthorityOf, At, Acting, Aiming
<1> QED
  BY <1>6, <1>7, <1>8, <1>9 DEF IInv

(* The operator's command. *)
LEMMA CreateStaffUserStep ==
  ASSUME IInv, NEW p \in Person, NEW new \in Role, NEW reset \in BOOLEAN, CreateStaffUser(p, new, reset)
  PROVE  IInv'
<1>1. /\ role' = [role EXCEPT ![p] = new]
      /\ Changes(p, new, {})
      /\ raced' = (raced \/ \E t \in (IF role[p] = new THEN {} ELSE Slot) : Spoils(req[t], p, new))
      /\ id' = IF role[p] = "none" THEN [id EXCEPT ![p] = id[p] + 1] ELSE id
      /\ account' = [account EXCEPT ![p] = IF account[p] = "none" \/ reset THEN "usable" ELSE account[p]]
      /\ shell' = (shell \/ (role[p] = "owner" /\ new # "owner"))
      /\ UNCHANGED <<link, req, failed>>
  <2>1. Slot \ {} = Slot
    OBVIOUS
  <2> QED
    BY <2>1 DEF CreateStaffUser, Changes
<1>2. \A q \in Person : /\ role'[q] = IF q = p THEN new ELSE role[q]
                        /\ account'[q] = account[q] \/ account'[q] = "usable"
                        /\ q # p => id'[q] = id[q]
                        /\ id[q] \in Nat
  BY <1>1 DEF IInv, TypeOK
<1>3. id'[p] = IF role[p] = "none" THEN id[p] + 1 ELSE id[p]
  BY <1>1 DEF IInv, TypeOK
<1>4. account'[p] # "none"
  BY <1>1 DEF IInv, TypeOK
<1>5. TypeOK'
  <2>1. id' \in [Person -> Nat] /\ role' \in [Person -> Role \cup {"none"}]
    BY <1>1, <1>2 DEF IInv, TypeOK
  <2>2. account' \in [Person -> {"none", "invited", "usable"}]
    BY <1>1 DEF IInv, TypeOK
  <2>3. stale' \in [Slot -> SUBSET {"actor", "target"}] /\ raced' \in BOOLEAN /\ shell' \in BOOLEAN
    BY <1>1 DEF Changes, Outdated, IInv, TypeOK
  <2> QED
    BY <1>1, <1>2, <1>4, <2>1, <2>2, <2>3 DEF IInv, TypeOK
<1>6. CountsGood'
  <2> SUFFICES ASSUME ~raced', ~shell'
               PROVE  /\ Owners' # {}
                      /\ \A t \in Slot : req'[t].step = "counted" =>
                            \E q \in Owners' : q # req'[t].target
    BY DEF CountsGood, At
  <2>1. ~raced /\ ~shell /\ Owners \subseteq Owners'
    BY <1>1, <1>2 DEF Owners
  <2> QED
    BY <1>1, <2>1 DEF IInv, CountsGood, At
<1>7. AimsGood' /\ AuthorityGood'
  <2>1. \A q \in Person : id'[q] = IF q = p /\ role[p] = "none" THEN id[q] + 1 ELSE id[q]
    BY <1>2, <1>3
  <2>2. new \in Role \cup {"none"} /\ {} \in SUBSET Slot
    OBVIOUS
  <2>3. ASSUME NEW t \in Slot
        PROVE  AimGood(t)' /\ AuthorityOf(t)'
    <3>1. t \in Slot \ {} /\ req'[t] = req[t] /\ Changes(p, new, {})
      BY <1>1, <2>3
    <3> QED
      BY <2>1, <2>2, <3>1, Remembered
  <2> QED
    BY <2>3 DEF AimsGood, AuthorityGood
<1>8. InvitesGood'
  <2>1. \A t \in Slot : Adding(req[t]) => req[t].target \in Person
    BY RequestFields DEF IInv, TypeOK, Adding
  <2> QED
    BY <1>1, <1>2, <2>1 DEF IInv, InvitesGood
<1> QED
  BY <1>5, <1>6, <1>7, <1>8 DEF IInv

-----------------------------------------------------------------------------
LEMMA Step == ASSUME IInv, [Next]_vars PROVE IInv'
<1>1. CASE \E s \in Slot : Request(s)
  BY <1>1, EnterStep, LoadStep, AddFindStep, CountOwnersStep, WriteStep, AddUserStep,
     AddMemberStep, LinkStep, DiesStep DEF Request
<1>2. CASE \E p \in Person : \/ SetPassword(p) \/ LinkExpires(p)
                             \/ \E new \in Role, reset \in BOOLEAN : CreateStaffUser(p, new, reset)
  BY <1>2, LinkStep, CreateStaffUserStep
<1>3. CASE UNCHANGED vars
  BY <1>3 DEF vars, IInv, TypeOK, CountsGood, AimsGood, AimGood, InvitesGood, AuthorityGood, AuthorityOf, Owners, At
<1> QED
  BY <1>1, <1>2, <1>3 DEF Next

LEMMA Invariance == Spec => []IInv
<1>1. Init => IInv
  BY InitInv
<1>2. IInv /\ [Next]_vars => IInv'
  BY Step
<1> QED
  BY <1>1, <1>2, PTL DEF Spec

(* Tables and requests have their types, and a member has a User. *)
THEOREM TypeCorrect == Spec => []TypeOK
<1>1. IInv => TypeOK
  BY DEF IInv
<1> QED
  BY <1>1, Invariance, PTL

(* "Never leave the organization with no owner" holds of team_update_role   *)
(* and team_remove for any number of requests, but for a write between       *)
(* another's count and its write, and but for create_staff_user.             *)
THEOREM OwnerlessByRaceOnly == Spec => []OwnersRunOutByRace
<1>1. IInv => OwnersRunOutByRace
  BY DEF IInv, CountsGood, OwnersRunOutByRace
<1> QED
  BY <1>1, Invariance, PTL

(* add_member: whoever is on the team without ever having had a password    *)
(* was mailed a link, or the request that made their User has that before    *)
(* it or ended before it, however requests for the same address interleave.  *)
THEOREM InvitationsAccountedFor == Spec => []InvitedWereMailed
<1>1. IInv => InvitedWereMailed
  BY DEF IInv, InvitesGood, InvitedWereMailed
<1> QED
  BY <1>1, Invariance, PTL

(* The checks of team_update_role and team_remove against the actor, at the  *)
(* moment the write lands, for any number of overlapping requests.           *)
THEOREM AuthorityKept == Spec => AuthorityHolds
<1> DEFINE Right(s) == Lands(s) =>
      /\ role'[req[s].target] = "owner" => req[s].role = "owner"
      /\ role[req[s].target] = "owner" => req[s].role = "owner" \/ "target" \in stale[s]
      /\ \/ req[s].actor # req[s].target /\ role[req[s].actor] = req[s].role
         \/ "actor" \in stale[s]
<1>1. ASSUME IInv, Next, NEW s \in Slot, Lands(s)
      PROVE  /\ role'[req[s].target] = "owner" => req[s].role = "owner"
             /\ role[req[s].target] = "owner" => req[s].role = "owner" \/ "target" \in stale[s]
             /\ \/ req[s].actor # req[s].target /\ role[req[s].actor] = req[s].role
                \/ "actor" \in stale[s]
  <2>1. /\ req[s] \in RequestState /\ req[s].target \in Person
        /\ Acting(req[s]) /\ Aiming(req[s])
    BY <1>1, RequestFields DEF Lands, IInv, TypeOK, Aiming, Acting
  <2>2. \A t \in Slot : Request(t) => t = s
    BY <1>1 DEF Lands, IInv, TypeOK, Request, Enter, Load, AddFind, CountOwners, Write, AddUser,
                AddMember, SendInvite, Dies, Ends
  <2>3. \A p \in Person : ~SetPassword(p) /\ ~LinkExpires(p)
    BY <1>1 DEF Lands, SetPassword, LinkExpires
  <2>4. \A p \in Person, new \in Role, reset \in BOOLEAN : ~CreateStaffUser(p, new, reset)
    BY <1>1 DEF Lands, CreateStaffUser
  <2>5. Request(s)
    BY <1>1, <2>2, <2>3, <2>4 DEF Next
  <2>6. Write(s)
    BY <1>1, <2>5 DEF Lands, Request, Enter, Load, AddFind, CountOwners, AddUser, AddMember,
                      SendInvite, Dies, At
  <2>7. role'[req[s].target] = req[s].new /\ req[s].id = id[req[s].target]
    <3>1. role' = [role EXCEPT ![req[s].target] = req[s].new] /\ id[req[s].target] = req[s].id
      BY <2>6 DEF Write, Changes
    <3> QED
      BY <1>1, <2>1, <3>1 DEF IInv, TypeOK
  <2>8. /\ req[s].new = "owner" => req[s].role = "owner"
        /\ req[s].step # "write" => req[s].role = "owner"
        /\ "actor" \notin stale[s] =>
             req[s].actor # req[s].target /\ role[req[s].actor] = req[s].role
    BY <1>1, <2>1 DEF IInv, AuthorityGood, AuthorityOf
  <2>9. req[s].step = "write" /\ role[req[s].target] = "owner" =>
          req[s].role = "owner" \/ "target" \in stale[s]
    BY <1>1, <2>7 DEF IInv, AuthorityGood, AuthorityOf, At
  <2> QED
    BY <2>7, <2>8, <2>9
<1>2. IInv /\ [Next]_vars => [\A s \in Slot : Right(s)]_vars
  BY <1>1
<1>3. Spec => [][\A s \in Slot : Right(s)]_vars
  BY <1>2, Invariance, PTL DEF Spec
<1> QED
  BY <1>3 DEF AuthorityHolds
=============================================================================
