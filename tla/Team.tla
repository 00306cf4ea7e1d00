-------------------------------- MODULE Team --------------------------------
(***************************************************************************)
(* The staff of one theater: who has which role, how roles are given and   *)
(* taken, and how somebody new gets a password (the team views at the end  *)
(* of dashboard/views.py, accounts/permissions.py, accounts/invites.py,    *)
(* accounts/views.py, create_staff_user).                                  *)
(*                                                                         *)
(* No view here is a transaction.  A request reads its own membership,     *)
(* reads the target, counts the owners, and writes: a Slot is such a       *)
(* request, each of its queries is a step, and it may die between any two. *)
(***************************************************************************)
EXTENDS Naturals, FiniteSets

CONSTANTS Person,    \* e-mail addresses
          Founder,   \* the owner the theater was provisioned with
          Known,     \* people with a User and a password, of this theater or another
          Role,      \* the roles in use, of Membership.Role
          Slot,      \* requests being served at once
          MaxAdd     \* bound: how often a person is put on the team

ASSUME FounderIsAPerson == Founder \in Known /\ Known \subseteq Person
ASSUME SomeRoles        == {"owner", "manager"} \subseteq Role /\ "none" \notin Role
ASSUME TeamBounds       == IsFiniteSet(Person) /\ MaxAdd \in Nat

VARIABLES role,       \* the Membership table: "none" is no row
          id,         \* which of a person's memberships, one after the other, that row is
          account,    \* the User table: "none", "invited" (unusable password) or "usable"
          link,       \* the set-password link: "none", "mailed", "dead" (used or expired)
          req,        \* the requests being served
          failed,     \* people whose User was made by a request that ended before its mail
          stale,      \* what of a request's memory was made out of date by another
          raced,      \* one of them made a check for a last owner worthless
          shell       \* an owner was demoted by create_staff_user

vars    == <<role, id, account, link, req, failed, stale, raced, shell>>
history == <<failed, stale, raced, shell>>

Idle == [step |-> "idle"]

Init == /\ role = [p \in Person |-> IF p = Founder THEN "owner" ELSE "none"]
        /\ id = [p \in Person |-> 0]
        /\ account = [p \in Person |-> IF p \in Known THEN "usable" ELSE "none"]
        /\ link = [p \in Person |-> "none"]
        /\ req = [s \in Slot |-> Idle]
        /\ failed = {}
        /\ stale = [s \in Slot |-> {}]
        /\ raced = FALSE
        /\ shell = FALSE

Owners    == {p \in Person : role[p] = "owner"}
ManagerUp == {"owner", "manager"}
At(s, st) == req[s].step = st

(* What of a request's memory p's new role makes out of date: the actor it   *)
(* goes by, or that the member it aims at is no owner.                        *)
Outdated(r, p, new) ==
    {k \in {"actor", "target"} :
       \/ k = "actor" /\ r.step \in {"target", "count", "counted", "write"} /\ r.actor = p
       \/ k = "target" /\ r.step = "write" /\ r.target = p /\ new = "owner"}

(* A request that counted p among the owners, or that did not count because  *)
(* p was none when it was loaded.                                            *)
Spoils(r, p, new) == \/ r.step = "counted" /\ role[p] = "owner" /\ new # "owner"
                     \/ r.step = "write" /\ r.target = p /\ new = "owner"

(* p's role becomes new by the last step of the requests in done, or by a   *)
(* command.                                                                 *)
Changes(p, new, done) ==
    LET others == IF role[p] = new THEN {} ELSE Slot \ done IN
    /\ role' = [role EXCEPT ![p] = new]
    /\ stale' = [t \in Slot |-> IF t \in others THEN stale[t] \cup Outdated(req[t], p, new)
                               ELSE stale[t] \ {k \in {"actor", "target"} : t \in done}]
    /\ raced' = (raced \/ \E t \in others : Spoils(req[t], p, new))

Ends(s)    == req' = [req EXCEPT ![s] = Idle]
Forgets(s) == stale' = [stale EXCEPT ![s] = {}]

-----------------------------------------------------------------------------
(* manager_required reads the actor's membership, once per request. *)
Enter(s, p) ==
    /\ At(s, "idle")
    /\ account[p] = "usable" /\ role[p] \in ManagerUp
    /\ req' = [req EXCEPT ![s] = [step |-> "target", actor |-> p, role |-> role[p], id |-> id[p]]]
    /\ UNCHANGED <<role, id, account, link, history>>

-----------------------------------------------------------------------------
(* team_update_role and team_remove: new is the role to give, or "none". *)

(* Mutant: only granting the owner role is an owner's affair. *)
MayTouchIfNotGranting(s, p, new) ==
    /\ p # req[s].actor \/ id[p] # req[s].id
    /\ new = "owner" => req[s].role = "owner"

MayTouch(s, p, new) ==
    /\ p # req[s].actor \/ id[p] # req[s].id
    /\ role[p] = "owner" \/ new = "owner" => req[s].role = "owner"

(* The target as it is in memory from here on. *)
Load(s, p, new) ==
    /\ At(s, "target")
    /\ role[p] # "none" /\ role[p] # new
    /\ MayTouch(s, p, new)
    /\ req' = [req EXCEPT ![s] = [step   |-> IF role[p] = "owner" THEN "count" ELSE "write",
                                  actor  |-> req[s].actor, role |-> req[s].role,
                                  target |-> p, id |-> id[p], new |-> new]]
    /\ UNCHANGED <<role, id, account, link, history>>

(* Mutant: the check is for at least one owner, the target. *)
CountAny(s) ==
    /\ At(s, "count")
    /\ Owners # {}
    /\ req' = [req EXCEPT ![s].step = "counted"]
    /\ UNCHANGED <<role, id, account, link, history>>

(* "Never leave the organization with no owner." *)
CountOwners(s) ==
    /\ At(s, "count")
    /\ Cardinality(Owners) > 1
    /\ req' = [req EXCEPT ![s].step = "counted"]
    /\ UNCHANGED <<role, id, account, link, history>>

(* save(update_fields=["role"]) or delete(), by primary key: a row that is *)
(* gone is not brought back.                                               *)
Write(s) ==
    LET p == req[s].target IN
    /\ req[s].step \in {"counted", "write"}
    /\ role[p] # "none" /\ id[p] = req[s].id
    /\ Changes(p, req[s].new, {s})
    /\ Ends(s)
    /\ UNCHANGED <<id, account, link, failed, shell>>

-----------------------------------------------------------------------------
(* team_add, which is add_member *)

AddFind(s, p, new) ==
    /\ At(s, "target")
    /\ new = "owner" => req[s].role = "owner"
    /\ role[p] = "none"
    /\ req' = [req EXCEPT ![s] = [step |-> IF account[p] = "none" THEN "user" ELSE "member",
                                  target |-> p, new |-> new, created |-> FALSE]]
    /\ Forgets(s)
    /\ UNCHANGED <<role, id, account, link, failed, raced, shell>>

(* Mutant: whoever has a User by the time of the mail is not new. *)
AddUserForgotten(s) ==
    LET p == req[s].target IN
    /\ At(s, "user") /\ account[p] = "none"
    /\ account' = [account EXCEPT ![p] = "invited"]
    /\ req' = [req EXCEPT ![s].step = "member"]
    /\ UNCHANGED <<role, id, link, history>>

AddUser(s) ==
    LET p == req[s].target IN
    /\ At(s, "user") /\ account[p] = "none"
    /\ account' = [account EXCEPT ![p] = "invited"]
    /\ req' = [req EXCEPT ![s].step = "member", ![s].created = TRUE]
    /\ UNCHANGED <<role, id, link, history>>

AddMember(s) ==
    LET p == req[s].target IN
    /\ At(s, "member") /\ role[p] = "none"
    /\ id[p] < MaxAdd
    /\ role' = [role EXCEPT ![p] = req[s].new]
    /\ id' = [id EXCEPT ![p] = @ + 1]
    /\ IF req[s].created THEN req' = [req EXCEPT ![s].step = "mail"] ELSE Ends(s)
    /\ UNCHANGED <<account, link, history>>

SendInvite(s) ==
    LET p == req[s].target IN
    /\ At(s, "mail")
    /\ link' = [link EXCEPT ![p] = "mailed"]
    /\ Ends(s)
    /\ UNCHANGED <<role, id, account, history>>

(* The request made p's User and has not come to the mail. *)
Invites(r, p) == r.step \in {"member", "mail"} /\ r.target = p /\ r.created

(* A refusal, an IntegrityError, a mail server that refuses, or a worker   *)
(* that is killed: what the request has written stays.                     *)
Dies(s) ==
    /\ ~At(s, "idle")
    /\ failed' = failed \cup {p \in Person : Invites(req[s], p)}
    /\ Ends(s) /\ Forgets(s)
    /\ UNCHANGED <<role, id, account, link, raced, shell>>

-----------------------------------------------------------------------------
(* set_password_view: the token is bound to the password it replaces. *)
SetPassword(p) ==
    /\ link[p] = "mailed" /\ account[p] = "invited"
    /\ account' = [account EXCEPT ![p] = "usable"]
    /\ link' = [link EXCEPT ![p] = "dead"]
    /\ UNCHANGED <<role, id, req, history>>

LinkExpires(p) ==
    /\ link[p] = "mailed"
    /\ link' = [link EXCEPT ![p] = "dead"]
    /\ UNCHANGED <<role, id, account, req, history>>

(* create_staff_user, one transaction, with or without --reset-password:   *)
(* update_or_create of the membership, whatever role it had.               *)
CreateStaffUser(p, new, reset) ==
    /\ role[p] = "none" => id[p] < MaxAdd
    /\ Changes(p, new, {})
    /\ id' = IF role[p] = "none" THEN [id EXCEPT ![p] = @ + 1] ELSE id
    /\ account' = [account EXCEPT ![p] = IF @ = "none" \/ reset THEN "usable" ELSE @]
    /\ shell' = (shell \/ (role[p] = "owner" /\ new # "owner"))
    /\ UNCHANGED <<link, req, failed>>

-----------------------------------------------------------------------------
Request(s) ==
    \/ \E p \in Person : \/ Enter(s, p)
                         \/ \E new \in Role \cup {"none"} : Load(s, p, new)
                         \/ \E new \in Role : AddFind(s, p, new)
    \/ CountOwners(s) \/ Write(s)
    \/ AddUser(s) \/ AddMember(s) \/ SendInvite(s)
    \/ Dies(s)

Next == \/ \E s \in Slot : Request(s)
        \/ \E p \in Person : \/ SetPassword(p) \/ LinkExpires(p)
                             \/ \E new \in Role, reset \in BOOLEAN : CreateStaffUser(p, new, reset)

Spec == Init /\ [][Next]_vars

-----------------------------------------------------------------------------
(* Properties *)

RequestState == {Idle}
        \cup [step : {"target"}, actor : Person, role : ManagerUp, id : Nat]
        \cup [step : {"count", "counted", "write"}, actor : Person, role : ManagerUp,
              target : Person, id : Nat, new : Role \cup {"none"}]
        \cup [step : {"user", "member", "mail"}, target : Person, new : Role, created : BOOLEAN]

(* Every table and request has its type, and nobody is a member without a  *)
(* User (the foreign key of Membership).                                   *)
TypeOK ==
    /\ role \in [Person -> Role \cup {"none"}]
    /\ id \in [Person -> Nat]
    /\ account \in [Person -> {"none", "invited", "usable"}]
    /\ link \in [Person -> {"none", "mailed", "dead"}]
    /\ req \in [Slot -> RequestState]
    /\ failed \subseteq Person
    /\ stale \in [Slot -> SUBSET {"actor", "target"}]
    /\ raced \in BOOLEAN /\ shell \in BOOLEAN
    /\ \A p \in Person : role[p] # "none" => account[p] # "none"

(* "Never leave the organization with no owner" (dashboard/views.py:2180), *)
(* as it stands.                                                           *)
AlwaysAnOwner == Owners # {}

(* The theater is left without an owner by the operator's command, or by two *)
(* requests of which one wrote between the other's check and its write: an   *)
(* actor who was demoted before the check does no harm (the only case that   *)
(* the owner count in team_update_role and team_remove is needed for, since  *)
(* an owner cannot aim at themselves).                                       *)
OwnersRunOutByRace == Owners = {} => raced \/ shell

(* The write of team_update_role or team_remove that changes the role of    *)
(* the member s aims at.                                                     *)
Lands(s) == /\ req[s].step \in {"counted", "write"} /\ req'[s] # req[s]
            /\ role'[req[s].target] # role[req[s].target]

(* Who may change whom, however requests overlap, as far as the code sees to *)
(* it.  The owner role is only given by a request that came in from an owner, *)
(* and only taken by one unless the member was made an owner after the       *)
(* request loaded them; and whoever acts is still somebody else, with the     *)
(* role the request came in with, unless their own membership was changed    *)
(* since.  The two exceptions are views.py:2161-2187 acting on two rows read  *)
(* earlier: a request of an owner demoted meanwhile still makes an owner, and *)
(* a manager's request still removes a member promoted meanwhile.  What is    *)
(* meant, without them, is AuthorityAtTheWrite.                               *)
AuthorityHolds ==
    [][\A s \in Slot : Lands(s) =>
         /\ role'[req[s].target] = "owner" => req[s].role = "owner"
         /\ role[req[s].target] = "owner" => req[s].role = "owner" \/ "target" \in stale[s]
         /\ \/ req[s].actor # req[s].target /\ role[req[s].actor] = req[s].role
            \/ "actor" \in stale[s]]_vars

(* "Only an owner can grant or change the owner role"                        *)
(* (dashboard/views.py:2172), by the memberships as they are when it is       *)
(* granted or changed.                                                        *)
AuthorityAtTheWrite ==
    [][\A s \in Slot : Lands(s) /\ "owner" \in {role[req[s].target], role'[req[s].target]} =>
         role[req[s].actor] = "owner"]_vars

(* A member who has never had a password was mailed the link that sets one,   *)
(* or the request that made their User still has that before it, or it ended  *)
(* before its mail: at the insert of the membership, which another request    *)
(* may have made by then, at the mail, or killed.  Nobody else sends it: a    *)
(* request that finds the User, however it got there, ends without a mail     *)
(* (accounts/invites.py:41-60).                                               *)
InvitedWereMailed ==
    \A p \in Person : role[p] # "none" /\ account[p] = "invited" /\ link[p] = "none" =>
        p \in failed \/ \E s \in Slot : Invites(req[s], p)
=============================================================================
