---------------------------- MODULE Provisioning ----------------------------
(***************************************************************************)
(* How a theater's subdomain gets its nginx site, and loses it: the queue  *)
(* the admin fills (tenants/admin.py), the cron worker that drains it      *)
(* (provision_pending_tenants), `boxoffice add-tenant` which both the      *)
(* worker and an operator run, `boxoffice remove-tenant`, and what a       *)
(* visitor of the subdomain is answered (tenants/middleware.py).           *)
(*                                                                         *)
(* A worker is started every minute and may take ten: several overlap.     *)
(* What it does to the database are autocommit statements, what it does to *)
(* the machine is done by a shell script: each is a step here, it may be   *)
(* stopped after any, and certbot and DNS may fail.                        *)
(***************************************************************************)
EXTENDS Naturals, FiniteSets

CONSTANTS Tenant,    \* the rows of Organization, by primary key
          Reserved,  \* those with a subdomain of settings.RESERVED_SUBDOMAINS
          Tick,      \* the workers that cron may have running at once
          Shell,     \* the operator's terminal
          MaxAsk,    \* bound: how often the admin queues tenants
          MaxDie,    \* bound: how many workers and terminals are killed
          MaxCommand \* bound: how many commands the operator gives

ASSUME PrimaryKeys      == Tenant \subseteq Nat /\ IsFiniteSet(Tenant) /\ Reserved \subseteq Tenant
ASSUME ShellIsNoTick    == Shell \notin Tick
ASSUME ProvisionBounds  == MaxAsk \in Nat /\ MaxDie \in Nat /\ MaxCommand \in Nat

VARIABLES infra,   \* Organization.infra_status; "absent" and "gone": no row, yet or any more
          active,  \* Organization.is_active
          conf,    \* the file in sites-available: "none", "empty" (opened, not written) or "whole"
          linked,  \* the tenants with a link in sites-enabled
          live,    \* the tenants nginx serves, as of when it last loaded its configuration
          proc,    \* the workers and the terminal
          mark,    \* what has happened to a tenant, for the properties
          asks, deaths, commands

vars == <<infra, active, conf, linked, live, proc, mark, asks, deaths, commands>>

Idle == [step |-> "idle"]

Init == /\ infra = [t \in Tenant |-> "absent"]
        /\ active = [t \in Tenant |-> TRUE]
        /\ conf = [t \in Tenant |-> "none"]
        /\ linked = {}
        /\ live = {}
        /\ proc = [p \in Tick \cup {Shell} |-> Idle]
        /\ mark = [t \in Tenant |-> {}]
        /\ asks = 0
        /\ deaths = 0
        /\ commands = 0

JobSteps == {"site", "open", "fill", "link", "reload", "tls"}    \* inside `add-tenant`
AtWork   == JobSteps \cup {"refuse", "done", "failed"}  \* what a worker has a row claimed for

Rows         == {t \in Tenant : infra[t] \notin {"absent", "gone"}}
Pending      == {t \in Tenant : infra[t] = "pending"}
Oldest(S)    == CHOOSE t \in S : \A u \in S : t <= u
Works(k, t)  == proc[k].step \in AtWork /\ proc[k].org = t
Workers(t)   == {k \in Tick : Works(k, t)}
Mark(t, m)   == mark' = [mark EXCEPT ![t] = @ \cup {m}]
Host         == <<conf, linked, live>>
Bounds       == <<asks, deaths, commands>>

-----------------------------------------------------------------------------
(* The admin                                                               *)

(* A row is added in the admin, which does not look at its subdomain. *)
Create(t) == /\ infra[t] = "absent"
             /\ infra' = [infra EXCEPT ![t] = "none"]
             /\ UNCHANGED <<active, Host, proc, mark, Bounds>>

(* provision_infrastructure: the rows selected that are not in the queue.  *)
(* One with a worker at it is queued again all the same.                   *)
Queue(S) ==
  /\ asks < MaxAsk
  /\ S \subseteq Rows \ Pending /\ S # {}
  /\ infra' = [t \in Tenant |-> IF t \in S THEN "pending" ELSE infra[t]]
  /\ mark' = [t \in Tenant |->
                IF t \notin S THEN mark[t]
                ELSE (mark[t] \ {"stranded"}) \cup
                       (IF Workers(t) # {} THEN {"requeued"} ELSE {})]
  /\ asks' = asks + 1
  /\ UNCHANGED <<active, Host, proc, deaths, commands>>

(* is_active ticked again on the change form *)
Reactivate(t) == /\ t \in Rows /\ ~active[t]
                 /\ active' = [active EXCEPT ![t] = TRUE]
                 /\ UNCHANGED <<infra, Host, proc, mark, Bounds>>

-----------------------------------------------------------------------------
(* The worker                                                              *)

Scanning(S) == IF S = {} THEN Idle ELSE [step |-> "scan", rest |-> S]
Step(p, st) == proc' = [proc EXCEPT ![p].step = st]

(* The queue is read once, in the order of the primary keys. *)
Start(k) == /\ proc[k] = Idle
            /\ Pending # {}
            /\ proc' = [proc EXCEPT ![k] = Scanning(Pending)]
            /\ UNCHANGED <<infra, active, Host, mark, Bounds>>

(* Mutant: the row is claimed as it was read, by its key alone. *)
ClaimBlindly(k) ==
  /\ proc[k].step = "scan"
  /\ LET t == Oldest(proc[k].rest)
         S == proc[k].rest \ {t}
     IN  IF infra[t] = "gone"
         THEN /\ proc' = [proc EXCEPT ![k] = Scanning(S)]
              /\ UNCHANGED infra
         ELSE /\ infra' = [infra EXCEPT ![t] = "provisioning"]
              /\ proc' = [proc EXCEPT ![k] = [step |-> IF t \in Reserved THEN "refuse" ELSE "site",
                                              org |-> t, rest |-> S]]
  /\ UNCHANGED <<active, Host, mark, Bounds>>

(* Mutant: a reserved row is not taken out of the queue. *)
ClaimNoReserved(k) ==
  /\ proc[k].step = "scan"
  /\ LET t == Oldest(proc[k].rest)
         S == proc[k].rest \ {t}
     IN  IF infra[t] # "pending" \/ t \in Reserved
         THEN /\ proc' = [proc EXCEPT ![k] = Scanning(S)]
              /\ UNCHANGED infra
         ELSE /\ infra' = [infra EXCEPT ![t] = "provisioning"]
              /\ proc' = [proc EXCEPT ![k] = [step |-> "site", org |-> t, rest |-> S]]
  /\ UNCHANGED <<active, Host, mark, Bounds>>

(* A row is claimed if it is still pending, and a reserved one is then     *)
(* refused without running anything.                                       *)
Claim(k) ==
  /\ proc[k].step = "scan"
  /\ LET t == Oldest(proc[k].rest)
         S == proc[k].rest \ {t}
     IN  IF infra[t] # "pending"
         THEN /\ proc' = [proc EXCEPT ![k] = Scanning(S)]
              /\ UNCHANGED infra
         ELSE /\ infra' = [infra EXCEPT ![t] = "provisioning"]
              /\ proc' = [proc EXCEPT ![k] = [step |-> IF t \in Reserved THEN "refuse" ELSE "site",
                                              org |-> t, rest |-> S]]
  /\ UNCHANGED <<active, Host, mark, Bounds>>

(* No other worker is at t, so that what was done to it twice is over. *)
Leave(k, t) == mark' = [mark EXCEPT ![t] = IF Workers(t) = {k} THEN @ \ {"requeued"} ELSE @]

(* Mutant: only a success is written back. *)
FinishGood(k, status) ==
  LET t == proc[k].org IN
  /\ infra' = [infra EXCEPT ![t] = IF t \in Rows /\ status # "failed" THEN status ELSE @]
  /\ Leave(k, t)
  /\ UNCHANGED <<active, Host, Bounds>>

(* _finish: the outcome is written whatever the row says by now. *)
Finish(k, status) ==
  LET t == proc[k].org IN
  /\ infra' = [infra EXCEPT ![t] = IF t \in Rows THEN status ELSE @]
  /\ Leave(k, t)
  /\ UNCHANGED <<active, Host, Bounds>>

Refuse(k) == /\ proc[k].step = "refuse"
             /\ Finish(k, "failed")
             /\ proc' = [proc EXCEPT ![k] = Scanning(@.rest)]

(* One job to a run: what is left of the queue is the next worker's. *)
End(k) == \E r \in {"done", "failed"} :
            /\ proc[k].step = r
            /\ Finish(k, IF r = "done" THEN "provisioned" ELSE "failed")
            /\ proc' = [proc EXCEPT ![k] = Idle]

(* subprocess.TimeoutExpired: the script is killed where it stands. *)
Timeout(k) == /\ proc[k].step \in JobSteps
              /\ Step(k, "failed")
              /\ UNCHANGED <<infra, active, Host, mark, Bounds>>

(* The machine goes down, or the worker is killed with its script.  A      *)
(* terminal closed between the row and the site leaves the site.           *)
Die(p) == /\ deaths < MaxDie
          /\ proc[p] # Idle
          /\ proc' = [proc EXCEPT ![p] = Idle]
          /\ CASE p \in Tick /\ proc[p].step \in AtWork ->
                    mark' = [mark EXCEPT ![proc[p].org] =
                               (IF Workers(proc[p].org) = {p} THEN @ \ {"requeued"} ELSE @)
                                  \cup {"stranded"}]
               [] p = Shell /\ proc[p].step = "rm" -> Mark(proc[p].org, "left over")
               [] OTHER -> UNCHANGED mark
          /\ deaths' = deaths + 1
          /\ UNCHANGED <<infra, active, Host, asks, commands>>

-----------------------------------------------------------------------------
(* add-tenant, from the DNS record on: run by a worker or at the terminal  *)

(* The script ends: a worker gets its exit status, a terminal the prompt.  *)
Exit(p, result) == proc' = [proc EXCEPT ![p] = IF p = Shell THEN Idle ELSE [@ EXCEPT !.step = result]]
At(p, st)       == proc[p].step = st
Org(p)          == proc[p].org

(* Mutant: a file that exists is taken for a site that is enabled. *)
SiteTakenForEnabled(p) ==
  /\ At(p, "site")
  /\ \/ Exit(p, "failed")
     \/ Step(p, IF conf[Org(p)] # "none" THEN "tls" ELSE "open")
  /\ UNCHANGED <<infra, active, Host, mark, Bounds>>

(* Up to the test for the file in sites-available: nginx is not installed, *)
(* or doctl is refused the A record, and the script ends.  A file that     *)
(* exists is left as it is, whatever is in it...                           *)
Site(p) ==
  /\ At(p, "site")
  /\ \/ Exit(p, "failed")
     \/ Step(p, IF conf[Org(p)] # "none" THEN "link" ELSE "open")
  /\ UNCHANGED <<infra, active, Host, mark, Bounds>>

(* ...another is opened, which empties what a second script may have put   *)
(* there since: nginx serves what it has read until it reads again.        *)
Open(p) ==
  /\ At(p, "open")
  /\ \/ /\ conf' = [conf EXCEPT ![Org(p)] = "empty"]
        /\ mark' = [mark EXCEPT ![Org(p)] = IF conf[Org(p)] = "whole" THEN @ \cup {"dark"} ELSE @]
        /\ Step(p, "fill")
     \/ Exit(p, "failed") /\ UNCHANGED <<conf, mark>>
  /\ UNCHANGED <<infra, active, linked, live, Bounds>>

(* The server block goes into the file just opened, if it is still there   *)
(* and the disk takes it.                                                  *)
Fill(p) ==
  /\ At(p, "fill")
  /\ \/ /\ conf' = [conf EXCEPT ![Org(p)] = IF @ = "none" THEN @ ELSE "whole"]
        /\ Step(p, "link")
     \/ Exit(p, "failed") /\ UNCHANGED conf
  /\ UNCHANGED <<infra, active, linked, live, mark, Bounds>>

LoadedFrom(L) == {t \in L : conf[t] = "whole"}
Loadable(L)   == \A t \in L : conf[t] # "none"    \* no link leads nowhere

(* What is known of a tenant when nginx has just read what is linked: a    *)
(* site is dark whose whole file nginx does not have.                      *)
Loaded(t) == IF t \notin linked THEN mark[t]
             ELSE IF conf[t] = "whole" THEN mark[t] \ {"dark"}
             ELSE mark[t] \cup {"dark"}

Link(p) ==
  /\ At(p, "link")
  /\ \/ linked' = linked \cup {Org(p)} /\ Step(p, "reload")
     \/ Exit(p, "failed") /\ UNCHANGED linked
  /\ UNCHANGED <<infra, active, conf, live, mark, Bounds>>

(* `nginx -t && systemctl reload nginx`: a configuration that nginx will   *)
(* not take, this tenant's or any other's, leaves the old one running, and *)
(* the script goes on; that the reload itself fails ends it (set -e looks  *)
(* at the last of the two only).                                           *)
Reload(p) ==
  /\ At(p, "reload")
  /\ \/ /\ Loadable(linked)
        /\ live' = LoadedFrom(linked)
        /\ mark' = [mark EXCEPT ![Org(p)] = Loaded(Org(p))]
        /\ Step(p, "tls")
     \/ /\ Mark(Org(p), "dark")
        /\ Step(p, "tls")
        /\ UNCHANGED live
     \/ /\ Loadable(linked)
        /\ Exit(p, "failed")
        /\ UNCHANGED <<live, mark>>
  /\ UNCHANGED <<infra, active, conf, linked, Bounds>>

(* certbot reloads nginx when it has a certificate; that it has none is a  *)
(* warning.                                                                *)
Tls(p) ==
  /\ At(p, "tls")
  /\ \/ /\ Org(p) \in LoadedFrom(linked) /\ Loadable(linked)
        /\ live' = LoadedFrom(linked)
     \/ UNCHANGED live
  /\ Exit(p, "done")
  /\ UNCHANGED <<infra, active, conf, linked, mark, Bounds>>

Job(p) == Site(p) \/ Open(p) \/ Fill(p) \/ Link(p) \/ Reload(p) \/ Tls(p)

-----------------------------------------------------------------------------
(* The terminal                                                            *)

Command(c) == /\ commands < MaxCommand
              /\ proc[Shell] = Idle
              /\ proc' = [proc EXCEPT ![Shell] = c]
              /\ commands' = commands + 1

(* add-tenant, whole: first the row.  (One that was purged stays so.) *)
AddTenant(t, root) == /\ infra[t] # "gone"
                      /\ Command([step |-> "row", org |-> t, root |-> root])
                      /\ UNCHANGED <<infra, active, Host, mark, asks, deaths>>

(* provision_tenant: get_or_create, for a name that is not reserved; what  *)
(* needs root is skipped without it.                                       *)
AddRow ==
  /\ At(Shell, "row")
  /\ LET t == Org(Shell) IN
     /\ infra' = [infra EXCEPT ![t] = IF @ = "absent" /\ t \notin Reserved THEN "none" ELSE @]
     /\ IF proc[Shell].root /\ t \notin Reserved
        THEN proc' = [proc EXCEPT ![Shell] = [step |-> "site", org |-> t]]
        ELSE Exit(Shell, "done")
  /\ UNCHANGED <<active, Host, mark, Bounds>>

(* add-tenant --infra-only, as root: nothing is asked of the row. *)
AddInfra(t) == /\ Command([step |-> "site", org |-> t])
               /\ Mark(t, "by hand")
               /\ UNCHANGED <<infra, active, Host, asks, deaths>>

RemoveTenant(t, purge, root) ==
  /\ Command([step |-> "drop", org |-> t, root |-> root, purge |-> purge])
  /\ UNCHANGED <<infra, active, Host, mark, asks, deaths>>

(* remove_tenant: the row is deactivated, or deleted.  Without a row it is *)
(* an error, and the script ends there; without root it ends here too.     *)
Drop ==
  /\ At(Shell, "drop")
  /\ LET t == Org(Shell)
         c == proc[Shell] IN
     IF t \notin Rows
     THEN Exit(Shell, "failed") /\ UNCHANGED <<infra, active, mark>>
     ELSE /\ infra'  = [infra EXCEPT ![t] = IF c.purge THEN "gone" ELSE @]
          /\ active' = [active EXCEPT ![t] = c.purge /\ @]
          /\ mark' = [mark EXCEPT ![t] = @ \cup (IF Workers(t) # {} THEN {"crossed"} ELSE {})
                                            \cup (IF c.root THEN {} ELSE {"left over"})]
          /\ IF c.root THEN Step(Shell, "rm") ELSE Exit(Shell, "done")
  /\ UNCHANGED <<Host, Bounds>>

(* Mutant: the site is taken out of service and its file kept. *)
RmLink ==
  /\ At(Shell, "rm")
  /\ LET t == Org(Shell) IN
     /\ linked' = linked \ {t}
     /\ Mark(t, "dark")
     /\ IF t \in linked THEN Step(Shell, "unload") ELSE Exit(Shell, "done")
  /\ UNCHANGED <<infra, active, conf, live, Bounds>>

(* The link and the file go. *)
Rm ==
  /\ At(Shell, "rm")
  /\ LET t == Org(Shell) IN
     /\ linked' = linked \ {t}
     /\ conf' = [conf EXCEPT ![t] = "none"]
     /\ Mark(t, "dark")
     /\ IF t \in linked \/ conf[t] # "none" THEN Step(Shell, "unload") ELSE Exit(Shell, "done")
  /\ UNCHANGED <<infra, active, live, Bounds>>

Unload == /\ At(Shell, "unload")
          /\ \/ Loadable(linked) /\ live' = LoadedFrom(linked)
             \/ UNCHANGED live
          /\ Exit(Shell, "done")
          /\ UNCHANGED <<infra, active, conf, linked, mark, Bounds>>

-----------------------------------------------------------------------------
Worker(k) == Start(k) \/ Claim(k) \/ Refuse(k) \/ End(k) \/ Job(k)

Next == \/ \E t \in Tenant : Create(t) \/ Reactivate(t)
        \/ \E S \in SUBSET Tenant : Queue(S)
        \/ \E k \in Tick : Worker(k) \/ Timeout(k)
        \/ \E p \in Tick \cup {Shell} : Die(p)
        \/ Job(Shell) \/ AddRow \/ Drop \/ Rm \/ Unload
        \/ \E t \in Tenant, root \in BOOLEAN :
             \/ AddTenant(t, root)
             \/ \E purge \in BOOLEAN : RemoveTenant(t, purge, root)
        \/ \E t \in Tenant : AddInfra(t)

(* cron starts a worker every minute, and a worker goes on: its script is  *)
(* given ten minutes.  The admin and the operator need do nothing.         *)
Spec == Init /\ [][Next]_vars /\ \A k \in Tick : WF_vars(Worker(k))

-----------------------------------------------------------------------------
(* TenantMiddleware: what a visitor of the tenant's subdomain is answered. *)
Answer(t) == CASE t \notin live           -> "no site"
               [] t \in Reserved          -> "platform"
               [] t \notin Rows           -> "unknown"
               [] ~active[t]              -> "inactive"
               [] OTHER                   -> "theater"

Status == {"absent", "gone", "none", "pending", "provisioning", "provisioned", "failed"}
Marks  == {"requeued", "stranded", "crossed", "left over", "dark", "by hand"}

Jobs == [step : AtWork, org : Tenant, rest : SUBSET Tenant]
Scan == [step : {"scan"}, rest : (SUBSET Tenant) \ {{}}]
Commands == [step : JobSteps, org : Tenant]
              \cup [step : {"row"}, org : Tenant, root : BOOLEAN]
              \cup [step : {"drop", "rm", "unload"}, org : Tenant, root : BOOLEAN, purge : BOOLEAN]

(* The types; only what nginx was given a link to is served, and a link    *)
(* leads to a file unless a job wrote it while the file was removed.       *)
TypeOK == /\ infra \in [Tenant -> Status]
          /\ active \in [Tenant -> BOOLEAN]
          /\ conf \in [Tenant -> {"none", "empty", "whole"}]
          /\ linked \subseteq Tenant
          /\ live \subseteq Tenant
          /\ proc \in [Tick \cup {Shell} -> {Idle} \cup Jobs \cup Scan \cup Commands]
          /\ \A k \in Tick : proc[k] \in {Idle} \cup Jobs \cup Scan
          /\ proc[Shell] \in {Idle} \cup Commands
          /\ mark \in [Tenant -> SUBSET Marks]
          /\ asks \in 0..MaxAsk /\ deaths \in 0..MaxDie /\ commands \in 0..MaxCommand

(* "each row is claimed atomically so overlapping ticks can't double-      *)
(* provision" (provision_pending_tenants.py:14): two workers are at one    *)
(* tenant only when the admin queued it again under the first.             *)
WorkersKeepApart ==
  \A t \in Tenant : Cardinality(Workers(t)) <= 1 \/ "requeued" \in mark[t]

(* What the status column tells the admin: a row is `Provisioning...` only *)
(* while a worker is at it or after one was killed, and one with a worker  *)
(* at it says so, unless it was queued again or purged since.              *)
StatusTellsTheWork ==
  \A t \in Tenant :
    /\ infra[t] = "provisioning" => Workers(t) # {} \/ "stranded" \in mark[t]
    /\ Workers(t) # {} => infra[t] \in {"provisioning", "gone"} \/ "requeued" \in mark[t]

(* A tenant whose status is `Live` is served its theater, whoever is at it *)
(* and whatever was queued again, killed or timed out, as long as it is    *)
(* active and nginx has its whole file: it did not refuse it, no second    *)
(* script emptied it and nobody took it down since.  The status itself is  *)
(* only that the script exited with 0.                                     *)
LiveIsServed ==
  \A t \in Tenant :
    infra[t] = "provisioned" /\ active[t] /\ "dark" \notin mark[t] => Answer(t) = "theater"

(* "a reserved subdomain must never get a tenant vhost" (:108): not from    *)
(* the queue, nor by `add-tenant`, unless the operator skips the row.      *)
ReservedHasNoSite ==
  \A t \in Reserved : conf[t] # "none" \/ t \in linked => "by hand" \in mark[t]

(* A purged tenant keeps a site only if a worker was at it when the row    *)
(* went, the command was not run as root or was killed before it came to   *)
(* the site, or the operator put it up; a worker that had read the row     *)
(* before it was claimed lets it go.                                       *)
PurgedHasNoSite ==
  \A t \in Tenant :
    infra[t] = "gone" /\ mark[t] \cap {"crossed", "left over", "by hand"} = {}
    => conf[t] = "none" \/ (At(Shell, "rm") /\ Org(Shell) = t)

(* The queue empties once the admin stops adding to it: each run takes one *)
(* job, what was read and lost to another worker or to its row's removal   *)
(* is passed over, and a tenant that is refused does not hold up the rest. *)
QueueDrains == Pending # {} ~> Pending = {}

(* Of the command run without root it is said "re-run as root to finish"   *)
(* (bin/boxoffice:413): once the re-run has ended, the site is gone, if no  *)
(* worker was at it.                                                       *)
RerunFinishes ==
  [][\A t \in Tenant :
       (/\ "left over" \in mark[t] /\ "crossed" \notin mark[t] /\ proc[Shell].step \in {"drop", "rm", "unload"}
        /\ Org(Shell) = t /\ proc[Shell].root /\ proc'[Shell] = Idle)
       => conf'[t] = "none"]_vars
=============================================================================
