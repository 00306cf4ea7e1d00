-------------------------- MODULE ProvisioningProofs --------------------------
(***************************************************************************)
(* What holds of the queue and of the sites for any number of tenants and  *)
(* of overlapping workers, killed and timed out anywhere, and any commands *)
(* at the terminal.                                                        *)
(***************************************************************************)
EXTENDS Provisioning, TLAPS, FiniteSetTheorems, WellFoundedInduction

(* Two workers at one tenant are the admin's doing. *)
Apart ==
  \A t \in Tenant : \A k, l \in Tick :
    k # l /\ Works(k, t) /\ Works(l, t) => "requeued" \in mark[t]

(* A worker that claimed a reserved row only refuses it, and a script is at *)
(* one only by hand.                                                        *)
ReservedApart ==
  \A t \in Reserved :
    /\ infra[t] # "provisioned"
    /\ \A k \in Tick : Works(k, t) => proc[k].step = "refuse"
    /\ proc[Shell].step \in JobSteps /\ proc[Shell].org = t => "by hand" \in mark[t]

(* Nobody is left to write a file for a row that is gone. *)
GoneForGood ==
  \A t \in Tenant :
    infra[t] = "gone" /\ mark[t] \cap {"crossed", "left over", "by hand"} = {}
    => /\ \A k \in Tick : ~Works(k, t)
       /\ ~(proc[Shell].step \in JobSteps \cup {"row"} /\ proc[Shell].org = t)

(* Past nginx's answer, a tenant that is not dark is served from a whole    *)
(* file that a link leads to.                                               *)
PastReload(t) == \/ infra[t] = "provisioned"
                 \/ \E k \in Tick : Works(k, t) /\ proc[k].step \in {"tls", "done"}

Hosted ==
  \A t \in Tenant :
    PastReload(t) /\ "dark" \notin mark[t]
    => t \in linked /\ conf[t] = "whole" /\ t \in live

(* Who is about to reload nginx has linked its tenant, or the site was taken *)
(* down since.                                                              *)
LinkedOrDark ==
  \A p \in Tick \cup {Shell} :
    proc[p].step = "reload" => proc[p].org \in linked \/ "dark" \in mark[proc[p].org]

(* The inductive invariant, with LinkedOrDark beside it. *)
IInv == /\ TypeOK /\ Apart /\ StatusTellsTheWork
        /\ ReservedApart /\ ReservedHasNoSite
        /\ GoneForGood /\ PurgedHasNoSite
        /\ Hosted

-----------------------------------------------------------------------------
(* Every queue that is not empty has an oldest row. *)
LEMMA OldestIsOne == ASSUME NEW S \in SUBSET Tenant, S # {} PROVE Oldest(S) \in S
<1>1. S \subseteq Nat
  BY PrimaryKeys
<1>2. \E t \in S : \A u \in S : ~(<<u, t>> \in OpToRel(<, Nat))
  BY <1>1, NatLessThanWellFounded, WFMin
<1>3. PICK t \in S : \A u \in S : ~(<<u, t>> \in OpToRel(<, Nat))
  BY <1>2
<1>4. \A u \in S : t <= u
  <2> SUFFICES ASSUME NEW u \in S, u < t PROVE FALSE
    BY <1>1
  <2>1. <<u, t>> \in Nat \X Nat /\ <<u, t>>[1] < <<u, t>>[2]
    BY <1>1
  <2>2. <<u, t>> \in OpToRel(<, Nat)
    BY ONLY <2>1 DEF OpToRel
  <2> QED
    BY <1>3, <2>2
<1> QED
  BY <1>4 DEF Oldest

(* What a worker, or the terminal, is at. *)
LEMMA WorkerFields ==
  ASSUME NEW r \in {Idle} \cup Jobs \cup Scan
  PROVE  /\ r.step \in AtWork \cup {"idle", "scan"}
         /\ r.step = "idle" => r = Idle
         /\ r.step = "scan" => r.rest \in SUBSET Tenant /\ r.rest # {}
         /\ r.step \in AtWork => r.org \in Tenant /\ r.rest \in SUBSET Tenant
         /\ r.step \in AtWork => \A st \in AtWork :
              /\ [r EXCEPT !.step = st] \in Jobs
              /\ [r EXCEPT !.step = st].step = st /\ [r EXCEPT !.step = st].org = r.org
<1>1. CASE r = Idle
  BY <1>1 DEF Idle, AtWork, JobSteps
<1>2. CASE r \in Scan
  BY <1>2 DEF Scan, AtWork, JobSteps
<1>3. CASE r \in Jobs
  BY <1>3 DEF Jobs, AtWork, JobSteps
<1> QED
  BY <1>1, <1>2, <1>3

LEMMA ShellFields ==
  ASSUME NEW r \in {Idle} \cup Commands
  PROVE  /\ r.step \in JobSteps \cup {"idle", "row", "drop", "rm", "unload"}
         /\ r.step = "idle" => r = Idle
         /\ r.step # "idle" => r.org \in Tenant
         /\ r.step \in {"row", "drop", "rm", "unload"} => r.root \in BOOLEAN
         /\ r.step \in {"drop", "rm", "unload"} => r.purge \in BOOLEAN
         /\ r.step \in JobSteps => \A st \in JobSteps :
              /\ [r EXCEPT !.step = st] \in Commands
              /\ [r EXCEPT !.step = st].step = st /\ [r EXCEPT !.step = st].org = r.org
         /\ r.step \in {"drop", "rm", "unload"} => \A st \in {"drop", "rm", "unload"} :
              /\ [r EXCEPT !.step = st] \in Commands
              /\ [r EXCEPT !.step = st].step = st /\ [r EXCEPT !.step = st].org = r.org
<1> DEFINE J == [step : JobSteps, org : Tenant]
           R == [step : {"row"}, org : Tenant, root : BOOLEAN]
           D == [step : {"drop", "rm", "unload"}, org : Tenant, root : BOOLEAN, purge : BOOLEAN]
<1>1. Commands = J \cup R \cup D
  BY DEF Commands
<1>2. CASE r = Idle
  BY <1>2 DEF Idle, JobSteps
<1>3. CASE r \in J
  <2>1. /\ r.step \in JobSteps /\ r.org \in Tenant
        /\ \A st \in JobSteps : [r EXCEPT !.step = st] \in J /\ [r EXCEPT !.step = st].step = st
                                 /\ [r EXCEPT !.step = st].org = r.org
    BY <1>3
  <2>2. r.step \notin {"idle", "row", "drop", "rm", "unload"}
    BY <2>1 DEF JobSteps
  <2> QED
    BY <1>1, <2>1, <2>2
<1>4. CASE r \in R
  BY <1>4 DEF JobSteps
<1>5. CASE r \in D
  <2>1. /\ r.step \in {"drop", "rm", "unload"} /\ r.org \in Tenant
        /\ r.root \in BOOLEAN /\ r.purge \in BOOLEAN
        /\ \A st \in {"drop", "rm", "unload"} :
             [r EXCEPT !.step = st] \in D /\ [r EXCEPT !.step = st].step = st
                                 /\ [r EXCEPT !.step = st].org = r.org
    BY <1>5
  <2>2. r.step \notin {"idle", "row"} \cup JobSteps
    BY <2>1 DEF JobSteps
  <2> QED
    BY <1>1, <2>1, <2>2
<1> QED
  BY <1>1, <1>2, <1>3, <1>4, <1>5

LEMMA InitInv == ASSUME Init PROVE IInv
<1>1. Idle \in {Idle} /\ Idle.step = "idle" /\ Idle.step \notin AtWork \cup {"row", "rm"}
  BY DEF Idle, AtWork, JobSteps
<1>2. \A p \in Tick \cup {Shell} : proc[p] = Idle
  BY DEF Init
<1>3. TypeOK
  BY <1>2, ProvisionBounds DEF Init, TypeOK, Status
<1>4. \A k \in Tick, t \in Tenant : ~Works(k, t)
  BY <1>1, <1>2 DEF Works
<1>5. \A t \in Tenant : Workers(t) = {}
  BY <1>4 DEF Workers
<1>6. Apart /\ StatusTellsTheWork
  BY <1>4, <1>5 DEF Init, Apart, StatusTellsTheWork
<1>7. ReservedApart /\ ReservedHasNoSite
  BY <1>1, <1>2, <1>4, PrimaryKeys DEF Init, ReservedApart, ReservedHasNoSite, AtWork
<1>8. GoneForGood /\ PurgedHasNoSite /\ Hosted
  BY <1>1, <1>2, <1>4 DEF Init, GoneForGood, PurgedHasNoSite, Hosted, PastReload
<1> QED
  BY <1>3, <1>6, <1>7, <1>8 DEF IInv

-----------------------------------------------------------------------------
(* The rows: the workers and the machine are left alone. *)

LEMMA SameWorkers ==
  ASSUME UNCHANGED proc
  PROVE  /\ \A k \in Tick, t \in Tenant : Works(k, t)' = Works(k, t)
         /\ \A t \in Tenant : Workers(t)' = Workers(t)
  BY DEF Works, Workers

LEMMA RowStep ==
  ASSUME IInv, \E t \in Tenant : Create(t) \/ Reactivate(t)
  PROVE  IInv'
<1>1. PICK t \in Tenant : Create(t) \/ Reactivate(t)
  OBVIOUS
<1>2. UNCHANGED <<conf, linked, live, proc, mark, asks, deaths, commands>>
  BY <1>1 DEF Create, Reactivate, Host, Bounds
<1>3. \A u \in Tenant : infra'[u] = infra[u] \/ (infra[u] = "absent" /\ infra'[u] = "none")
  BY <1>1 DEF Create, Reactivate, IInv, TypeOK
<1>4. TypeOK'
  BY <1>1, <1>2 DEF Create, Reactivate, IInv, TypeOK, Status
<1>5. Apart' /\ StatusTellsTheWork'
  BY <1>2, <1>3, SameWorkers DEF IInv, Apart, StatusTellsTheWork
<1>6. ReservedApart' /\ ReservedHasNoSite'
  BY <1>2, <1>3, SameWorkers, PrimaryKeys DEF IInv, ReservedApart, ReservedHasNoSite
<1>7. GoneForGood' /\ PurgedHasNoSite' /\ Hosted'
  BY <1>2, <1>3, SameWorkers DEF IInv, GoneForGood, PurgedHasNoSite, Hosted, PastReload, At, Org
<1> QED
  BY <1>4, <1>5, <1>6, <1>7 DEF IInv

LEMMA QueueStep == ASSUME IInv, NEW S \in SUBSET Tenant, Queue(S) PROVE IInv'
<1>1. UNCHANGED <<active, conf, linked, live, proc, deaths, commands>> /\ S \subseteq Rows
  BY DEF Queue, Host
<1>2. \A u \in Tenant : infra'[u] = IF u \in S THEN "pending" ELSE infra[u]
  BY DEF Queue
<1>3. \A u \in Tenant :
        mark'[u] = IF u \notin S THEN mark[u]
                   ELSE (mark[u] \ {"stranded"}) \cup (IF Workers(u) # {} THEN {"requeued"} ELSE {})
  BY DEF Queue
<1>4. \A u \in Tenant, m \in {"crossed", "left over", "by hand", "dark"} :
        m \in mark'[u] <=> m \in mark[u]
  BY <1>3
<1>5. \A u \in Tenant : "requeued" \in mark[u] => "requeued" \in mark'[u]
  BY <1>3
<1>6. TypeOK'
  <2>1. infra' \in [Tenant -> Status] /\ mark' \in [Tenant -> SUBSET Marks]
    BY DEF Queue, IInv, TypeOK, Status, Marks
  <2>2. asks' \in 0 .. MaxAsk
    BY ProvisionBounds DEF Queue, IInv, TypeOK
  <2> QED
    BY <1>1, <2>1, <2>2 DEF IInv, TypeOK
<1>7. Apart' /\ StatusTellsTheWork'
  BY <1>1, <1>2, <1>3, <1>5, SameWorkers DEF IInv, Apart, StatusTellsTheWork
<1>8. ReservedApart' /\ ReservedHasNoSite'
  BY <1>1, <1>2, <1>4, SameWorkers, PrimaryKeys DEF IInv, ReservedApart, ReservedHasNoSite
<1>9. GoneForGood' /\ PurgedHasNoSite'
  <2>1. \A u \in Tenant : infra'[u] = "gone" /\ mark'[u] \cap {"crossed", "left over", "by hand"} = {} =>
                          infra[u] = "gone" /\ mark[u] \cap {"crossed", "left over", "by hand"} = {}
    BY <1>2, <1>4
  <2>2. GoneForGood'
    BY <1>1, <2>1, SameWorkers DEF IInv, GoneForGood
  <2> QED
    BY <1>1, <2>1, <2>2 DEF IInv, PurgedHasNoSite, At, Org
<1>10. Hosted'
  BY <1>1, <1>2, <1>4, SameWorkers DEF IInv, Hosted, PastReload
<1> QED
  BY <1>6, <1>7, <1>8, <1>9, <1>10 DEF IInv

-----------------------------------------------------------------------------
(* The workers *)

LEMMA WorkerMoves ==
  ASSUME TypeOK, NEW k \in Tick, NEW r \in {Idle} \cup Jobs \cup Scan, proc' = [proc EXCEPT ![k] = r]
  PROVE  /\ proc' \in [Tick \cup {Shell} -> {Idle} \cup Jobs \cup Scan \cup Commands]
         /\ \A l \in Tick : proc'[l] \in {Idle} \cup Jobs \cup Scan
         /\ proc'[Shell] = proc[Shell] /\ proc[Shell] \in {Idle} \cup Commands
         /\ \A l \in Tick : proc'[l] = IF l = k THEN r ELSE proc[l]
         /\ \A l \in Tick, u \in Tenant :
              Works(l, u)' <=> (l = k /\ r.step \in AtWork /\ r.org = u) \/ (l # k /\ Works(l, u))
         /\ \A u \in Tenant : /\ Workers(u) # {} <=> \E l \in Tick : Works(l, u)
                              /\ Workers(u)' # {} <=> \E l \in Tick : Works(l, u)'
<1>1. \A p \in Tick \cup {Shell} : proc'[p] = IF p = k THEN r ELSE proc[p]
  BY DEF TypeOK
<1>2. k # Shell
  BY ShellIsNoTick
<1>3. \A l \in Tick, u \in Tenant :
        Works(l, u)' <=> (l = k /\ r.step \in AtWork /\ r.org = u) \/ (l # k /\ Works(l, u))
  BY <1>1 DEF Works
<1>4. proc' \in [Tick \cup {Shell} -> {Idle} \cup Jobs \cup Scan \cup Commands]
  BY DEF TypeOK
<1> QED
  BY <1>1, <1>2, <1>3, <1>4 DEF TypeOK, Workers

(* A worker that is at nothing, before and after. *)
LEMMA QuietStep ==
  ASSUME IInv, NEW k \in Tick, NEW r \in {Idle} \cup Scan, \A u \in Tenant : ~Works(k, u),
         proc' = [proc EXCEPT ![k] = r],
         UNCHANGED <<infra, active, conf, linked, live, mark, asks, deaths, commands>>
  PROVE  IInv'
<1>1. r.step \notin AtWork
  BY DEF Scan, Idle, AtWork, JobSteps
<1>2. \A l \in Tick, u \in Tenant : Works(l, u)' <=> Works(l, u)
  <2>1. \A l \in Tick : proc'[l] = IF l = k THEN r ELSE proc[l]
    BY WorkerMoves DEF IInv
  <2> QED
    BY <1>1, <2>1 DEF Works
<1>3. \A l \in Tick, u \in Tenant : Works(l, u) => proc'[l] = proc[l]
  BY WorkerMoves DEF IInv
<1>4. proc'[Shell] = proc[Shell]
  BY WorkerMoves DEF IInv
<1>5. \A u \in Tenant : Workers(u)' = Workers(u)
  BY <1>2 DEF Workers
<1>6. TypeOK'
  BY WorkerMoves DEF IInv, TypeOK
<1>7. Apart'
  BY <1>2 DEF IInv, Apart
<1>8. StatusTellsTheWork'
  BY <1>5 DEF IInv, StatusTellsTheWork
<1>9. ReservedApart' /\ ReservedHasNoSite'
  <2>1. ReservedHasNoSite'
    BY DEF IInv, ReservedHasNoSite
  <2>2. ReservedApart'
    BY <1>2, <1>3, <1>4, PrimaryKeys DEF IInv, ReservedApart
  <2> QED
    BY <2>1, <2>2
<1>10. GoneForGood' /\ PurgedHasNoSite'
  BY <1>2, <1>4 DEF IInv, GoneForGood, PurgedHasNoSite, At, Org
<1>11. Hosted'
  BY <1>2, <1>3 DEF IInv, Hosted, PastReload
<1> QED
  BY <1>6, <1>7, <1>8, <1>9, <1>10, <1>11 DEF IInv

LEMMA StartStep == ASSUME IInv, NEW k \in Tick, Start(k) PROVE IInv'
<1>1. Scanning(Pending) \in Scan
  BY DEF Start, Scanning, Scan, Pending
<1>2. \A u \in Tenant : ~Works(k, u)
  BY DEF Start, Works, Idle, AtWork, JobSteps
<1> QED
  BY <1>1, <1>2, QuietStep DEF Start, Host, Bounds

(* A row that is not pending is passed over; one that is gets a worker, so   *)
(* that a second worker at it means that it was queued again.                *)
LEMMA ClaimStep == ASSUME IInv, NEW k \in Tick, Claim(k) PROVE IInv'
<1> DEFINE t == Oldest(proc[k].rest)
           S == proc[k].rest \ {t}
           w == [step |-> IF t \in Reserved THEN "refuse" ELSE "site", org |-> t, rest |-> S]
<1>1. UNCHANGED <<active, conf, linked, live, mark, asks, deaths, commands>> /\ proc[k].step = "scan"
  BY DEF Claim, Host, Bounds
<1>2. proc[k].rest \in SUBSET Tenant /\ proc[k].rest # {}
  BY <1>1, WorkerFields DEF IInv, TypeOK
<1>3. t \in Tenant /\ S \in SUBSET Tenant
  BY <1>2, OldestIsOne
<1>4. \A u \in Tenant : ~Works(k, u)
  BY <1>1 DEF Works, AtWork, JobSteps
<1>5. CASE infra[t] # "pending"
  <2>1. proc' = [proc EXCEPT ![k] = Scanning(S)] /\ UNCHANGED infra
    BY <1>5 DEF Claim
  <2>2. Scanning(S) \in {Idle} \cup Scan
    BY <1>3 DEF Scanning, Scan
  <2> QED
    BY <1>1, <1>4, <2>1, <2>2, QuietStep
<1>6. CASE infra[t] = "pending"
  <2>1. proc' = [proc EXCEPT ![k] = w] /\ infra' = [infra EXCEPT ![t] = "provisioning"]
    BY <1>6 DEF Claim
  <2>2. w \in Jobs /\ w.step \in AtWork /\ w.org = t /\ w.step \notin {"tls", "done"}
        /\ (t \in Reserved => w.step = "refuse")
    BY <1>3 DEF Jobs, AtWork, JobSteps
  <2>3. \A u \in Tenant : infra'[u] = IF u = t THEN "provisioning" ELSE infra[u]
    BY <2>1 DEF IInv, TypeOK
  <2>4. \A l \in Tick : proc'[l] = IF l = k THEN w ELSE proc[l]
    BY <2>1, <2>2, WorkerMoves DEF IInv
  <2>5. \A l \in Tick, u \in Tenant : Works(l, u)' <=> (l = k /\ u = t) \/ (l # k /\ Works(l, u))
    BY <2>2, <2>4 DEF Works
  <2>6. \A l \in Tick : Works(l, t) => "requeued" \in mark[t]
    BY <1>3, <1>6, <2>1, <2>2, WorkerMoves DEF IInv, StatusTellsTheWork
  <2> HIDE DEF t, S, w
  <2>7. TypeOK'
    <3>1. infra' \in [Tenant -> Status]
      BY <2>1 DEF IInv, TypeOK, Status
    <3> QED
      BY <1>1, <2>1, <2>2, <3>1, WorkerMoves DEF IInv, TypeOK
  <2>8. Apart'
    BY <1>1, <1>3, <2>5, <2>6 DEF IInv, Apart
  <2>9. StatusTellsTheWork'
    <3>1. \A u \in Tenant : /\ Workers(u) # {} <=> \E l \in Tick : Works(l, u)
                            /\ Workers(u)' # {} <=> \E l \in Tick : Works(l, u)'
      BY <2>1, <2>2, WorkerMoves DEF IInv
    <3> SUFFICES ASSUME NEW u \in Tenant
                 PROVE  /\ infra'[u] = "provisioning" => Workers(u)' # {} \/ "stranded" \in mark'[u]
                        /\ Workers(u)' # {} =>
                             infra'[u] \in {"provisioning", "gone"} \/ "requeued" \in mark'[u]
      BY DEF StatusTellsTheWork
    <3>2. CASE u = t
      BY <2>3, <2>5, <3>1, <3>2
    <3>3. CASE u # t
      <4>1. Workers(u)' # {} <=> Workers(u) # {}
        BY <1>4, <2>5, <3>1, <3>3
      <4> QED
        BY <1>1, <2>3, <3>3, <4>1 DEF IInv, StatusTellsTheWork
    <3> QED
      BY <3>2, <3>3
  <2>10. proc'[Shell] = proc[Shell]
    BY <2>1, <2>2, WorkerMoves DEF IInv
  <2>11. ReservedApart' /\ ReservedHasNoSite'
    <3>1. ReservedHasNoSite'
      BY <1>1 DEF IInv, ReservedHasNoSite
    <3>2. ASSUME NEW u \in Reserved PROVE infra'[u] # "provisioned"
      BY <2>3, <3>2, PrimaryKeys DEF IInv, ReservedApart
    <3>3. ASSUME NEW u \in Reserved, NEW l \in Tick, Works(l, u)' PROVE proc'[l].step = "refuse"
      BY <2>2, <2>4, <2>5, <3>3, PrimaryKeys DEF IInv, ReservedApart
    <3>4. ASSUME NEW u \in Reserved, proc'[Shell].step \in JobSteps, proc'[Shell].org = u
          PROVE  "by hand" \in mark'[u]
      BY <1>1, <2>10, <3>4 DEF IInv, ReservedApart
    <3> QED
      BY <3>1, <3>2, <3>3, <3>4 DEF ReservedApart
  <2>12. GoneForGood' /\ PurgedHasNoSite'
    BY <1>1, <1>6, <2>3, <2>5, <2>10 DEF IInv, GoneForGood, PurgedHasNoSite, At, Org
  <2>13. Hosted'
    BY <1>1, <2>2, <2>3, <2>4, <2>5 DEF IInv, Hosted, PastReload
  <2> QED
    BY <2>7, <2>8, <2>9, <2>11, <2>12, <2>13 DEF IInv
<1> QED
  BY <1>5, <1>6

(* A worker is done with t: the row says something else than that somebody  *)
(* is at it, or that the worker was killed.                                 *)
LEMMA LeaveStep ==
  ASSUME IInv, NEW k \in Tick, NEW t \in Tenant, Works(k, t),
         NEW r \in {Idle} \cup Scan, proc' = [proc EXCEPT ![k] = r],
         NEW added, added \subseteq {"stranded"},
         mark' = [mark EXCEPT ![t] = (IF Workers(t) = {k} THEN mark[t] \ {"requeued"} ELSE mark[t]) \cup added],
         UNCHANGED <<active, conf, linked, live, asks, commands>>, deaths' \in 0 .. MaxDie,
         \/ UNCHANGED infra /\ "stranded" \in added
         \/ /\ infra' = [infra EXCEPT ![t] = IF t \in Rows THEN "failed" ELSE infra[t]]
         \/ /\ infra' = [infra EXCEPT ![t] = IF t \in Rows THEN "provisioned" ELSE infra[t]]
            /\ proc[k].step = "done"
  PROVE  IInv'
<1>1. r.step \notin AtWork
  BY DEF Scan, Idle, AtWork, JobSteps
<1>2. \A l \in Tick, u \in Tenant : Works(l, u)' <=> l # k /\ Works(l, u)
  BY <1>1, WorkerMoves DEF IInv
<1>3. \A l \in Tick : l # k => proc'[l] = proc[l]
  BY WorkerMoves DEF IInv
<1>4. proc'[Shell] = proc[Shell]
  BY WorkerMoves DEF IInv
<1>5. \A u \in Tenant : /\ Workers(u) # {} <=> \E l \in Tick : Works(l, u)
                        /\ Workers(u)' # {} <=> \E l \in Tick : Works(l, u)'
  BY WorkerMoves DEF IInv
<1>6. \A u \in Tenant : u # t => mark'[u] = mark[u] /\ infra'[u] = infra[u]
  BY DEF IInv, TypeOK
<1>7. \A u \in Tenant, m \in {"crossed", "left over", "by hand", "dark"} :
        m \in mark'[u] <=> m \in mark[u]
  BY DEF IInv, TypeOK
<1>8. \A l \in Tick : l # k /\ Works(l, t) => "requeued" \in mark'[t]
  <2> SUFFICES ASSUME NEW l \in Tick, l # k, Works(l, t) PROVE "requeued" \in mark'[t]
    OBVIOUS
  <2>1. "requeued" \in mark[t] /\ Workers(t) # {k}
    BY DEF IInv, Apart, Workers
  <2> QED
    BY <2>1 DEF IInv, TypeOK
<1>9. infra'[t] = "provisioning" => infra[t] = "provisioning" /\ "stranded" \in mark'[t]
  BY DEF IInv, TypeOK, Rows
<1>10. /\ \A u \in Tenant : infra'[u] = "gone" <=> infra[u] = "gone"
       /\ \A u \in Tenant : "stranded" \in mark[u] => "stranded" \in mark'[u]
  BY DEF IInv, TypeOK, Rows
<1>11. infra'[t] = "provisioned" => infra[t] = "provisioned" \/ proc[k].step = "done"
  BY DEF IInv, TypeOK
<1>12. TypeOK'
  <2>1. infra' \in [Tenant -> Status] /\ mark' \in [Tenant -> SUBSET Marks]
    BY DEF IInv, TypeOK, Status, Marks
  <2> QED
    BY <2>1, WorkerMoves DEF IInv, TypeOK
<1>13. Apart'
  BY <1>2, <1>6, <1>8 DEF IInv, Apart
<1>14. StatusTellsTheWork'
  <2> SUFFICES ASSUME NEW u \in Tenant
               PROVE  /\ infra'[u] = "provisioning" => Workers(u)' # {} \/ "stranded" \in mark'[u]
                      /\ Workers(u)' # {} =>
                           infra'[u] \in {"provisioning", "gone"} \/ "requeued" \in mark'[u]
    BY DEF StatusTellsTheWork
  <2>1. CASE u = t
    BY <1>2, <1>5, <1>8, <1>9, <2>1
  <2>2. CASE u # t
    <3>1. ~Works(k, u)
      BY <2>2 DEF Works
    <3>2. Workers(u)' # {} <=> Workers(u) # {}
      BY <1>2, <1>5, <3>1
    <3> QED
      BY <1>6, <2>2, <3>2 DEF IInv, StatusTellsTheWork
  <2> QED
    BY <2>1, <2>2
<1>15. ReservedApart' /\ ReservedHasNoSite'
  <2>1. ReservedHasNoSite'
    BY <1>7, PrimaryKeys DEF IInv, ReservedHasNoSite
  <2>2. t \in Reserved => infra'[t] # "provisioned"
    BY <1>11 DEF IInv, ReservedApart
  <2>3. ASSUME NEW u \in Reserved PROVE infra'[u] # "provisioned"
    BY <1>6, <2>2, <2>3, PrimaryKeys DEF IInv, ReservedApart
  <2>4. ASSUME NEW u \in Reserved, NEW l \in Tick, Works(l, u)' PROVE proc'[l].step = "refuse"
    BY <1>2, <1>3, <2>4, PrimaryKeys DEF IInv, ReservedApart
  <2>5. ASSUME NEW u \in Reserved, proc'[Shell].step \in JobSteps, proc'[Shell].org = u
        PROVE  "by hand" \in mark'[u]
    BY <1>4, <1>7, <2>5, PrimaryKeys DEF IInv, ReservedApart
  <2> QED
    BY <2>1, <2>3, <2>4, <2>5 DEF ReservedApart
<1>16. GoneForGood' /\ PurgedHasNoSite'
  <2>1. \A u \in Tenant : infra'[u] = "gone" /\ mark'[u] \cap {"crossed", "left over", "by hand"} = {} =>
                          infra[u] = "gone" /\ mark[u] \cap {"crossed", "left over", "by hand"} = {}
    BY <1>7, <1>10
  <2>2. GoneForGood'
    BY <1>2, <1>4, <2>1 DEF IInv, GoneForGood
  <2> QED
    BY <1>4, <2>1, <2>2 DEF IInv, PurgedHasNoSite, At, Org
<1>17. Hosted'
  <2>1. \A u \in Tenant : PastReload(u)' => PastReload(u)
    BY <1>2, <1>3, <1>6, <1>11 DEF PastReload
  <2>2. \A u \in Tenant : "dark" \notin mark'[u] =>
                          "dark" \notin mark[u]
    BY <1>7
  <2> QED
    BY <2>1, <2>2 DEF IInv, Hosted
<1> QED
  BY <1>12, <1>13, <1>14, <1>15, <1>16, <1>17 DEF IInv

LEMMA RefuseStep == ASSUME IInv, NEW k \in Tick, Refuse(k) PROVE IInv'
<1>1. proc[k].org \in Tenant /\ proc[k].rest \in SUBSET Tenant /\ Works(k, proc[k].org)
  BY WorkerFields DEF IInv, TypeOK, Refuse, Works, AtWork
<1>2. Scanning(proc[k].rest) \in {Idle} \cup Scan
  BY <1>1 DEF Scanning, Scan
<1>3. deaths' \in 0 .. MaxDie
  BY DEF Refuse, Finish, Bounds, IInv, TypeOK
<1> DEFINE added == {}
<1>4. mark' = [mark EXCEPT ![proc[k].org] =
                 (IF Workers(proc[k].org) = {k} THEN mark[proc[k].org] \ {"requeued"}
                  ELSE mark[proc[k].org]) \cup added]
  BY DEF Refuse, Finish, Leave
<1>5. infra' = [infra EXCEPT ![proc[k].org] =
                  IF proc[k].org \in Rows THEN "failed" ELSE infra[proc[k].org]]
  BY DEF Refuse, Finish
<1>6. added \subseteq {"stranded"}
  OBVIOUS
<1>7. proc' = [proc EXCEPT ![k] = Scanning(proc[k].rest)]
      /\ UNCHANGED <<active, conf, linked, live, asks, commands>>
  BY DEF Refuse, Finish, Host, Bounds
<1> HIDE DEF added
<1> QED
  BY <1>1, <1>2, <1>3, <1>4, <1>5, <1>6, <1>7, LeaveStep

LEMMA EndStep == ASSUME IInv, NEW k \in Tick, End(k) PROVE IInv'
<1>1. PICK r \in {"done", "failed"} :
        /\ proc[k].step = r
        /\ Finish(k, IF r = "done" THEN "provisioned" ELSE "failed")
        /\ proc' = [proc EXCEPT ![k] = Idle]
  BY DEF End
<1>2. proc[k].org \in Tenant /\ Works(k, proc[k].org)
  BY <1>1, WorkerFields DEF IInv, TypeOK, Works, AtWork
<1>3. deaths' \in 0 .. MaxDie
  BY <1>1 DEF Finish, Bounds, IInv, TypeOK
<1> DEFINE added == {}
<1>4. mark' = [mark EXCEPT ![proc[k].org] =
                 (IF Workers(proc[k].org) = {k} THEN mark[proc[k].org] \ {"requeued"}
                  ELSE mark[proc[k].org]) \cup added]
  BY <1>1 DEF Finish, Leave
<1>7. added \subseteq {"stranded"}
  OBVIOUS
<1>8. UNCHANGED <<active, conf, linked, live, asks, commands>>
  BY <1>1 DEF Finish, Host, Bounds
<1> HIDE DEF added
<1>5. CASE r = "done"
  <2>1. infra' = [infra EXCEPT ![proc[k].org] =
                    IF proc[k].org \in Rows THEN "provisioned" ELSE infra[proc[k].org]]
    BY <1>1, <1>5 DEF Finish
  <2> QED
    BY <1>1, <1>2, <1>3, <1>4, <1>5, <1>7, <1>8, <2>1, LeaveStep
<1>6. CASE r = "failed"
  <2>1. infra' = [infra EXCEPT ![proc[k].org] =
                    IF proc[k].org \in Rows THEN "failed" ELSE infra[proc[k].org]]
    BY <1>1, <1>6 DEF Finish
  <2> QED
    BY <1>1, <1>2, <1>3, <1>4, <1>7, <1>8, <2>1, LeaveStep
<1> QED
  BY <1>5, <1>6

LEMMA WorkerDies == ASSUME IInv, NEW k \in Tick, Die(k) PROVE IInv'
<1> k # Shell
  BY ShellIsNoTick
<1>1. deaths' \in 0 .. MaxDie /\ proc' = [proc EXCEPT ![k] = Idle]
      /\ UNCHANGED <<infra, active, conf, linked, live, asks, commands>>
  BY ProvisionBounds DEF Die, Host, IInv, TypeOK
<1>2. CASE proc[k].step \in AtWork
  <2>1. proc[k].org \in Tenant /\ Works(k, proc[k].org)
    BY <1>2, WorkerFields DEF IInv, TypeOK, Works
  <2>2. mark' = [mark EXCEPT ![proc[k].org] =
                   (IF Workers(proc[k].org) = {k} THEN mark[proc[k].org] \ {"requeued"}
                    ELSE mark[proc[k].org]) \cup {"stranded"}]
    BY <1>2 DEF Die
  <2> QED
    BY <1>1, <2>1, <2>2, LeaveStep
<1>3. CASE proc[k].step \notin AtWork
  <2>1. \A u \in Tenant : ~Works(k, u)
    BY <1>3 DEF Works
  <2>2. UNCHANGED mark
    BY <1>3 DEF Die
  <2>3. Apart' /\ StatusTellsTheWork' /\ ReservedApart' /\ ReservedHasNoSite' /\ GoneForGood'
        /\ PurgedHasNoSite' /\ Hosted' /\ TypeOK'
    <3>1. "idle" \notin AtWork
      BY DEF AtWork, JobSteps
    <3>2. \A l \in Tick : proc'[l] = IF l = k THEN Idle ELSE proc[l]
      BY <1>1, WorkerMoves DEF IInv
    <3>3. \A l \in Tick, u \in Tenant : Works(l, u)' <=> Works(l, u)
      BY <1>3, <3>1, <3>2 DEF Works, Idle
    <3>4. \A l \in Tick, u \in Tenant : Works(l, u) => proc'[l] = proc[l]
      BY <2>1, <3>2
    <3>5. proc'[Shell] = proc[Shell]
      BY <1>1, WorkerMoves DEF IInv
    <3>6. \A u \in Tenant : Workers(u)' = Workers(u)
      BY <3>3 DEF Workers
    <3>7. TypeOK'
      BY <1>1, <2>2, WorkerMoves DEF IInv, TypeOK
    <3>8. Apart' /\ StatusTellsTheWork'
      BY <1>1, <2>2, <3>3, <3>6 DEF IInv, Apart, StatusTellsTheWork
    <3>9. ReservedApart'
      BY <1>1, <2>2, <3>3, <3>4, <3>5, PrimaryKeys DEF IInv, ReservedApart
    <3>10. ReservedHasNoSite'
      BY <1>1, <2>2 DEF IInv, ReservedHasNoSite
    <3>11. GoneForGood' /\ PurgedHasNoSite'
      BY <1>1, <2>2, <3>3, <3>5 DEF IInv, GoneForGood, PurgedHasNoSite, At, Org
    <3>12. Hosted'
      BY <1>1, <2>2, <3>3, <3>4 DEF IInv, Hosted, PastReload
    <3> QED
      BY <3>7, <3>8, <3>9, <3>10, <3>11, <3>12
  <2> QED
    BY <2>3 DEF IInv
<1> QED
  BY <1>2, <1>3

-----------------------------------------------------------------------------
(* The script *)

LEMMA ShellMoves ==
  ASSUME TypeOK, NEW r \in {Idle} \cup Commands, proc' = [proc EXCEPT ![Shell] = r]
  PROVE  /\ proc' \in [Tick \cup {Shell} -> {Idle} \cup Jobs \cup Scan \cup Commands]
         /\ proc'[Shell] = r
         /\ \A l \in Tick : proc'[l] = proc[l] /\ proc[l] \in {Idle} \cup Jobs \cup Scan
         /\ \A l \in Tick, u \in Tenant : Works(l, u)' <=> Works(l, u)
         /\ \A u \in Tenant : Workers(u)' = Workers(u)
<1>1. \A l \in Tick : l # Shell
  BY ShellIsNoTick
<1>2. \A l \in Tick : proc'[l] = proc[l]
  BY <1>1 DEF TypeOK
<1>3. \A l \in Tick, u \in Tenant : Works(l, u)' <=> Works(l, u)
  BY <1>2 DEF Works
<1>4. \A u \in Tenant : Workers(u)' = Workers(u)
  BY <1>3 DEF Workers
<1> QED
  BY <1>2, <1>3, <1>4 DEF TypeOK

(* What a step of the script may do: whoever runs it, the tenant it is at   *)
(* is neither reserved nor gone, unless by hand.                            *)
LEMMA ScriptStep ==
  ASSUME IInv, NEW p \in Tick \cup {Shell}, proc[p].step \in JobSteps, NEW t, t = proc[p].org,
         NEW r, proc' = [proc EXCEPT ![p] = r],
         p \in Tick => r \in Jobs /\ r.org = t /\ r.step \in AtWork \ {"refuse"},
         p = Shell => r = Idle \/ (r \in Commands /\ r.step \in JobSteps /\ r.org = t),
         UNCHANGED <<infra, active, asks, deaths, commands>>,
         conf' \in [Tenant -> {"none", "empty", "whole"}], linked' \subseteq Tenant, live' \subseteq Tenant,
         mark' \in [Tenant -> SUBSET Marks],
         \A u \in Tenant, m \in {"requeued", "stranded", "crossed", "left over", "by hand"} :
            m \in mark'[u] <=> m \in mark[u],
         \A u \in Tenant \ {t} : conf'[u] = conf[u] /\ (u \in linked' <=> u \in linked),
         Hosted'
  PROVE  IInv'
<1>1. \A l \in Tick : l # Shell
  BY ShellIsNoTick
<1>2. /\ \A q \in Tick \cup {Shell} : proc'[q] = IF q = p THEN r ELSE proc[q]
      /\ proc[Shell] \in {Idle} \cup Commands
  BY DEF IInv, TypeOK
<1>3. t \in Tenant
  <2>1. CASE p \in Tick
    BY <2>1, WorkerFields DEF IInv, TypeOK, AtWork
  <2>2. CASE p = Shell
    BY <1>2, <2>2, ShellFields DEF JobSteps
  <2> QED
    BY <2>1, <2>2
<1>4. \A l \in Tick, u \in Tenant : Works(l, u)' <=> Works(l, u)
  BY <1>1, <1>2 DEF Works, AtWork
<1>5. \A u \in Tenant : Workers(u)' = Workers(u)
  BY <1>4 DEF Workers
<1>6. TypeOK'
  <2>1. r \in {Idle} \cup Jobs \cup Commands
    OBVIOUS
  <2>2. proc' \in [Tick \cup {Shell} -> {Idle} \cup Jobs \cup Scan \cup Commands]
    BY <2>1 DEF IInv, TypeOK
  <2>3. (\A l \in Tick : proc'[l] \in {Idle} \cup Jobs \cup Scan) /\ proc'[Shell] \in {Idle} \cup Commands
    BY <1>1, <1>2 DEF IInv, TypeOK
  <2> QED
    BY <2>2, <2>3 DEF IInv, TypeOK
<1>12. p = Shell => /\ proc'[Shell].step \notin {"row", "rm"}
                    /\ proc'[Shell].step \in JobSteps => proc'[Shell].org = t
  <2>1. Idle.step \notin JobSteps \cup {"row", "rm"}
    BY DEF Idle, JobSteps
  <2> QED
    BY <1>2, <2>1 DEF JobSteps
<1>7. Apart' /\ StatusTellsTheWork'
  BY <1>4, <1>5 DEF IInv, Apart, StatusTellsTheWork
<1>8. t \in Reserved => p = Shell /\ "by hand" \in mark[t]
  <2> SUFFICES ASSUME t \in Reserved PROVE p = Shell /\ "by hand" \in mark[t]
    OBVIOUS
  <2>1. p \notin Tick
    <3> SUFFICES ASSUME p \in Tick PROVE FALSE
      OBVIOUS
    <3>1. Works(p, t)
      BY DEF Works, AtWork
    <3> QED
      BY <3>1 DEF IInv, ReservedApart, JobSteps
  <2> QED
    BY <2>1 DEF IInv, ReservedApart
<1>9. ReservedHasNoSite'
  BY <1>3, <1>8, PrimaryKeys DEF IInv, ReservedHasNoSite
<1>10. ReservedApart'
  <2>1. ASSUME NEW u \in Reserved, NEW l \in Tick, Works(l, u)' PROVE proc'[l].step = "refuse"
    <3>1. u \in Tenant /\ Works(l, u) /\ proc[l].step = "refuse"
      BY <1>4, <2>1, PrimaryKeys DEF IInv, ReservedApart
    <3>2. l # p
      BY <3>1 DEF JobSteps
    <3> QED
      BY <1>2, <3>1, <3>2
  <2>2. ASSUME NEW u \in Reserved, proc'[Shell].step \in JobSteps, proc'[Shell].org = u
        PROVE  "by hand" \in mark'[u]
    <3>1. proc[Shell].step \in JobSteps /\ proc[Shell].org = u
      BY <1>2, <1>12, <2>2
    <3> QED
      BY <3>1, PrimaryKeys DEF IInv, ReservedApart
  <2> QED
    BY <2>1, <2>2 DEF IInv, ReservedApart
<1>11. GoneForGood' /\ PurgedHasNoSite'
  <2> SUFFICES ASSUME NEW u \in Tenant, infra'[u] = "gone", mark'[u] \cap {"crossed", "left over", "by hand"} = {}
               PROVE  /\ \A k \in Tick : ~Works(k, u)'
                      /\ ~(proc'[Shell].step \in JobSteps \cup {"row"} /\ proc'[Shell].org = u)
                      /\ conf'[u] = "none" \/ (proc'[Shell].step = "rm" /\ proc'[Shell].org = u)
    BY DEF GoneForGood, PurgedHasNoSite, At, Org
  <2>1. infra[u] = "gone" /\ mark[u] \cap {"crossed", "left over", "by hand"} = {}
    OBVIOUS
  <2>2. /\ \A k \in Tick : ~Works(k, u)
        /\ ~(proc[Shell].step \in JobSteps \cup {"row"} /\ proc[Shell].org = u)
        /\ conf[u] = "none" \/ (proc[Shell].step = "rm" /\ proc[Shell].org = u)
    BY <2>1 DEF IInv, GoneForGood, PurgedHasNoSite, At, Org
  <2>3. u # t
    BY <2>2 DEF Works, AtWork
  <2>4. CASE p = Shell
    <3>1. proc[Shell].step # "rm"
      BY <2>4 DEF JobSteps
    <3> QED
      BY <1>4, <1>12, <2>2, <2>3, <2>4, <3>1
  <2>5. CASE p \in Tick
    BY <1>1, <1>2, <1>4, <2>2, <2>3, <2>5
  <2> QED
    BY <2>4, <2>5
<1> QED
  BY <1>6, <1>7, <1>9, <1>10, <1>11 DEF IInv

(* Past nginx's answer after a step of the script is who was before, or is  *)
(* the one the step is at.                                                  *)
LEMMA ScriptMoves ==
  ASSUME TypeOK, NEW p \in Tick \cup {Shell}, proc[p].step \in JobSteps,
         NEW r, r.org = proc[p].org, proc' = [proc EXCEPT ![p] = r] \/ (p = Shell /\ proc' = [proc EXCEPT ![p] = Idle]),
         UNCHANGED infra
  PROVE  \A u \in Tenant :
           PastReload(u)' => PastReload(u) \/ (u = proc[p].org /\ p \in Tick /\ r.step \in {"tls", "done"})
<1>1. \A l \in Tick : l # Shell
  BY ShellIsNoTick
<1>2. \A l \in Tick : proc'[l] = IF l = p THEN r ELSE proc[l]
  BY <1>1 DEF TypeOK
<1>3. \A u \in Tenant, l \in Tick : Works(l, u)' /\ l # p => Works(l, u)
  BY <1>2 DEF Works
<1>4. \A u \in Tenant, l \in Tick : Works(l, u)' /\ l = p => u = proc[p].org
  BY <1>2 DEF Works
<1> QED
  BY <1>2, <1>3, <1>4 DEF PastReload

LEMMA ScriptFields ==
  ASSUME TypeOK, NEW p \in Tick \cup {Shell}, proc[p].step \in JobSteps
  PROVE  /\ proc[p].org \in Tenant
         /\ \A st \in JobSteps \cup {"done", "failed"} :
              LET r == [proc[p] EXCEPT !.step = st]
              IN  /\ r.org = proc[p].org /\ r.step = st
                  /\ p \in Tick => r \in Jobs /\ r.step \in AtWork \ {"refuse"}
                  /\ p = Shell /\ st \in JobSteps => r \in Commands
<1>1. CASE p \in Tick
  <2>1. proc[p] \in {Idle} \cup Jobs \cup Scan /\ p # Shell /\ proc[p].step \in AtWork
    BY <1>1, ShellIsNoTick DEF TypeOK, AtWork
  <2>2. \A st \in JobSteps \cup {"done", "failed"} : st \in AtWork \ {"refuse"}
    BY DEF AtWork, JobSteps
  <2> QED
    BY <2>1, <2>2, WorkerFields
<1>2. CASE p = Shell
  <2>1. proc[p] \in {Idle} \cup Commands /\ p \notin Tick
    BY <1>2, ShellIsNoTick DEF TypeOK
  <2>2. proc[p] \in [step : JobSteps, org : Tenant]
    BY <2>1 DEF Commands, Idle, JobSteps
  <2> QED
    BY <2>1, <2>2 DEF Commands
<1> QED
  BY <1>1, <1>2

LEMMA TimeoutStep == ASSUME IInv, NEW k \in Tick, Timeout(k) PROVE IInv'
<1> DEFINE r == [proc[k] EXCEPT !.step = "failed"]
<1>1. proc[k].step \in JobSteps /\ proc' = [proc EXCEPT ![k] = r]
      /\ UNCHANGED <<infra, active, conf, linked, live, mark, asks, deaths, commands>>
  BY DEF Timeout, Step, Host, Bounds
<1>2. /\ r.org = proc[k].org /\ r.step = "failed"
      /\ r \in Jobs /\ r.step \in AtWork \ {"refuse"}
  BY <1>1, ScriptFields DEF IInv
<1>3. k # Shell
  BY ShellIsNoTick
<1> HIDE DEF r
<1>4. Hosted'
  <2>1. \A u \in Tenant : PastReload(u)' => PastReload(u)
    BY <1>1, <1>2, ScriptMoves DEF IInv
  <2> QED
    BY <1>1, <2>1 DEF IInv, Hosted
<1> QED
  BY <1>1, <1>2, <1>3, <1>4, ScriptStep DEF IInv, TypeOK

(* The script goes on to st, or ends with it. *)
LEMMA Onward ==
  ASSUME IInv, NEW p \in Tick \cup {Shell}, proc[p].step \in JobSteps,
         NEW st \in JobSteps \cup {"done", "failed"},
         (st \in JobSteps /\ Step(p, st)) \/ (st \notin JobSteps /\ Exit(p, st)),
         UNCHANGED <<infra, active, asks, deaths, commands>>,
         conf' \in [Tenant -> {"none", "empty", "whole"}], linked' \subseteq Tenant, live' \subseteq Tenant,
         mark' \in [Tenant -> SUBSET Marks],
         \A u \in Tenant, m \in {"requeued", "stranded", "crossed", "left over", "by hand"} :
            m \in mark'[u] <=> m \in mark[u],
         \A u \in Tenant \ {proc[p].org} : conf'[u] = conf[u] /\ (u \in linked' <=> u \in linked),
         \A u \in Tenant :
            /\ PastReload(u) \/ (u = proc[p].org /\ st \in {"tls", "done"})
            /\ "dark" \notin mark'[u]
            => u \in linked' /\ conf'[u] = "whole" /\ u \in live'
  PROVE  IInv'
<1> DEFINE r == [proc[p] EXCEPT !.step = st]
<1>1. /\ r.org = proc[p].org /\ r.step = st
      /\ p \in Tick => r \in Jobs /\ r.step \in AtWork \ {"refuse"}
      /\ p = Shell /\ st \in JobSteps => r \in Commands
  BY ScriptFields DEF IInv
<1>2. p \in Tick => p # Shell
  BY ShellIsNoTick
<1>3. proc' = [proc EXCEPT ![p] = r] \/ (p = Shell /\ st \notin JobSteps /\ proc' = [proc EXCEPT ![p] = Idle])
  BY DEF Step, Exit
<1>4. p \in Tick => proc' = [proc EXCEPT ![p] = r]
  BY <1>2, <1>3
<1>5. p = Shell => (st \in JobSteps /\ proc' = [proc EXCEPT ![p] = r])
                  \/ (st \notin JobSteps /\ proc' = [proc EXCEPT ![p] = Idle])
  BY DEF Step, Exit
<1> HIDE DEF r
<1>6. Hosted'
  <2>1. \A u \in Tenant : PastReload(u)' => PastReload(u) \/ (u = proc[p].org /\ st \in {"tls", "done"})
    BY <1>1, <1>3, ScriptMoves DEF IInv
  <2> QED
    BY <2>1 DEF Hosted
<1>7. CASE p \in Tick
  BY <1>1, <1>2, <1>4, <1>6, <1>7, ScriptStep
<1>8. CASE p = Shell /\ st \in JobSteps
  BY <1>1, <1>2, <1>5, <1>6, <1>8, ScriptStep
<1>9. CASE p = Shell /\ st \notin JobSteps
  BY <1>2, <1>5, <1>6, <1>9, ScriptStep
<1> QED
  BY <1>7, <1>8, <1>9

(* A step of the script that leaves the machine and the marks alone. *)
LEMMA IdleStep ==
  ASSUME IInv, NEW p \in Tick \cup {Shell}, proc[p].step \in JobSteps,
         NEW st \in (JobSteps \cup {"failed"}) \ {"tls"},
         (st \in JobSteps /\ Step(p, st)) \/ (st \notin JobSteps /\ Exit(p, st)),
         UNCHANGED <<infra, active, conf, linked, live, mark, asks, deaths, commands>>
  PROVE  IInv'
<1>1. \A u \in Tenant : PastReload(u) /\ "dark" \notin mark'[u] =>
                        u \in linked' /\ conf'[u] = "whole" /\ u \in live'
  BY DEF IInv, Hosted
<1>2. /\ linked' \subseteq Tenant /\ live' \subseteq Tenant /\ mark' \in [Tenant -> SUBSET Marks]
      /\ conf' \in [Tenant -> {"none", "empty", "whole"}]
  BY DEF IInv, TypeOK
<1>3. st \in JobSteps \cup {"done", "failed"} /\ st \notin {"tls", "done"}
  BY DEF JobSteps
<1> QED
  BY <1>1, <1>2, <1>3, Onward

LEMMA FailStep ==
  ASSUME IInv, NEW p \in Tick \cup {Shell}, proc[p].step \in JobSteps, Exit(p, "failed"),
         UNCHANGED <<infra, active, conf, linked, live, mark, asks, deaths, commands>>
  PROVE  IInv'
<1>1. "failed" \notin JobSteps /\ "failed" \in (JobSteps \cup {"failed"}) \ {"tls"}
  BY DEF JobSteps
<1> QED
  BY <1>1, IdleStep

LEMMA SiteStep == ASSUME IInv, NEW p \in Tick \cup {Shell}, Site(p) PROVE IInv'
<1>1. /\ UNCHANGED <<infra, active, conf, linked, live, mark, asks, deaths, commands>>
      /\ proc[p].step \in JobSteps
  BY DEF Site, At, JobSteps, Host, Bounds
<1>2. CASE Exit(p, "failed")
  BY <1>1, <1>2, FailStep
<1>3. CASE \E st \in {"link", "open"} : Step(p, st)
  <2>1. {"link", "open"} \subseteq JobSteps \ {"tls"}
    BY DEF JobSteps
  <2> QED
    BY <1>1, <1>3, <2>1, IdleStep
<1> QED
  BY <1>2, <1>3 DEF Site

LEMMA OpenStep == ASSUME IInv, NEW p \in Tick \cup {Shell}, Open(p) PROVE IInv'
<1> DEFINE t == proc[p].org
<1>1. /\ UNCHANGED <<infra, active, linked, live, asks, deaths, commands>>
      /\ proc[p].step \in JobSteps
  BY DEF Open, At, JobSteps, Bounds
<1>2. t \in Tenant
  BY <1>1, ScriptFields DEF IInv
<1>3. CASE Exit(p, "failed") /\ UNCHANGED <<conf, mark>>
  BY <1>1, <1>3, FailStep
<1>4. CASE /\ conf' = [conf EXCEPT ![t] = "empty"]
           /\ mark' = [mark EXCEPT ![t] = IF conf[t] = "whole" THEN mark[t] \cup {"dark"} ELSE mark[t]]
           /\ Step(p, "fill")
  <2>1. "fill" \in JobSteps /\ "fill" \notin {"tls", "done"}
    BY DEF JobSteps
  <2>2. \A u \in Tenant :
          /\ conf'[u] = IF u = t THEN "empty" ELSE conf[u]
          /\ mark'[u] = IF u = t /\ conf[u] = "whole" THEN mark[u] \cup {"dark"} ELSE mark[u]
    BY <1>4 DEF IInv, TypeOK
  <2>3. /\ conf' \in [Tenant -> {"none", "empty", "whole"}] /\ mark' \in [Tenant -> SUBSET Marks]
        /\ linked' \subseteq Tenant /\ live' \subseteq Tenant
    BY <1>1, <1>2, <1>4 DEF IInv, TypeOK, Marks
  <2>4. \A u \in Tenant : PastReload(u) /\ "dark" \notin mark'[u] =>
                        u \in linked' /\ conf'[u] = "whole" /\ u \in live'
    <3> SUFFICES ASSUME NEW u \in Tenant, PastReload(u), "dark" \notin mark'[u]
                 PROVE  u \in linked' /\ conf'[u] = "whole" /\ u \in live'
      OBVIOUS
    <3>1. "dark" \notin mark[u]
      BY <2>2
    <3>2. u \in linked /\ conf[u] = "whole" /\ u \in live
      BY <3>1 DEF IInv, Hosted
    <3>3. u # t
      BY <2>2, <3>2
    <3> QED
      BY <1>1, <2>2, <3>2, <3>3
  <2>5. /\ \A u \in Tenant \ {t} : conf'[u] = conf[u] /\ (u \in linked' <=> u \in linked)
        /\ \A u \in Tenant, m \in {"requeued", "stranded", "crossed", "left over", "by hand"} :
              m \in mark'[u] <=> m \in mark[u]
    BY <1>1, <2>2
  <2> QED
    BY <1>1, <1>4, <2>1, <2>3, <2>4, <2>5, Onward
<1> QED
  BY <1>3, <1>4 DEF Open, Org

LEMMA FillStep == ASSUME IInv, NEW p \in Tick \cup {Shell}, Fill(p) PROVE IInv'
<1> DEFINE t == proc[p].org
<1>1. /\ UNCHANGED <<infra, active, linked, live, mark, asks, deaths, commands>>
      /\ proc[p].step \in JobSteps
  BY DEF Fill, At, JobSteps, Bounds
<1>2. t \in Tenant
  BY <1>1, ScriptFields DEF IInv
<1>3. \A u \in Tenant : PastReload(u) /\ "dark" \notin mark'[u] =>
                        u \in linked' /\ conf[u] = "whole" /\ u \in live'
  BY <1>1 DEF IInv, Hosted
<1>4. /\ linked' \subseteq Tenant /\ live' \subseteq Tenant /\ mark' \in [Tenant -> SUBSET Marks]
      /\ conf \in [Tenant -> {"none", "empty", "whole"}]
  BY <1>1 DEF IInv, TypeOK
<1>5. CASE Exit(p, "failed") /\ UNCHANGED conf
  BY <1>1, <1>5, FailStep
<1>6. CASE /\ conf' = [conf EXCEPT ![t] = IF conf[t] = "none" THEN conf[t] ELSE "whole"]
           /\ Step(p, "link")
  <2>1. "link" \in JobSteps /\ "link" \notin {"tls", "done"}
    BY DEF JobSteps
  <2>2. \A u \in Tenant : conf'[u] = conf[u] \/ (u = t /\ conf'[u] = "whole")
    BY <1>4, <1>6
  <2>3. conf' \in [Tenant -> {"none", "empty", "whole"}]
    BY <1>2, <1>4, <1>6
  <2>4. \A u \in Tenant : PastReload(u) /\ "dark" \notin mark'[u] =>
                        u \in linked' /\ conf'[u] = "whole" /\ u \in live'
    BY <1>3, <2>2
  <2> QED
    BY <1>1, <1>4, <1>6, <2>1, <2>2, <2>3, <2>4, Onward
<1> QED
  BY <1>5, <1>6 DEF Fill, Org

LEMMA LinkStep == ASSUME IInv, NEW p \in Tick \cup {Shell}, Link(p) PROVE IInv'
<1> DEFINE t == proc[p].org
<1>1. /\ UNCHANGED <<infra, active, conf, live, mark, asks, deaths, commands>>
      /\ proc[p].step \in JobSteps
  BY DEF Link, At, JobSteps, Bounds
<1>2. t \in Tenant
  BY <1>1, ScriptFields DEF IInv
<1>3. CASE Exit(p, "failed") /\ UNCHANGED linked
  BY <1>1, <1>3, FailStep
<1>4. CASE linked' = linked \cup {t} /\ Step(p, "reload")
  <2>1. "reload" \in JobSteps /\ "reload" \notin {"tls", "done"}
    BY DEF JobSteps
  <2>2. /\ linked' \subseteq Tenant /\ live' \subseteq Tenant /\ mark' \in [Tenant -> SUBSET Marks]
        /\ conf' \in [Tenant -> {"none", "empty", "whole"}]
    BY <1>1, <1>2, <1>4 DEF IInv, TypeOK
  <2>3. \A u \in Tenant : PastReload(u) /\ "dark" \notin mark'[u] =>
                        u \in linked' /\ conf'[u] = "whole" /\ u \in live'
    BY <1>1, <1>4 DEF IInv, Hosted
  <2>4. \A u \in Tenant \ {t} : conf'[u] = conf[u] /\ (u \in linked' <=> u \in linked)
    BY <1>1, <1>4
  <2> QED
    BY <1>1, <1>4, <2>1, <2>2, <2>3, <2>4, Onward
<1> QED
  BY <1>3, <1>4 DEF Link, Org

LEMMA ReloadStep ==
  ASSUME IInv, LinkedOrDark, NEW p \in Tick \cup {Shell}, Reload(p)
  PROVE  IInv'
<1> DEFINE t == proc[p].org
<1>1. /\ UNCHANGED <<infra, active, conf, linked, asks, deaths, commands>>
      /\ proc[p].step \in JobSteps /\ "tls" \in JobSteps
      /\ t \in linked \/ "dark" \in mark[t]
  BY DEF Reload, At, JobSteps, Bounds, LinkedOrDark
<1>2. t \in Tenant
  BY <1>1, ScriptFields DEF IInv
<1>3. \A u \in Tenant : PastReload(u) /\ "dark" \notin mark[u] =>
                        u \in linked /\ conf[u] = "whole" /\ u \in live
  BY DEF IInv, Hosted
<1>4. linked' \subseteq Tenant /\ conf' \in [Tenant -> {"none", "empty", "whole"}]
  BY <1>1 DEF IInv, TypeOK
<1>5. CASE live' = LoadedFrom(linked) /\ mark' = [mark EXCEPT ![t] = Loaded(t)] /\ Step(p, "tls")
  <2>1. \A u \in Tenant : mark'[u] = IF u = t THEN Loaded(u) ELSE mark[u]
    BY <1>5 DEF IInv, TypeOK
  <2>2. mark' \in [Tenant -> SUBSET Marks] /\ live' \subseteq Tenant
    BY <1>2, <1>4, <1>5 DEF IInv, TypeOK, Loaded, Marks, LoadedFrom
  <2>3. \A u \in Tenant, m \in {"requeued", "stranded", "crossed", "left over", "by hand"} :
            m \in mark'[u] <=> m \in mark[u]
    BY <2>1 DEF Loaded
  <2>4. \A u \in Tenant : u \in linked' /\ conf'[u] = "whole" => u \in live'
    BY <1>1, <1>5 DEF LoadedFrom
  <2>5. "dark" \notin mark'[t] => conf'[t] = "whole" /\ t \in linked'
    BY <1>1, <1>2, <2>1 DEF Loaded
  <2>6. \A u \in Tenant :
            /\ PastReload(u) \/ u = t
            /\ "dark" \notin mark'[u]
            => u \in linked' /\ conf'[u] = "whole" /\ u \in live'
    BY <1>1, <1>3, <2>1, <2>4, <2>5
  <2> QED
    BY <1>1, <1>4, <1>5, <2>2, <2>3, <2>6, Onward
<1>6. CASE Mark(t, "dark") /\ UNCHANGED live /\ Step(p, "tls")
  <2>1. \A u \in Tenant : mark'[u] = IF u = t THEN mark[u] \cup {"dark"} ELSE mark[u]
    BY <1>6 DEF Mark, IInv, TypeOK
  <2>2. mark' \in [Tenant -> SUBSET Marks] /\ live' \subseteq Tenant
    BY <1>2, <1>6 DEF IInv, TypeOK, Mark, Marks
  <2>3. \A u \in Tenant, m \in {"requeued", "stranded", "crossed", "left over", "by hand"} :
            m \in mark'[u] <=> m \in mark[u]
    BY <2>1
  <2>4. \A u \in Tenant :
            /\ PastReload(u) \/ u = t
            /\ "dark" \notin mark'[u]
            => u \in linked' /\ conf'[u] = "whole" /\ u \in live'
    BY <1>1, <1>3, <1>6, <2>1
  <2> QED
    BY <1>1, <1>4, <1>6, <2>2, <2>3, <2>4, Onward
<1>7. CASE Exit(p, "failed") /\ UNCHANGED <<live, mark>>
  BY <1>1, <1>7, FailStep
<1> QED
  BY <1>5, <1>6, <1>7 DEF Reload, Org

LEMMA TlsStep == ASSUME IInv, NEW p \in Tick \cup {Shell}, Tls(p) PROVE IInv'
<1> DEFINE t == proc[p].org
<1>1. /\ UNCHANGED <<infra, active, conf, linked, mark, asks, deaths, commands>>
      /\ proc[p].step = "tls" /\ "tls" \in JobSteps /\ "done" \notin JobSteps /\ Exit(p, "done")
      /\ live' = live \/ live' = LoadedFrom(linked)
  BY DEF Tls, At, JobSteps, Bounds
<1>2. /\ linked' \subseteq Tenant /\ live' \subseteq Tenant /\ mark' \in [Tenant -> SUBSET Marks]
      /\ conf' \in [Tenant -> {"none", "empty", "whole"}]
  BY <1>1 DEF IInv, TypeOK, LoadedFrom
<1>3. \A u \in Tenant : PastReload(u) /\ "dark" \notin mark'[u] =>
                        u \in linked' /\ conf'[u] = "whole" /\ u \in live'
  BY <1>1 DEF IInv, Hosted, LoadedFrom
<1>4. CASE p \in Tick
  <2>1. Works(p, t)
    BY <1>1, <1>4 DEF Works, AtWork, JobSteps
  <2>2. t \in Tenant /\ PastReload(t)
    BY <1>1, <1>4, <2>1, ScriptFields DEF IInv, PastReload
  <2> QED
    BY <1>1, <1>2, <1>3, <2>2, Onward
<1>5. CASE p = Shell
  <2>1. proc' = [proc EXCEPT ![p] = Idle]
    BY <1>1, <1>5 DEF Exit
  <2>2. p \notin Tick
    BY <1>5, ShellIsNoTick
  <2>3. \A u \in Tenant : PastReload(u)' => PastReload(u)
    <3>2. \A l \in Tick : proc'[l] = proc[l]
      BY <2>1, <2>2 DEF IInv, TypeOK
    <3>3. \A l \in Tick, u \in Tenant : Works(l, u)' => Works(l, u)
      BY <3>2 DEF Works
    <3> QED
      BY <1>1, <3>2, <3>3 DEF PastReload
  <2>4. Hosted'
    BY <1>3, <2>3 DEF Hosted
  <2> QED
    BY <1>1, <1>2, <1>5, <2>1, <2>2, <2>4, ScriptStep
<1> QED
  BY <1>4, <1>5

-----------------------------------------------------------------------------
(* The terminal: a command touches no worker, takes no mark away and gives  *)
(* no row a status but "none" or its removal.                               *)
LEMMA ShellStep ==
  ASSUME IInv, NEW r \in {Idle} \cup Commands, proc' = [proc EXCEPT ![Shell] = r],
         UNCHANGED asks, deaths' \in 0 .. MaxDie, commands' \in 0 .. MaxCommand,
         infra' \in [Tenant -> Status], active' \in [Tenant -> BOOLEAN],
         conf' \in [Tenant -> {"none", "empty", "whole"}], linked' \subseteq Tenant, live' \subseteq Tenant,
         mark' \in [Tenant -> SUBSET Marks],
         \A u \in Tenant : \/ infra'[u] = infra[u]
                           \/ infra'[u] = "gone"
                           \/ infra[u] = "absent" /\ infra'[u] = "none",
         \A u \in Tenant : mark[u] \subseteq mark'[u],
         r.step \in JobSteps /\ r.org \in Reserved => "by hand" \in mark'[r.org],
         ReservedHasNoSite',
         \A u \in Tenant :
            infra'[u] = "gone" /\ mark'[u] \cap {"crossed", "left over", "by hand"} = {} =>
              /\ \A k \in Tick : ~Works(k, u)
              /\ ~(r.step \in JobSteps \cup {"row"} /\ r.org = u)
              /\ conf'[u] = "none" \/ (r.step = "rm" /\ r.org = u),
         \A u \in Tenant :
            "dark" \notin mark'[u] /\ u \in linked /\ conf[u] = "whole" /\ u \in live
            => u \in linked' /\ conf'[u] = "whole" /\ u \in live'
  PROVE  IInv'
<1>1. proc' \in [Tick \cup {Shell} -> {Idle} \cup Jobs \cup Scan \cup Commands]
      /\ proc'[Shell] = r /\ \A l \in Tick : proc'[l] = proc[l]
  BY ShellMoves DEF IInv
<1>2. \A l \in Tick, u \in Tenant : Works(l, u)' <=> Works(l, u)
  BY <1>1 DEF Works
<1>3. \A u \in Tenant : Workers(u)' = Workers(u)
  BY <1>2 DEF Workers
<1>4. TypeOK'
  BY <1>1 DEF IInv, TypeOK
<1>5. Apart'
  BY <1>2 DEF IInv, Apart
<1>6. StatusTellsTheWork'
  BY <1>3 DEF IInv, StatusTellsTheWork
<1>7. ReservedApart'
  <2>1. ReservedApart /\ Reserved \subseteq Tenant
    BY PrimaryKeys DEF IInv
  <2>2. ASSUME NEW u \in Reserved PROVE infra'[u] # "provisioned"
    <3>1. infra[u] # "provisioned" /\ u \in Tenant
      BY ONLY <2>1, u \in Reserved DEF ReservedApart
    <3>2. infra'[u] = infra[u] \/ infra'[u] = "gone" \/ infra'[u] = "none"
      BY <3>1
    <3> QED
      BY ONLY <3>1, <3>2
  <2>3. ASSUME NEW u \in Reserved, NEW k \in Tick, Works(k, u)' PROVE proc'[k].step = "refuse"
    <3>1. Works(k, u)
      BY <1>2, <2>1, <2>3
    <3>2. proc[k].step = "refuse"
      BY ONLY <2>1, <3>1, u \in Reserved, k \in Tick DEF ReservedApart
    <3> QED
      BY ONLY <1>1, <3>2, k \in Tick
  <2> QED
    BY <1>1, <2>2, <2>3 DEF ReservedApart
<1>8. GoneForGood' /\ PurgedHasNoSite'
  BY <1>1, <1>2 DEF GoneForGood, PurgedHasNoSite, At, Org
<1>9. Hosted'
  <2> SUFFICES ASSUME NEW u \in Tenant, PastReload(u)', "dark" \notin mark'[u]
               PROVE  u \in linked' /\ conf'[u] = "whole" /\ u \in live'
    BY DEF Hosted
  <2>1. PastReload(u)
    BY <1>1, <1>2 DEF PastReload
  <2>2. "dark" \notin mark[u]
    OBVIOUS
  <2> QED
    BY <2>1, <2>2 DEF IInv, Hosted
<1> QED
  BY <1>4, <1>5, <1>6, <1>7, <1>8, <1>9 DEF IInv

(* What is known of the terminal before a step. *)
LEMMA ShellBefore ==
  ASSUME IInv
  PROVE  /\ proc[Shell] \in {Idle} \cup Commands
         /\ \A u \in Tenant :
              infra[u] = "gone" /\ mark[u] \cap {"crossed", "left over", "by hand"} = {} =>
                /\ \A k \in Tick : ~Works(k, u)
                /\ ~(proc[Shell].step \in JobSteps \cup {"row"} /\ proc[Shell].org = u)
                /\ conf[u] = "none" \/ (proc[Shell].step = "rm" /\ proc[Shell].org = u)
         /\ infra \in [Tenant -> Status] /\ active \in [Tenant -> BOOLEAN]
         /\ conf \in [Tenant -> {"none", "empty", "whole"}] /\ linked \subseteq Tenant /\ live \subseteq Tenant
         /\ mark \in [Tenant -> SUBSET Marks] /\ commands \in 0 .. MaxCommand
         /\ deaths \in 0 .. MaxDie
         /\ \A t \in Reserved : conf[t] # "none" \/ t \in linked => "by hand" \in mark[t]
  BY DEF IInv, TypeOK, GoneForGood, PurgedHasNoSite, ReservedHasNoSite, At, Org

LEMMA CommandOpens ==
  ASSUME IInv, NEW r \in Commands, Command(r), r.step # "rm",
         UNCHANGED <<infra, active, conf, linked, live, asks, deaths>>,
         mark' \in [Tenant -> SUBSET Marks], \A u \in Tenant : mark[u] \subseteq mark'[u],
         r.step \in JobSteps => "by hand" \in mark'[r.org],
         r.step = "row" => infra[r.org] # "gone"
  PROVE  IInv'
<1>1. /\ proc[Shell] = Idle /\ proc' = [proc EXCEPT ![Shell] = r]
      /\ commands < MaxCommand /\ commands' = commands + 1
  BY DEF Command
<1>10. proc[Shell].step \notin JobSteps \cup {"row", "rm"}
  <2>1. Idle.step \notin JobSteps \cup {"row", "rm"}
    BY ONLY DEF Idle, JobSteps
  <2> QED
    BY ONLY <1>1, <2>1
<1>2. commands' \in 0 .. MaxCommand
  <2>1. commands \in 0 .. MaxCommand /\ MaxCommand \in Nat
    BY ONLY IInv, ProvisionBounds DEF IInv, TypeOK
  <2> QED
    BY ONLY <1>1, <2>1
<1>3. ReservedHasNoSite'
  BY PrimaryKeys DEF IInv, ReservedHasNoSite
<1>4. ASSUME NEW u \in Tenant, infra'[u] = "gone", mark'[u] \cap {"crossed", "left over", "by hand"} = {}
      PROVE  /\ \A k \in Tick : ~Works(k, u)
             /\ ~(r.step \in JobSteps \cup {"row"} /\ r.org = u)
             /\ conf'[u] = "none" \/ (r.step = "rm" /\ r.org = u)
  <2>1. infra[u] = "gone" /\ mark[u] \cap {"crossed", "left over", "by hand"} = {}
    BY <1>4
  <2>2. (\A k \in Tick : ~Works(k, u)) /\ conf[u] = "none"
    BY <1>10, <2>1, ShellBefore
  <2>3. ~(r.step \in JobSteps \cup {"row"} /\ r.org = u)
    BY <1>4, <2>1
  <2> QED
    BY <2>2, <2>3
<1>5. /\ infra' \in [Tenant -> Status] /\ active' \in [Tenant -> BOOLEAN]
      /\ conf' \in [Tenant -> {"none", "empty", "whole"}] /\ linked' \subseteq Tenant
      /\ live' \subseteq Tenant /\ deaths' \in 0 .. MaxDie
  BY ShellBefore
<1>6. r \in {Idle} \cup Commands
  OBVIOUS
<1>7. r.step \in JobSteps /\ r.org \in Reserved => "by hand" \in mark'[r.org]
  OBVIOUS
<1>8. \A u \in Tenant : infra'[u] = infra[u]
  OBVIOUS
<1>9. \A u \in Tenant : u \in linked /\ conf[u] = "whole" /\ u \in live
                         => u \in linked' /\ conf'[u] = "whole" /\ u \in live'
  OBVIOUS
<1> QED
  BY <1>1, <1>2, <1>3, <1>4, <1>5, <1>6, <1>7, <1>8, <1>9, ShellStep

LEMMA CommandStep ==
  ASSUME IInv, NEW t \in Tenant, NEW root \in BOOLEAN, NEW purge \in BOOLEAN,
         AddTenant(t, root) \/ RemoveTenant(t, purge, root) \/ AddInfra(t)
  PROVE  IInv'
<1>1. CASE AddTenant(t, root)
  <2> DEFINE r == [step |-> "row", org |-> t, root |-> root]
  <2>1. r \in Commands
    BY DEF Commands
  <2>2. r.step = "row" /\ r.org = t /\ "row" \notin JobSteps
    BY DEF JobSteps
  <2>3. Command(r) /\ UNCHANGED <<infra, active, conf, linked, live, mark, asks, deaths>> /\ infra[t] # "gone"
    BY <1>1 DEF AddTenant, Host
  <2> HIDE DEF r
  <2> QED
    BY <2>1, <2>2, <2>3, ShellBefore, CommandOpens
<1>2. CASE RemoveTenant(t, purge, root)
  <2> DEFINE r == [step |-> "drop", org |-> t, root |-> root, purge |-> purge]
  <2>1. r \in Commands
    BY DEF Commands
  <2>2. r.step = "drop" /\ r.org = t /\ "drop" \notin JobSteps
    BY DEF JobSteps
  <2>3. Command(r) /\ UNCHANGED <<infra, active, conf, linked, live, mark, asks, deaths>>
    BY <1>2 DEF RemoveTenant, Host
  <2> HIDE DEF r
  <2> QED
    BY <2>1, <2>2, <2>3, ShellBefore, CommandOpens
<1>3. CASE AddInfra(t)
  <2> DEFINE r == [step |-> "site", org |-> t]
  <2>1. r \in Commands
    BY DEF Commands, JobSteps
  <2>2. r.step = "site" /\ r.org = t
    OBVIOUS
  <2>3. Command(r) /\ UNCHANGED <<infra, active, conf, linked, live, asks, deaths>>
    BY <1>3 DEF AddInfra, Host
  <2>4. /\ mark' \in [Tenant -> SUBSET Marks] /\ "by hand" \in mark'[t]
        /\ \A u \in Tenant : mark[u] \subseteq mark'[u]
    BY <1>3, ShellBefore DEF AddInfra, Mark, Marks
  <2> HIDE DEF r
  <2> QED
    BY <2>1, <2>2, <2>3, <2>4, CommandOpens
<1> QED
  BY <1>1, <1>2, <1>3

LEMMA AddRowStep == ASSUME IInv, AddRow PROVE IInv'
<1> DEFINE t == proc[Shell].org
           r == IF proc[Shell].root /\ t \notin Reserved THEN [step |-> "site", org |-> t] ELSE Idle
<1>1. proc[Shell].step = "row" /\ UNCHANGED <<active, conf, linked, live, mark, asks, deaths, commands>>
  BY DEF AddRow, At, Host, Bounds
<1>2. t \in Tenant
  BY <1>1, ShellBefore, ShellFields
<1>3. proc' = [proc EXCEPT ![Shell] = r]
  BY DEF AddRow, Org, Exit
<1>4. r \in {Idle} \cup Commands
  BY <1>2 DEF Commands, JobSteps
<1>5. /\ r.step \notin {"row", "rm"}
      /\ r.step \in JobSteps => r.org = t /\ t \notin Reserved
  BY DEF Idle, JobSteps
<1>6. infra' \in [Tenant -> Status]
      /\ \A u \in Tenant : infra'[u] = infra[u] \/ (infra[u] = "absent" /\ infra'[u] = "none")
  BY DEF AddRow, Org, IInv, TypeOK, Status
<1>7. ReservedHasNoSite'
  BY <1>1 DEF IInv, ReservedHasNoSite
<1> HIDE DEF r
<1>8. \A u \in Tenant :
         infra'[u] = "gone" /\ mark'[u] \cap {"crossed", "left over", "by hand"} = {} =>
              /\ \A k \in Tick : ~Works(k, u)
              /\ ~(r.step \in JobSteps \cup {"row"} /\ r.org = u)
              /\ conf'[u] = "none"
  BY <1>1, <1>5, <1>6, ShellBefore
<1> QED
  BY <1>1, <1>3, <1>4, <1>5, <1>6, <1>7, <1>8, ShellBefore, ShellStep

LEMMA DropStep == ASSUME IInv, Drop PROVE IInv'
<1> DEFINE t == proc[Shell].org
           c == proc[Shell]
<1>1. c.step = "drop" /\ UNCHANGED <<conf, linked, live, asks, deaths, commands>>
  BY DEF Drop, At, Host, Bounds
<1>2. "drop" \notin JobSteps \cup {"row", "rm", "idle"}
  BY DEF JobSteps
<1>3. t \in Tenant /\ c.purge \in BOOLEAN /\ c.root \in BOOLEAN /\ [c EXCEPT !.step = "rm"] \in Commands
      /\ [c EXCEPT !.step = "rm"].step = "rm" /\ [c EXCEPT !.step = "rm"].org = t
  BY <1>1, <1>2, ShellBefore, ShellFields
<1>4. Idle.step \notin JobSteps \cup {"row", "rm"}
  BY DEF Idle, JobSteps
<1>5. \A u \in Tenant :
        infra[u] = "gone" /\ mark[u] \cap {"crossed", "left over", "by hand"} = {} =>
          (\A k \in Tick : ~Works(k, u)) /\ conf[u] = "none"
  BY <1>1, <1>2, ShellBefore
<1>6. CASE t \notin Rows
  <2>1. proc' = [proc EXCEPT ![Shell] = Idle] /\ UNCHANGED <<infra, active, mark>>
    BY <1>6 DEF Drop, Exit, Org
  <2>2. ReservedHasNoSite'
    BY <1>1, <2>1 DEF IInv, ReservedHasNoSite
  <2> QED
    BY <1>1, <1>4, <1>5, <2>1, <2>2, ShellBefore, ShellStep
<1>7. CASE t \in Rows
  <2> DEFINE r == IF c.root THEN [c EXCEPT !.step = "rm"] ELSE Idle
             added == (IF Workers(t) # {} THEN {"crossed"} ELSE {}) \cup (IF c.root THEN {} ELSE {"left over"})
  <2>1. /\ proc' = [proc EXCEPT ![Shell] = r]
        /\ infra' = [infra EXCEPT ![t] = IF c.purge THEN "gone" ELSE infra[t]]
        /\ active' = [active EXCEPT ![t] = c.purge /\ active[t]]
        /\ mark' = [mark EXCEPT ![t] = mark[t] \cup added]
    BY <1>7 DEF Drop, Exit, Step, Org
  <2>2. /\ r \in {Idle} \cup Commands /\ r.step \notin JobSteps \cup {"row"}
        /\ c.root => r.step = "rm" /\ r.org = t
    BY <1>3, <1>4 DEF JobSteps
  <2>3. infra[t] # "gone"
    BY <1>7 DEF Rows
  <2>4. /\ infra' \in [Tenant -> Status] /\ active' \in [Tenant -> BOOLEAN]
        /\ mark' \in [Tenant -> SUBSET Marks]
    BY <1>3, <2>1, ShellBefore DEF Status, Marks
  <2>5. \A u \in Tenant : /\ infra'[u] = IF u = t /\ c.purge THEN "gone" ELSE infra[u]
                          /\ mark'[u] = IF u = t THEN mark[u] \cup added ELSE mark[u]
    BY <2>1, ShellBefore
  <2>6. ReservedHasNoSite'
    BY <1>1, <2>5, PrimaryKeys DEF IInv, ReservedHasNoSite
  <2>7. (Workers(t) # {} => "crossed" \in added) /\ (~c.root => "left over" \in added)
    OBVIOUS
  <2>8. \A k \in Tick : Works(k, t) => Workers(t) # {}
    BY DEF Workers
  <2> HIDE DEF r, added
  <2>9. ASSUME NEW u \in Tenant, infra'[u] = "gone", mark'[u] \cap {"crossed", "left over", "by hand"} = {}
        PROVE  /\ \A k \in Tick : ~Works(k, u)
               /\ ~(r.step \in JobSteps \cup {"row"} /\ r.org = u)
               /\ conf'[u] = "none" \/ (r.step = "rm" /\ r.org = u)
    <3>1. CASE u = t
      BY <2>2, <2>5, <2>7, <2>8, <2>9, <3>1
    <3>2. CASE u # t
      BY <1>1, <1>5, <2>2, <2>5, <2>9, <3>2
    <3> QED
      BY <3>1, <3>2
  <2>10. \A u \in Tenant : /\ mark[u] \subseteq mark'[u]
                           /\ infra'[u] = infra[u] \/ infra'[u] = "gone"
    BY <2>5
  <2> QED
    BY <1>1, <2>1, <2>2, <2>4, <2>6, <2>9, <2>10, ShellBefore, ShellStep
<1> QED
  BY <1>6, <1>7

LEMMA RmStep == ASSUME IInv, Rm PROVE IInv'
<1> DEFINE t == proc[Shell].org
           r == IF t \in linked \/ conf[t] # "none" THEN [proc[Shell] EXCEPT !.step = "unload"] ELSE Idle
<1>1. proc[Shell].step = "rm" /\ UNCHANGED <<infra, active, live, asks, deaths, commands>>
  BY DEF Rm, At, Bounds
<1>2. t \in Tenant /\ [proc[Shell] EXCEPT !.step = "unload"] \in Commands
      /\ [proc[Shell] EXCEPT !.step = "unload"].step = "unload"
  BY <1>1, ShellBefore, ShellFields
<1>3. r \in {Idle} \cup Commands /\ r.step \notin JobSteps \cup {"row", "rm"}
  BY <1>2 DEF Idle, JobSteps
<1>4. /\ proc' = [proc EXCEPT ![Shell] = r]
      /\ linked' = linked \ {t}
      /\ conf' = [conf EXCEPT ![t] = "none"]
      /\ mark' = [mark EXCEPT ![t] = mark[t] \cup {"dark"}]
  BY DEF Rm, Step, Exit, Org, Mark
<1>5. /\ conf' \in [Tenant -> {"none", "empty", "whole"}] /\ linked' \subseteq Tenant
      /\ mark' \in [Tenant -> SUBSET Marks]
  BY <1>4, ShellBefore DEF Marks
<1>6. \A u \in Tenant : /\ conf'[u] = IF u = t THEN "none" ELSE conf[u]
                        /\ mark'[u] = IF u = t THEN mark[u] \cup {"dark"} ELSE mark[u]
  BY <1>4, ShellBefore
<1>7. ReservedHasNoSite'
  BY <1>4, <1>6, PrimaryKeys DEF IInv, ReservedHasNoSite
<1> HIDE DEF r
<1>8. ASSUME NEW u \in Tenant, infra'[u] = "gone", mark'[u] \cap {"crossed", "left over", "by hand"} = {}
      PROVE  /\ \A k \in Tick : ~Works(k, u)
             /\ ~(r.step \in JobSteps \cup {"row"} /\ r.org = u)
             /\ conf'[u] = "none" \/ (r.step = "rm" /\ r.org = u)
  <2>1. infra[u] = "gone" /\ mark[u] \cap {"crossed", "left over", "by hand"} = {}
    BY <1>1, <1>6, <1>8
  <2>2. \A k \in Tick : ~Works(k, u)
    BY <2>1, ShellBefore
  <2>3. conf'[u] = "none"
    BY <1>6, <1>1, <2>1, ShellBefore
  <2> QED
    BY <1>3, <2>2, <2>3
<1>9. \A u \in Tenant : "dark" \notin mark'[u] => u # t
  BY <1>6
<1>10. \A u \in Tenant : mark[u] \subseteq mark'[u]
  BY <1>6
<1>11. \A u \in Tenant :
         "dark" \notin mark'[u] /\ u \in linked /\ conf[u] = "whole" /\ u \in live
         => u \in linked' /\ conf'[u] = "whole" /\ u \in live'
  BY <1>1, <1>4, <1>6, <1>9
<1> QED
  BY <1>1, <1>3, <1>4, <1>5, <1>7, <1>8, <1>10, <1>11, ShellBefore, ShellStep

LEMMA UnloadStep == ASSUME IInv, Unload PROVE IInv'
<1>1. /\ proc[Shell].step = "unload" /\ proc' = [proc EXCEPT ![Shell] = Idle]
      /\ UNCHANGED <<infra, active, conf, linked, mark, asks, deaths, commands>>
      /\ live' = live \/ live' = LoadedFrom(linked)
  BY DEF Unload, At, Exit, Bounds
<1>2. "unload" \notin JobSteps \cup {"row", "rm"} /\ Idle.step \notin JobSteps \cup {"row", "rm"}
  BY DEF JobSteps, Idle
<1>3. live' \subseteq Tenant
  BY <1>1, ShellBefore DEF LoadedFrom
<1>4. ReservedHasNoSite'
  BY <1>1 DEF IInv, ReservedHasNoSite
<1>5. \A u \in Tenant : u \in linked /\ conf[u] = "whole" /\ u \in live => u \in live'
  BY <1>1 DEF LoadedFrom
<1> QED
  BY <1>1, <1>2, <1>3, <1>4, <1>5, ShellBefore, ShellStep

(* A terminal that is closed between the row and the site leaves the site. *)
LEMMA TerminalDies == ASSUME IInv, Die(Shell) PROVE IInv'
<1>1. /\ proc' = [proc EXCEPT ![Shell] = Idle] /\ deaths' \in 0 .. MaxDie /\ proc[Shell] # Idle
      /\ UNCHANGED <<infra, active, conf, linked, live, asks, commands>>
  <2>1. /\ proc' = [proc EXCEPT ![Shell] = Idle] /\ proc[Shell] # Idle
        /\ UNCHANGED <<infra, active, conf, linked, live, asks, commands>>
    BY DEF Die, Host
  <2>2. deaths' = deaths + 1 /\ deaths < MaxDie
    BY DEF Die
  <2>3. deaths' \in 0 .. MaxDie
    <3>1. deaths \in 0 .. MaxDie
      BY DEF IInv, TypeOK
    <3> QED
      BY <2>2, <3>1, ProvisionBounds
  <2> QED
    BY <2>1, <2>3
<1>2. mark' = IF proc[Shell].step = "rm"
              THEN [mark EXCEPT ![proc[Shell].org] = mark[proc[Shell].org] \cup {"left over"}]
              ELSE mark
  BY ShellIsNoTick DEF Die, Mark
<1>3. proc[Shell].step = "rm" => proc[Shell].org \in Tenant
  BY ShellBefore, ShellFields
<1>4. /\ mark' \in [Tenant -> SUBSET Marks]
      /\ \A u \in Tenant : mark[u] \subseteq mark'[u]
      /\ proc[Shell].step = "rm" => "left over" \in mark'[proc[Shell].org]
  BY <1>2, <1>3, ShellBefore DEF Marks
<1>5. Idle.step \notin JobSteps \cup {"row", "rm"}
  BY DEF Idle, JobSteps
<1>6. ReservedHasNoSite'
  BY <1>1, <1>4, PrimaryKeys DEF IInv, ReservedHasNoSite
<1>7. ASSUME NEW u \in Tenant, infra'[u] = "gone", mark'[u] \cap {"crossed", "left over", "by hand"} = {}
      PROVE  (\A k \in Tick : ~Works(k, u)) /\ conf'[u] = "none"
  <2>1. infra[u] = "gone" /\ mark[u] \cap {"crossed", "left over", "by hand"} = {}
    BY <1>1, <1>4, <1>7
  <2>2. ~(proc[Shell].step = "rm" /\ proc[Shell].org = u)
    BY <1>4, <1>7
  <2> QED
    BY <1>1, <2>1, <2>2, ShellBefore
<1> QED
  BY <1>1, <1>4, <1>5, <1>6, <1>7, ShellBefore, ShellStep

-----------------------------------------------------------------------------
(* The link *)

(* Taking a link away, or forgetting that a site is dark, has its price. *)
Links == \A u \in Tenant : u \in linked \/ "dark" \in mark[u] => u \in linked' \/ "dark" \in mark'[u]

LEMMA LinkKept ==
  ASSUME TypeOK, LinkedOrDark, Links, NEW q \in Tick \cup {Shell}, NEW r,
         proc' = [proc EXCEPT ![q] = r], r.step = "reload" => r.org \in linked'
  PROVE  LinkedOrDark'
<1>1. \A p \in Tick \cup {Shell} : proc'[p] = IF p = q THEN r ELSE proc[p]
  BY DEF TypeOK
<1>2. \A p \in Tick \cup {Shell} : proc[p].step = "reload" => proc[p].org \in Tenant
  BY ScriptFields DEF JobSteps
<1> QED
  BY <1>1, <1>2 DEF LinkedOrDark, Links

LEMMA ScriptLinks ==
  ASSUME TypeOK, LinkedOrDark, Links, NEW p \in Tick \cup {Shell}, proc[p].step \in JobSteps,
         NEW st \in JobSteps \cup {"done", "failed"}, Step(p, st) \/ Exit(p, st),
         st = "reload" => proc[p].org \in linked'
  PROVE  LinkedOrDark'
<1> DEFINE r == [proc[p] EXCEPT !.step = st]
<1>1. r.org = proc[p].org /\ r.step = st
  BY ScriptFields
<1>2. Idle.step # "reload"
  BY DEF Idle
<1>3. proc' = [proc EXCEPT ![p] = r] \/ proc' = [proc EXCEPT ![p] = Idle]
  BY DEF Step, Exit
<1> HIDE DEF r
<1> QED
  BY <1>1, <1>2, <1>3, LinkKept

LEMMA WorkerLinks ==
  ASSUME IInv, LinkedOrDark, NEW k \in Tick, Start(k) \/ Claim(k) \/ Refuse(k) \/ End(k) \/ Timeout(k)
  PROVE  LinkedOrDark'
<1>1. Idle.step # "reload" /\ \A S : Scanning(S).step # "reload"
  BY DEF Idle, Scanning
<1>2. \A t : Leave(k, t) /\ UNCHANGED linked => Links
  BY DEF Leave, Links, IInv, TypeOK
<1>3. CASE Start(k)
  BY <1>1, <1>3, LinkKept DEF Start, Host, Links, IInv
<1>4. CASE Claim(k)
  <2> DEFINE t == Oldest(proc[k].rest)
             S == proc[k].rest \ {t}
             w == [step |-> IF t \in Reserved THEN "refuse" ELSE "site", org |-> t, rest |-> S]
  <2>1. /\ proc' = [proc EXCEPT ![k] = Scanning(S)] \/ proc' = [proc EXCEPT ![k] = w]
        /\ UNCHANGED <<linked, mark>>
    BY <1>4 DEF Claim, Host
  <2>2. w.step # "reload"
    OBVIOUS
  <2> HIDE DEF S, w
  <2> QED
    BY <1>1, <2>1, <2>2, LinkKept DEF Links, IInv
<1>5. CASE Refuse(k)
  BY <1>1, <1>2, <1>5, LinkKept DEF Refuse, Finish, Host, IInv
<1>6. CASE End(k)
  BY <1>1, <1>2, <1>6, LinkKept DEF End, Finish, Host, IInv
<1>7. CASE Timeout(k)
  BY <1>7, ScriptLinks DEF Timeout, Host, Links, IInv
<1> QED
  BY <1>3, <1>4, <1>5, <1>6, <1>7

LEMMA DeathLinks ==
  ASSUME IInv, LinkedOrDark, NEW p \in Tick \cup {Shell}, Die(p)
  PROVE  LinkedOrDark'
<1>1. Idle.step # "reload" /\ proc' = [proc EXCEPT ![p] = Idle] /\ UNCHANGED linked
  BY DEF Idle, Die, Host
<1>2. PICK M : mark' = [mark EXCEPT ![proc[p].org] = M]
               /\ (proc[p].org \in Tenant /\ "dark" \in mark[proc[p].org] => "dark" \in M)
  <2> DEFINE t == proc[p].org
             W == (IF Workers(t) = {p} THEN mark[t] \ {"requeued"} ELSE mark[t]) \cup {"stranded"}
  <2>1. \/ mark' = [mark EXCEPT ![t] = W]
        \/ mark' = [mark EXCEPT ![t] = mark[t] \cup {"left over"}]
        \/ mark' = mark
    BY DEF Die, Mark
  <2>2. mark = [mark EXCEPT ![t] = mark[t]]
    BY DEF IInv, TypeOK
  <2>3. "dark" \in mark[t] => "dark" \in W
    OBVIOUS
  <2> HIDE DEF t, W
  <2>4. CASE mark' = [mark EXCEPT ![t] = W]
    BY <2>3, <2>4 DEF t
  <2> QED
    BY <2>1, <2>2, <2>4 DEF t
<1>3. Links
  BY <1>1, <1>2 DEF Links, IInv, TypeOK
<1> QED
  BY <1>1, <1>3, LinkKept DEF IInv

LEMMA JobLinks ==
  ASSUME IInv, LinkedOrDark, NEW p \in Tick \cup {Shell}, Job(p)
  PROVE  LinkedOrDark'
<1>1. {"open", "fill", "link", "tls"} \subseteq JobSteps \ {"reload"} /\ "reload" \in JobSteps
  BY DEF JobSteps
<1>2. proc[p].step \in JobSteps
  BY DEF Job, Site, Open, Fill, Link, Reload, Tls, At, JobSteps
<1>3. CASE Site(p)
  BY <1>1, <1>2, <1>3, ScriptLinks DEF Site, Host, Links, IInv
<1>4. CASE Open(p)
  <2>1. Links
    BY <1>4 DEF Open, Links, IInv, TypeOK
  <2> QED
    BY <1>1, <1>2, <1>4, <2>1, ScriptLinks DEF Open, IInv
<1>5. CASE Fill(p)
  BY <1>1, <1>2, <1>5, ScriptLinks DEF Fill, Links, IInv
<1>6. CASE Link(p)
  <2>1. Links
    BY <1>6 DEF Link, Links
  <2> QED
    BY <1>1, <1>2, <1>6, <2>1, ScriptLinks DEF Link, Org, IInv
<1>7. CASE Reload(p)
  <2>1. Links
    <3>1. CASE mark' = [mark EXCEPT ![Org(p)] = Loaded(Org(p))] /\ UNCHANGED linked
      BY <3>1 DEF Links, Loaded, IInv, TypeOK
    <3>2. CASE Mark(Org(p), "dark") /\ UNCHANGED linked
      BY <3>2 DEF Links, Mark, IInv, TypeOK
    <3>3. CASE UNCHANGED <<mark, linked>>
      BY <3>3 DEF Links
    <3> QED
      BY <1>7, <3>1, <3>2, <3>3 DEF Reload
  <2> QED
    BY <1>1, <1>2, <1>7, <2>1, ScriptLinks DEF Reload, IInv
<1>8. CASE Tls(p)
  BY <1>1, <1>2, <1>8, ScriptLinks DEF Tls, Links, IInv
<1> QED
  BY <1>3, <1>4, <1>5, <1>6, <1>7, <1>8 DEF Job

LEMMA TerminalLinks ==
  ASSUME IInv, LinkedOrDark,
         \/ AddRow \/ Drop \/ Rm \/ Unload
         \/ \E t \in Tenant : AddInfra(t) \/ \E root \in BOOLEAN :
               AddTenant(t, root) \/ \E purge \in BOOLEAN : RemoveTenant(t, purge, root)
  PROVE  LinkedOrDark'
<1>1. Idle.step # "reload"
  BY DEF Idle
<1>2. ASSUME NEW c, c.step \in {"row", "site", "drop"}, Command(c), UNCHANGED linked,
             \A u \in Tenant : mark[u] \subseteq mark'[u]
      PROVE  LinkedOrDark'
  BY <1>2, LinkKept DEF Command, Links, IInv
<1>3. ASSUME NEW t \in Tenant, AddInfra(t)
      PROVE  LinkedOrDark'
  <2>1. \A u \in Tenant : mark[u] \subseteq mark'[u]
    BY <1>3 DEF AddInfra, Mark, IInv, TypeOK
  <2> DEFINE c == [step |-> "site", org |-> t]
  <2>2. Command(c) /\ UNCHANGED linked
    BY <1>3 DEF AddInfra, Host
  <2>3. c.step \in {"row", "site", "drop"}
    OBVIOUS
  <2> HIDE DEF c
  <2> QED
    BY <1>2, <2>1, <2>2, <2>3
<1>4. ASSUME NEW t \in Tenant, NEW root \in BOOLEAN, AddTenant(t, root)
      PROVE  LinkedOrDark'
  BY <1>2, <1>4 DEF AddTenant, Host
<1>5. ASSUME NEW t \in Tenant, NEW root \in BOOLEAN, NEW purge \in BOOLEAN, RemoveTenant(t, purge, root)
      PROVE  LinkedOrDark'
  BY <1>2, <1>5 DEF RemoveTenant, Host
<1>6. CASE AddRow
  <2>1. PICK r : proc' = [proc EXCEPT ![Shell] = r] /\ r.step # "reload"
    <3> DEFINE site == [step |-> "site", org |-> Org(Shell)]
    <3>1. proc' = [proc EXCEPT ![Shell] = site] \/ proc' = [proc EXCEPT ![Shell] = Idle]
      BY <1>6 DEF AddRow, Exit
    <3>2. site.step # "reload"
      OBVIOUS
    <3> HIDE DEF site
    <3> QED
      BY <1>1, <3>1, <3>2
  <2> QED
    BY <1>6, <2>1, LinkKept DEF AddRow, Host, Links, IInv
<1>7. ASSUME NEW st \in {"rm", "unload"}, Step(Shell, st) \/ Exit(Shell, "done") \/ Exit(Shell, "failed"),
             Links, proc[Shell].step \in {"drop", "rm", "unload"}
      PROVE  LinkedOrDark'
  <2> DEFINE r == [proc[Shell] EXCEPT !.step = st]
  <2>1. proc' = [proc EXCEPT ![Shell] = r] \/ proc' = [proc EXCEPT ![Shell] = Idle]
    BY <1>7 DEF Step, Exit
  <2>2. r.step = st
    <3>1. proc[Shell] \in {Idle} \cup Commands
      BY DEF IInv, TypeOK
    <3>2. proc[Shell] # Idle
      <4>1. Idle.step \notin {"drop", "rm", "unload"}
        BY DEF Idle
      <4>2. proc[Shell].step \in {"drop", "rm", "unload"}
        BY <1>7
      <4> QED
        BY <4>1, <4>2
    <3>3. proc[Shell] \in Commands
      BY <3>1, <3>2
    <3> QED
      BY <3>3 DEF Commands
  <2> HIDE DEF r
  <2> QED
    BY <1>1, <1>7, <2>1, <2>2, LinkKept DEF IInv
<1>8. CASE Drop
  <2>1. Links
    <3> DEFINE t == Org(Shell)
               m == mark[t] \cup (IF Workers(t) # {} THEN {"crossed"} ELSE {})
                            \cup (IF proc[Shell].root THEN {} ELSE {"left over"})
    <3>1. linked' = linked /\ (mark' = mark \/ mark' = [mark EXCEPT ![t] = m])
      BY <1>8 DEF Drop, Host
    <3>2. mark[t] \subseteq m
      OBVIOUS
    <3> HIDE DEF m, t
    <3> QED
      BY <3>1, <3>2 DEF Links, IInv, TypeOK
  <2> QED
    BY <1>7, <1>8, <2>1 DEF Drop, At
<1>9. CASE Rm
  <2>1. Links
    BY <1>9 DEF Rm, Mark, Links, IInv, TypeOK
  <2> QED
    BY <1>7, <1>9, <2>1 DEF Rm, At
<1>10. CASE Unload
  BY <1>7, <1>10 DEF Unload, At, Links
<1> QED
  BY <1>3, <1>4, <1>5, <1>6, <1>8, <1>9, <1>10

LEMMA LinkedStep == ASSUME IInv, LinkedOrDark, [Next]_vars PROVE LinkedOrDark'
<1>1. ASSUME NEW t \in Tenant, Create(t) \/ Reactivate(t)
      PROVE  LinkedOrDark'
  BY <1>1 DEF Create, Reactivate, Host, LinkedOrDark
<1>2. ASSUME NEW S \in SUBSET Tenant, Queue(S)
      PROVE  LinkedOrDark'
  <2>1. /\ UNCHANGED <<proc, linked>>
        /\ \A u \in Tenant : "dark" \in mark[u] => "dark" \in mark'[u]
    BY <1>2 DEF Queue, Host, IInv, TypeOK
  <2>2. \A p \in Tick \cup {Shell} : proc[p].step = "reload" => proc[p].org \in Tenant
    BY ScriptFields DEF JobSteps, IInv
  <2> QED
    BY <2>1, <2>2 DEF LinkedOrDark
<1>3. CASE UNCHANGED vars
  BY <1>3 DEF vars, LinkedOrDark
<1>4. ASSUME NEW k \in Tick, Worker(k) \/ Timeout(k)
      PROVE  LinkedOrDark'
  BY <1>4, WorkerLinks, JobLinks DEF Worker
<1> QED
  BY <1>1, <1>2, <1>3, <1>4, DeathLinks, JobLinks, TerminalLinks DEF Next

-----------------------------------------------------------------------------
LEMMA ProvisionStep == ASSUME IInv, LinkedOrDark, [Next]_vars PROVE IInv'
<1>1. CASE \E t \in Tenant : Create(t) \/ Reactivate(t)
  BY <1>1, RowStep
<1>2. CASE \E S \in SUBSET Tenant : Queue(S)
  BY <1>2, QueueStep
<1>3. CASE \E k \in Tick : Worker(k) \/ Timeout(k)
  <2>1. PICK k \in Tick : Worker(k) \/ Timeout(k)
    BY <1>3
  <2> QED
    BY <2>1, StartStep, ClaimStep, RefuseStep, EndStep, SiteStep, OpenStep, FillStep, LinkStep,
       ReloadStep, TlsStep, TimeoutStep DEF Worker, Job
<1>4. CASE \E p \in Tick \cup {Shell} : Die(p)
  BY <1>4, WorkerDies, TerminalDies
<1>5. CASE Job(Shell) \/ AddRow \/ Drop \/ Rm \/ Unload
  BY <1>5, SiteStep, OpenStep, FillStep, LinkStep, ReloadStep, TlsStep, AddRowStep, DropStep,
     RmStep, UnloadStep DEF Job
<1>6. CASE \E t \in Tenant : AddInfra(t) \/ \E root \in BOOLEAN :
             AddTenant(t, root) \/ \E purge \in BOOLEAN : RemoveTenant(t, purge, root)
  BY <1>6, CommandStep
<1>7. CASE UNCHANGED vars
  <2>1. UNCHANGED <<infra, active, conf, linked, live, proc, mark, asks, deaths, commands>>
    BY <1>7 DEF vars
  <2>2. TypeOK' /\ ReservedHasNoSite'
    BY <2>1 DEF IInv, TypeOK, ReservedHasNoSite
  <2>3. \A k \in Tick, t \in Tenant : Works(k, t)' <=> Works(k, t)
    BY <2>1 DEF Works
  <2>4. \A t \in Tenant : Workers(t)' = Workers(t)
    BY <2>1 DEF Works, Workers
  <2>5. Apart'
    BY <2>1, <2>3 DEF IInv, Apart
  <2>6. StatusTellsTheWork'
    BY <2>1, <2>4 DEF IInv, StatusTellsTheWork
  <2>7. ReservedApart'
    BY <2>1, <2>3, PrimaryKeys DEF IInv, ReservedApart
  <2>8. GoneForGood' /\ PurgedHasNoSite'
    BY <2>1, <2>3 DEF IInv, GoneForGood, PurgedHasNoSite, At, Org
  <2>9. Hosted'
    BY <2>1, <2>3 DEF IInv, Hosted, PastReload
  <2> QED
    BY <2>2, <2>5, <2>6, <2>7, <2>8, <2>9 DEF IInv
<1> QED
  BY <1>1, <1>2, <1>3, <1>4, <1>5, <1>6, <1>7 DEF Next

LEMMA Invariance == Spec => []IInv
<1>1. Init => IInv /\ LinkedOrDark
  <2>1. Init => LinkedOrDark
    BY DEF Init, LinkedOrDark, Idle
  <2> QED
    BY <2>1, InitInv
<1>2. IInv /\ LinkedOrDark /\ [Next]_vars => IInv' /\ LinkedOrDark'
  BY ProvisionStep, LinkedStep
<1> QED
  BY <1>1, <1>2, PTL DEF Spec

(* Rows, files, links, workers and the terminal have their types. *)
THEOREM TypeCorrect == Spec => []TypeOK
<1>1. IInv => TypeOK
  BY DEF IInv
<1> QED
  BY <1>1, Invariance, PTL

(* The conditional UPDATE with which a worker claims a row keeps any number *)
(* of overlapping workers apart, but for a row that was queued again.       *)
THEOREM ClaimsAreExclusive == Spec => []WorkersKeepApart
<1>1. IInv => WorkersKeepApart
  <2> SUFFICES ASSUME IInv, NEW t \in Tenant, "requeued" \notin mark[t]
               PROVE  Cardinality(Workers(t)) <= 1
    BY DEF WorkersKeepApart
  <2>1. CASE Workers(t) = {}
    BY <2>1, FS_EmptySet
  <2>2. CASE Workers(t) # {}
    <3>1. PICK k \in Tick : k \in Workers(t)
      BY <2>2 DEF Workers
    <3>2. Workers(t) = {k}
      BY <3>1 DEF IInv, Apart, Workers
    <3> QED
      BY <3>2, FS_Singleton
  <2> QED
    BY <2>1, <2>2
<1> QED
  BY <1>1, Invariance, PTL

(* What the admin reads in the status column about a worker at a row. *)
THEOREM StatusIsTrue == Spec => []StatusTellsTheWork
<1>1. IInv => StatusTellsTheWork
  BY DEF IInv
<1> QED
  BY <1>1, Invariance, PTL

(* A theater whose status is Live and that is active is answered with its   *)
(* own pages, unless nginx refused its file or lost it since.               *)
THEOREM LiveTheatersAnswer == Spec => []LiveIsServed
<1>1. IInv => LiveIsServed
  <2> SUFFICES ASSUME IInv, NEW t \in Tenant, infra[t] = "provisioned", active[t],
                      "dark" \notin mark[t]
               PROVE  Answer(t) = "theater"
    BY DEF LiveIsServed
  <2>1. PastReload(t) /\ "dark" \notin mark[t]
    BY DEF PastReload
  <2>2. t \in live
    BY <2>1 DEF IInv, Hosted
  <2>3. t \notin Reserved /\ t \in Rows
    BY DEF IInv, ReservedApart, Rows
  <2> QED
    BY <2>2, <2>3 DEF Answer
<1> QED
  BY <1>1, Invariance, PTL

(* The guard of provision_pending_tenants and of provision_tenant: no site   *)
(* for a reserved subdomain, unless the operator skips the row.             *)
THEOREM ReservedStayFree == Spec => []ReservedHasNoSite
<1>1. IInv => ReservedHasNoSite
  BY DEF IInv
<1> QED
  BY <1>1, Invariance, PTL

(* remove-tenant --purge leaves no site behind, but where a worker was at   *)
(* the row, root was missing, the terminal was closed between the row and   *)
(* the site, or the operator put the site up.                               *)
THEOREM PurgeIsClean == Spec => []PurgedHasNoSite
<1>1. IInv => PurgedHasNoSite
  BY DEF IInv
<1> QED
  BY <1>1, Invariance, PTL
=============================================================================
