---------------------------- MODULE LeaseLedger ----------------------------
(***************************************************************************)
(* The lease ledger of one project (crates/fnox-core/src/lease.rs) and the *)
(* processes that share it: `fnox exec` and `fnox get`, which reuse a      *)
(* recorded lease or create one, and `fnox lease create`, `revoke` and     *)
(* `cleanup` (src/commands/lease.rs).  Any of them may be killed.          *)
(*                                                                         *)
(* Leases are numbered in the order the backends issue them; the number    *)
(* stands for the credentials.  The lease IDs are what the backend says,   *)
(* and need not be unique.                                                 *)
(***************************************************************************)
EXTENDS Naturals, Sequences

CONSTANTS
    Process,    \* fnox processes
    Backend,    \* the configured lease backends
    LeaseId,    \* lease IDs
    IdsOf,      \* IdsOf[n]: the IDs the n-th lease may be given
    Hash,       \* values of a backend's config_hash
    Versions,   \* the fnox versions that issue leases: an old one records no config_hash
    Operations, \* what the processes may be asked to do
    None,       \* no expiry, no lock holder, no target
    Buffer,     \* LEASE_REUSE_BUFFER_SECS
    Retention,  \* how long save keeps records: 24 hours
    Duration,   \* the lifetime of a lease that expires
    MaxClock,   \* bound: time
    MaxLease    \* bound: leases issued

\* A command: exec and get want the credentials of a backend, create makes a
\* lease of it; revoke takes a lease ID, a backend, or neither for --all.
Operation == [kind : {"exec", "get", "create", "revoke", "cleanup"},
              backend : Backend \union {None}, id : LeaseId \union {None}]

ASSUME LeaseLedgerAssumption ==
    /\ Operations \subseteq Operation
    /\ \A o \in Operations : o.kind \in {"exec", "get", "create"} => o.backend \in Backend
    /\ {Buffer, Retention, Duration, MaxClock, MaxLease} \subseteq Nat
    /\ IdsOf \in [1 .. MaxLease -> SUBSET LeaseId]
    /\ Versions \subseteq {"old", "new"}
    /\ None \notin Process /\ None \notin Nat /\ None \notin Hash
    /\ None \notin Backend /\ None \notin LeaseId

VARIABLES
    clock,    \* the time
    hash,     \* hash[b]: config_hash of b in the config files now
    issued,   \* issued[n]: the n-th lease
    live,     \* the leases their backends have not revoked
    ledger,   \* the ledger file
    lock,     \* the process that holds the .lock file, or None
    pc,       \* pc[p]: where process p is
    op,       \* op[p]: its command
    missing,  \* missing[p]: check_prerequisites found something missing
    loaded,   \* loaded[p]: config_hash of its backend in the config it loaded
    mem,      \* mem[p]: the LeaseLedger it has loaded
    todo,     \* todo[p]: positions in mem[p] it has still to revoke
    lease,    \* lease[p]: the lease it holds, or 0
    revoked,  \* history: leases that a command reported as revoked
    seen,     \* seen[p]: history: `revoked` when p began
    unsure    \* history: revoked at the backend by a command that did not finish

commandVars == <<op, missing, loaded, lease, seen>>
procVars == <<op, missing, loaded, mem, todo, lease, seen>>
vars == <<clock, hash, issued, live, ledger, lock, pc, op, missing, loaded, mem,
          todo, lease, revoked, seen, unsure>>

----------------------------------------------------------------------------
(* Records and the ledger. *)

Expiry == Nat \union {None}

\* hash is the config_hash of the lease, None if an fnox issued it that did not record it.
Lease == [id : LeaseId, backend : Backend, expires : Expiry, hash : Hash \union {None}]

\* cached is "none", "plain" or "encrypted" for cached_credentials and
\* encryption_provider; n says whose credentials they are.
LeaseRecord == [n : Nat, id : LeaseId, backend : Backend, created : Nat, expires : Expiry,
                revoked : BOOLEAN, cached : {"none", "plain", "encrypted"}, hash : Hash \union {None}]

Active(r)  == ~r.revoked /\ (r.expires = None \/ r.expires > clock)
Expired(r) == ~r.revoked /\ r.expires # None /\ r.expires <= clock

\* What save keeps: what expired, or without an expiry was created, in the last
\* 24 hours.
Kept(r) == (IF r.expires = None THEN r.created ELSE r.expires) + Retention > clock

\* The file after LeaseLedger::save, which compacts a copy.
Saved(s) ==
    LET kept[i \in 0 .. Len(s)] ==
            IF i = 0 THEN <<>>
            ELSE IF Kept(s[i]) THEN Append(kept[i - 1], s[i]) ELSE kept[i - 1]
    IN  kept[Len(s)]

is_reusable(r) ==
    /\ ~r.revoked /\ r.cached # "none"
    /\ r.expires = None \/ r.expires > clock + Buffer

\* Mutant: the configuration may have changed.
ReusableAnyConfig(s, b, h) == {i \in DOMAIN s : s[i].backend = b /\ is_reusable(s[i])}

\* A record without a config_hash is good for any configuration.
Reusable(s, b, h) ==
    {i \in DOMAIN s : s[i].backend = b /\ is_reusable(s[i]) /\ s[i].hash \in {h, None}}

\* Record q ranks above r: it expires later, and without expiry it is highest.
Outlives(q, r) == r.expires # None /\ (q.expires = None \/ q.expires > r.expires)

\* find_reusable: of the records that outlive all others, the last.
find_reusable(s, b, h) ==
    LET R == Reusable(s, b, h)
    IN  CHOOSE i \in R : \A j \in R : ~Outlives(s[j], s[i]) /\ (j > i => Outlives(s[i], s[j]))

\* Mutant: the record is looked up by its lease ID.
MarkById(s, i) ==
    LET first == CHOOSE j \in DOMAIN s : s[j].id = s[i].id /\ \A k \in 1 .. j - 1 : s[k].id # s[i].id
    IN  [s EXCEPT ![first] = [@ EXCEPT !.revoked = TRUE, !.cached = "none"]]

mark_revoked_at(s, i) == [s EXCEPT ![i] = [@ EXCEPT !.revoked = TRUE, !.cached = "none"]]

\* LeaseRevokeCommand::resolve_target: the positions a revoke is about.
ById(s, id) == {i \in DOMAIN s : s[i].id = id}
Targets(s, o) ==
    IF o.id # None THEN ById(s, o.id)
    ELSE {i \in DOMAIN s : Active(s[i]) /\ (o.backend = None \/ s[i].backend = o.backend)}

\* An ID that no record has, or records of several backends, is refused.
Refused(s, o) ==
    o.id # None /\ (ById(s, o.id) = {} \/ \E i, j \in ById(s, o.id) : s[i].backend # s[j].backend)

First(S) == CHOOSE i \in S : \A j \in S : i <= j

----------------------------------------------------------------------------
Init ==
    /\ clock = 0
    /\ hash \in [Backend -> Hash]
    /\ issued = <<>>
    /\ live = {}
    /\ ledger = <<>>
    /\ lock = None
    /\ pc = [p \in Process |-> "idle"]
    /\ op = [p \in Process |-> None]
    /\ missing = [p \in Process |-> FALSE]
    /\ loaded = [p \in Process |-> None]
    /\ mem = [p \in Process |-> <<>>]
    /\ todo = [p \in Process |-> {}]
    /\ lease = [p \in Process |-> 0]
    /\ revoked = {}
    /\ seen = [p \in Process |-> {}]
    /\ unsure = {}

----------------------------------------------------------------------------
(* The world. *)

Tick ==
    /\ clock < MaxClock
    /\ clock' = clock + 1
    /\ UNCHANGED <<hash, issued, live, ledger, lock, pc, procVars, revoked, unsure>>

EditConfig(b, h) ==
    /\ hash' = [hash EXCEPT ![b] = h]
    /\ UNCHANGED <<clock, issued, live, ledger, lock, pc, procVars, revoked, unsure>>

----------------------------------------------------------------------------
(* Processes. *)

\* A command loads its configuration.  exec looks for a cached lease first when
\* prerequisites are missing; get looks for one in any case.
Begin(p, o) ==
    /\ pc[p] = "idle"
    /\ op' = [op EXCEPT ![p] = o]
    /\ loaded' = [loaded EXCEPT ![p] = IF o.backend = None THEN None ELSE hash[o.backend]]
    /\ seen' = [seen EXCEPT ![p] = revoked]
    /\ \E m \in IF o.kind \in {"exec", "get"} THEN BOOLEAN ELSE {FALSE} :
          /\ missing' = [missing EXCEPT ![p] = m]
          /\ pc' = [pc EXCEPT ![p] = CASE o.kind = "exec" /\ m -> "precheck"
                                       [] o.kind = "get" \/ (o.kind = "exec" /\ ~m) -> "check"
                                       [] OTHER -> "lock"]
    /\ UNCHANGED <<clock, hash, issued, live, ledger, lock, mem, todo, lease, revoked, unsure>>

\* The process ends: its memory is gone.
Return(p) ==
    /\ pc[p] \in {"done", "failed"}
    /\ pc' = [pc EXCEPT ![p] = "idle"]
    /\ op' = [op EXCEPT ![p] = None]
    /\ missing' = [missing EXCEPT ![p] = FALSE]
    /\ loaded' = [loaded EXCEPT ![p] = None]
    /\ lease' = [lease EXCEPT ![p] = 0]
    /\ seen' = [seen EXCEPT ![p] = {}]
    /\ UNCHANGED <<clock, hash, issued, live, ledger, lock, mem, todo, revoked, unsure>>

\* The leases whose backend revocation p has not yet saved in the ledger.
InHand(p) ==
    {n \in 1 .. Len(issued) :
        /\ n \notin live
        /\ \E i \in DOMAIN mem[p] : /\ mem[p][i].n = n
                                    /\ IF pc[p] = "mark" THEN i = First(todo[p])
                                       ELSE pc[p] \in {"clean", "save"} /\ mem[p][i].revoked}

\* Mutant: a command that fails keeps the lock.
LeaveLocked(p, outcome) ==
    /\ pc' = [pc EXCEPT ![p] = outcome]
    /\ lock' = IF lock = p /\ outcome = "done" THEN None ELSE lock
    /\ mem' = [mem EXCEPT ![p] = <<>>]
    /\ todo' = [todo EXCEPT ![p] = {}]

\* Leave the command, dropping the loaded ledger and the lock if it is held.
Leave(p, outcome) ==
    /\ pc' = [pc EXCEPT ![p] = outcome]
    /\ lock' = IF lock = p THEN None ELSE lock
    /\ mem' = [mem EXCEPT ![p] = <<>>]
    /\ todo' = [todo EXCEPT ![p] = {}]

\* The process is killed, and the operating system drops its file lock; or it
\* cannot lock or load the ledger and gives up.
Crash(p) ==
    /\ pc[p] \notin {"idle", "done", "failed"}
    /\ Leave(p, "failed")
    /\ unsure' = unsure \union InHand(p)
    /\ UNCHANGED <<clock, hash, issued, live, ledger, commandVars, revoked>>

----------------------------------------------------------------------------
(* exec and get: the lock is only held to read or to write the ledger. *)

\* exec skips a lease with missing prerequisites and nothing cached.
PreCheck(p) ==
    /\ pc[p] = "precheck" /\ lock = None
    /\ pc' = [pc EXCEPT ![p] = IF Reusable(ledger, op[p].backend, loaded[p]) # {}
                               THEN "check" ELSE "done"]
    /\ UNCHANGED <<clock, hash, issued, live, ledger, lock, procVars, revoked, unsure>>

\* resolve_lease and resolve_from_lease: read the ledger, copy the best entry.
CheckCache(p) ==
    /\ pc[p] = "check" /\ lock = None
    /\ IF Reusable(ledger, op[p].backend, loaded[p]) = {}
       THEN /\ pc' = [pc EXCEPT ![p] = "create"]
            /\ UNCHANGED lease
       ELSE LET r == ledger[find_reusable(ledger, op[p].backend, loaded[p])]
            IN  /\ lease' = [lease EXCEPT ![p] = r.n]
                /\ pc' = [pc EXCEPT ![p] = IF r.cached = "encrypted" THEN "decrypt" ELSE "done"]
    /\ UNCHANGED <<clock, hash, issued, live, ledger, lock, op, missing, loaded, mem, todo,
                   revoked, seen, unsure>>

\* resolve_cached_entry, without the lock; when it fails a lease is created.
Decrypt(p) ==
    /\ pc[p] = "decrypt"
    /\ \/ /\ pc' = [pc EXCEPT ![p] = "done"]
          /\ UNCHANGED lease
       \/ /\ pc' = [pc EXCEPT ![p] = "create"]
          /\ lease' = [lease EXCEPT ![p] = 0]
    /\ UNCHANGED <<clock, hash, issued, live, ledger, lock, op, missing, loaded, mem, todo,
                   revoked, seen, unsure>>

\* The config_hash that goes into the record.
HashKept(p) == {IF v = "old" THEN None ELSE loaded[p] : v \in Versions}

\* The backend issues a lease: without the lock for exec and get, under it for
\* `fnox lease create`.
CreateLease(p) ==
    /\ pc[p] = "create" /\ ~missing[p]
    /\ Len(issued) < MaxLease
    /\ \E id \in IdsOf[Len(issued) + 1], expires \in {clock + Duration, None}, h \in HashKept(p) :
          issued' = Append(issued, [id |-> id, backend |-> op[p].backend, expires |-> expires,
                                    hash |-> h])
    /\ live' = live \union {Len(issued')}
    /\ lease' = [lease EXCEPT ![p] = Len(issued')]
    /\ pc' = [pc EXCEPT ![p] = "record"]
    /\ UNCHANGED <<clock, hash, ledger, lock, op, missing, loaded, mem, todo, revoked, seen,
                   unsure>>

\* Prerequisites are missing, the duration is too long (`fnox lease create` finds
\* these out before it locks), or the backend fails.
CreateFail(p) ==
    /\ pc[p] = "create" \/ (pc[p] = "lock" /\ op[p].kind = "create")
    /\ Leave(p, "failed")
    /\ UNCHANGED <<clock, hash, issued, live, ledger, commandVars, revoked, unsure>>

\* record_lease, on the ledger loaded under this lock.  The credentials are
\* cached, encrypted or not, unless the backend or the encryption provider says
\* otherwise.  A failed save is only a warning.
Record(p) ==
    /\ pc[p] = "record"
    /\ op[p].kind = "create" \/ lock = None
    /\ LET l == issued[lease[p]]
           base == IF op[p].kind = "create" THEN mem[p] ELSE ledger
       IN  \/ \E cached \in {"none", "plain", "encrypted"} :
                ledger' = Saved(Append(base, [n |-> lease[p], id |-> l.id, backend |-> l.backend,
                                              created |-> clock, expires |-> l.expires,
                                              revoked |-> FALSE, cached |-> cached,
                                              hash |-> l.hash]))
           \/ UNCHANGED ledger
    /\ Leave(p, "done")
    /\ UNCHANGED <<clock, hash, issued, live, commandVars, revoked, unsure>>

----------------------------------------------------------------------------
(* The lease commands: the lock is held until they are done. *)

\* Mutant: the ledger is loaded, but the lock is not held.
LoadUnlocked(p) ==
    /\ pc[p] = "lock" /\ lock = None
    /\ mem' = [mem EXCEPT ![p] = ledger]
    /\ todo' = [todo EXCEPT ![p] = {i \in DOMAIN ledger : ~ledger[i].revoked}]
    /\ pc' = [pc EXCEPT ![p] = IF todo'[p] = {} THEN "failed"
                               ELSE IF op[p].kind = "revoke" THEN "revoke" ELSE "clean"]
    /\ UNCHANGED <<clock, hash, issued, live, ledger, lock, commandVars, revoked, unsure>>

\* Take the lock and load the ledger; revoke and cleanup choose their records,
\* by position.
Lock(p) ==
    /\ pc[p] = "lock" /\ lock = None
    /\ LET chosen == CASE op[p].kind = "revoke"  -> Targets(ledger, op[p])
                       [] op[p].kind = "cleanup" -> {i \in DOMAIN ledger : Expired(ledger[i])}
                       [] OTHER -> {}
           next == IF op[p].kind = "create" THEN "create"
                   ELSE IF op[p].kind = "revoke" /\ Refused(ledger, op[p]) THEN "failed"
                   ELSE IF chosen = {} THEN "done"
                   ELSE IF op[p].kind = "revoke" THEN "revoke" ELSE "clean"
       IN  IF next \in {"failed", "done"} THEN Leave(p, next)
           ELSE /\ mem' = [mem EXCEPT ![p] = ledger]
                /\ todo' = [todo EXCEPT ![p] = chosen]
                /\ pc' = [pc EXCEPT ![p] = next]
                /\ lock' = p
    /\ UNCHANGED <<clock, hash, issued, live, ledger, commandVars, revoked, unsure>>

\* A backend asked to revoke a lease revokes what it knows by that ID, or fails.
RevokeAt(r) ==
    \/ live' = live \ {n \in live : issued[n].id = r.id /\ issued[n].backend = r.backend}
    \/ UNCHANGED live

\* Position i is dealt with; s is the ledger in memory now.
Advance(p, i, s, next, last) ==
    IF todo[p] = {i} THEN Leave(p, last)
    ELSE /\ mem' = [mem EXCEPT ![p] = s]
         /\ todo' = [todo EXCEPT ![p] = @ \ {i}]
         /\ pc' = [pc EXCEPT ![p] = next]
         /\ UNCHANGED lock

\* revoke_record, for the next record that is not revoked yet.
RevokeRemote(p) ==
    /\ pc[p] = "revoke"
    /\ LET i == First(todo[p])
       IN IF mem[p][i].revoked
          THEN Advance(p, i, mem[p], "revoke", "done") /\ UNCHANGED live
          ELSE /\ RevokeAt(mem[p][i])
               /\ pc' = [pc EXCEPT ![p] = "mark"]
               /\ UNCHANGED <<mem, todo, lock>>
    /\ UNCHANGED <<clock, hash, issued, ledger, commandVars, revoked, unsure>>

\* Mutant: the ledger is saved once, after the last record.
SaveLast(p) ==
    /\ pc[p] = "mark"
    /\ LET i == First(todo[p])
           marked == mark_revoked_at(mem[p], i)
       IN /\ ledger' = IF todo[p] = {i} THEN Saved(marked) ELSE ledger
          /\ revoked' = revoked \union {mem[p][i].n}
          /\ Advance(p, i, marked, "revoke", "done")
    /\ UNCHANGED <<clock, hash, issued, live, commandVars, unsure>>

\* mark_revoked_at and save, after each record; a failed save ends the command.
MarkRevoked(p) ==
    /\ pc[p] = "mark"
    /\ LET i == First(todo[p])
           marked == mark_revoked_at(mem[p], i)
       IN \/ /\ ledger' = Saved(marked)
             /\ revoked' = revoked \union {mem[p][i].n}
             /\ Advance(p, i, marked, "revoke", "done")
             /\ UNCHANGED unsure
          \/ /\ Leave(p, "failed")
             /\ unsure' = unsure \union InHand(p)
             /\ UNCHANGED <<ledger, revoked>>
    /\ UNCHANGED <<clock, hash, issued, live, commandVars>>

\* cleanup asks the backend about each expired record and marks it in memory.
CleanOne(p) ==
    /\ pc[p] = "clean"
    /\ LET i == First(todo[p])
       IN /\ RevokeAt(mem[p][i])
          /\ mem' = [mem EXCEPT ![p] = mark_revoked_at(@, i)]
          /\ todo' = [todo EXCEPT ![p] = @ \ {i}]
          /\ pc' = [pc EXCEPT ![p] = IF todo'[p] = {} THEN "save" ELSE "clean"]
    /\ UNCHANGED <<clock, hash, issued, ledger, lock, commandVars, revoked, unsure>>

\* cleanup saves once, at the end.
CleanSave(p) ==
    /\ pc[p] = "save"
    /\ \/ /\ ledger' = Saved(mem[p])
          /\ Leave(p, "done")
          /\ UNCHANGED unsure
       \/ /\ Leave(p, "failed")
          /\ unsure' = unsure \union InHand(p)
          /\ UNCHANGED ledger
    /\ UNCHANGED <<clock, hash, issued, live, commandVars, revoked>>

----------------------------------------------------------------------------
Step(p) ==
    \/ Decrypt(p) \/ CreateLease(p) \/ CreateFail(p)
    \/ RevokeRemote(p) \/ MarkRevoked(p) \/ CleanOne(p) \/ CleanSave(p)

Locked(p) == PreCheck(p) \/ CheckCache(p) \/ Record(p) \/ Lock(p)

Next ==
    \/ Tick
    \/ \E b \in Backend, h \in Hash : EditConfig(b, h)
    \/ \E p \in Process :
         \/ \E o \in Operations : Begin(p, o)
         \/ Return(p) \/ Crash(p) \/ Step(p) \/ Locked(p)

Spec == Init /\ [][Next]_vars

\* A process that runs takes its steps, and the file lock is handed to whoever
\* waits for it.
Fairness == \A p \in Process : WF_vars(Step(p)) /\ SF_vars(Locked(p))

FairSpec == Spec /\ Fairness

----------------------------------------------------------------------------
\* The types of the variables: records and positions are of issued leases.
TypeOK ==
    /\ clock \in Nat
    /\ hash \in [Backend -> Hash]
    /\ issued \in Seq(Lease)
    /\ live \subseteq 1 .. Len(issued)
    /\ ledger \in Seq(LeaseRecord)
    /\ lock \in Process \union {None}
    /\ pc \in [Process -> {"idle", "precheck", "check", "decrypt", "create", "record", "lock",
                           "revoke", "mark", "clean", "save", "done", "failed"}]
    /\ op \in [Process -> Operations \union {None}]
    /\ missing \in [Process -> BOOLEAN]
    /\ loaded \in [Process -> Hash \union {None}]
    /\ mem \in [Process -> Seq(LeaseRecord)]
    /\ todo \in [Process -> SUBSET Nat]
    /\ lease \in [Process -> Nat]
    /\ revoked \subseteq 1 .. Len(issued)
    /\ seen \in [Process -> SUBSET Nat]
    /\ unsure \subseteq 1 .. Len(issued)

(* Safety. *)

\* No write loses what another process wrote: a record leaves the ledger only
\* 24 hours after it expired (or was created, if it never expires), and none
\* that was revoked is ever active again.
RecordsKept ==
    [][\A i \in DOMAIN ledger :
          LET r == ledger[i]
          IN  \/ (IF r.expires = None THEN r.created ELSE r.expires) + Retention <= clock
              \/ \E j \in DOMAIN ledger' : /\ ledger'[j].n = r.n
                                           /\ r.revoked => ledger'[j].revoked]_vars

\* A lease that `fnox lease revoke` reported as revoked keeps no credentials in
\* the ledger, whatever the processes that ran at the same time had loaded.
RevokedForGood ==
    \A i \in DOMAIN ledger :
        ledger[i].n \in revoked => ledger[i].revoked /\ ledger[i].cached = "none"

\* exec and get hand out a lease of the configured backend, made with the
\* configuration they loaded unless it has no config_hash to compare, and never
\* one that was reported as revoked before they began.
ReuseSound ==
    \A p \in Process :
        pc[p] = "done" /\ op[p].kind \in {"exec", "get"} /\ lease[p] # 0 =>
            /\ lease[p] \notin seen[p]
            /\ issued[lease[p]].backend = op[p].backend
            /\ issued[lease[p]].hash \in {loaded[p], None}

\* The backend gave another lease the same ID.
SharesId(n) ==
    \E m \in 1 .. Len(issued) : /\ m # n
                                /\ issued[m].id = issued[n].id
                                /\ issued[m].backend = issued[n].backend

\* A lease that the ledger still offers has not been revoked at its backend,
\* unless a command is just revoking it or was stopped while it did, or its
\* backend cannot tell it from another.
OfferedIsLive ==
    \A i \in DOMAIN ledger :
        is_reusable(ledger[i]) =>
            \/ ledger[i].n \in live \union unsure
            \/ \E p \in Process : ledger[i].n \in InHand(p)
            \/ SharesId(ledger[i].n)

(* Liveness. *)

\* Every command ends, although commands wait for each other's lock.
Finishes ==
    \A p \in Process : pc[p] # "idle" ~> pc[p] \in {"done", "failed"}
=============================================================================
