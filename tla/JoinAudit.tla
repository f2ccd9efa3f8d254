----------------------------- MODULE JoinAudit ------------------------------
(***************************************************************************)
(* Join requests: from the QQ event to the decision, its record in memory, *)
(* its write-through to SQL, reconciliation with the platform, and         *)
(* restarts.                                                               *)
(*                                                                         *)
(* Sources: services/joinAudit.ts (the requests and their statuses),       *)
(* services/joinApproval.ts (call the platform first, record second),      *)
(* commands/reviewCommands.ts and adminApi/backend.ts (the reviewers),     *)
(* services/joinAuditSync.ts (fetch the open list, add and expire),        *)
(* services/eventRouter.ts (the join_request event), db/writeQueue.ts and  *)
(* db/joinRequestRepository.ts (the serial write-through).                 *)
(*                                                                         *)
(* Node runs one callback at a time, so an action is the code between two  *)
(* awaits.  Everything that awaits the platform is therefore two or three  *)
(* actions, and any other action may come between them.                    *)
(***************************************************************************)
EXTENDS JoinRules, Sequences, FiniteSets

CONSTANTS
    Requests,          \* join request ids
    Groups,            \* QQ groups the bot is in
    GroupOf,           \* [Requests -> Groups]
    Configs,           \* what rules, blacklist and roster may say of an applicant
    AnswerOf,          \* [Requests -> what is recognised in the answer]
    Deciders,          \* handlers that may be awaiting approveJoinRequest
    Syncers,           \* syncGroup calls that may be in flight
    PendingTtl,        \* joinRequestTtlDays, in clock ticks; 0 = never
    ReconcileMinAge,   \* DEFAULT_RECONCILE_MIN_AGE_MS, in clock ticks
    RetentionAge,      \* joinRequestRetentionDays, in clock ticks
    ListLag,           \* how late the platform's list may show a request
    ListCap,           \* requests in MAX_JOIN_REQUEST_PAGES pages of the list
    MaxTime,           \* bound: clock ticks explored
    MaxCrashes,        \* bound: crashes explored
    MaxFailures,       \* bound: failed SQL writes explored
    MaxQueue           \* bound: handlers run only while the queue is shorter

ASSUME ConstantsAssumption ==
    /\ GroupOf \in [Requests -> Groups]
    /\ {PendingTtl, ReconcileMinAge, RetentionAge, ListLag, ListCap,
        MaxTime, MaxCrashes, MaxFailures, MaxQueue} \subseteq Nat
    /\ ListLag < ReconcileMinAge
    /\ IsFiniteSet(Requests)

VARIABLES
    now,        \* clock, in ticks (a tick is longer than any HTTP call)
    platform,   \* QQ: [Requests -> [status, since]]
    up,         \* the bot process is running
    requests,   \* JoinAuditService.requests
    queue,      \* WriteQueue.tail: the writes not yet executed
    rows,       \* the join_requests table
    auditLog,   \* AuditLogStore.records, counted by request and action
    auditRows,  \* the audit table, counted the same way
    deciders,   \* approve()/reject()/applyJoinRules() calls in progress
    syncers,    \* syncGroup() calls in progress
    cooling,    \* groups inside the sync throttle window (lastSyncAt)
    crashes, failures

external == <<now, platform>>
memory   == <<requests, queue, auditLog>>
disk     == <<rows, auditRows>>
budgets  == <<crashes, failures>>
vars == <<now, platform, up, requests, queue, rows, auditLog, auditRows,
          deciders, syncers, cooling, crashes, failures>>

Decisions == {"approved", "rejected"}
Terminal  == Decisions \union {"expired"}
Statuses  == {"absent", "pending"} \union Terminal
Answers   == {"ok", "handled", "error"}
Texts     == {"applicant", "reviewer"}   \* whose words the reason column holds

(* A missing map entry or table row.                                       *)
Absent == [status |-> "absent", created |-> 0, reason |-> "applicant"]

WithStatus(row, s) == [status |-> s, created |-> row.created, reason |-> row.reason]
Fresh  == [status |-> "pending", created |-> now, reason |-> "applicant"]
Idle   == [pc |-> "idle"]

Init ==
    /\ now = 0
    /\ platform = [r \in Requests |-> [status |-> "none", since |-> 0]]
    /\ up = TRUE
    /\ requests = [r \in Requests |-> Absent]
    /\ queue = <<>>
    /\ rows = [r \in Requests |-> Absent]
    /\ auditLog = [r \in Requests |-> [s \in Terminal |-> 0]]
    /\ auditRows = [r \in Requests |-> [s \in Terminal |-> 0]]
    /\ deciders = [d \in Deciders |-> Idle]
    /\ syncers = [s \in Syncers |-> Idle]
    /\ cooling = {}
    /\ crashes = 0
    /\ failures = 0

-----------------------------------------------------------------------------
(* The platform and the clock.                                             *)

(* A user asks to join a group.                                            *)
Apply(r) ==
    /\ platform[r].status = "none"
    /\ platform' = [platform EXCEPT ![r] = [status |-> "open", since |-> now]]
    /\ UNCHANGED <<now, up, memory, disk, deciders, syncers, cooling, budgets>>

Decided(req, v) == [status |-> v, since |-> req.since]

(* Someone decides it outside the bot: QQ's own admin page, another bot.   *)
DecideOutside(r, v) ==
    /\ platform[r].status = "open"
    /\ platform' = [platform EXCEPT ![r] = Decided(@, v)]
    /\ UNCHANGED <<now, up, memory, disk, deciders, syncers, cooling, budgets>>

(* A list fetch never lasts a whole tick, so the clock waits for those     *)
(* that already crossed one.                                               *)
Tick ==
    /\ now < MaxTime
    /\ \A s \in Syncers : syncers[s].pc = "listed" => syncers[s].at = now
    /\ now' = now + 1
    /\ UNCHANGED <<platform, up, memory, disk, deciders, syncers, cooling, budgets>>

-----------------------------------------------------------------------------
(* The write-through queue.                                                *)

Upsert(r, row)     == [op |-> "upsert", r |-> r, row |-> row]
Update(r, s, text) == [op |-> "update", r |-> r, status |-> s, reason |-> text]
Prune(cutoff)      == [op |-> "prune", cutoff |-> cutoff]
Audit(r, s)        == [op |-> "audit", r |-> r, status |-> s]

Pruned(row, cutoff) == row.status \in Terminal /\ row.created < cutoff

(* The table after one write.  Upsert does nothing on conflict; update     *)
(* touches an existing row only, and an empty reason keeps the column.     *)
Revised(row, w) ==
    [status  |-> w.status,
     created |-> row.created,
     reason  |-> IF w.reason = "reviewer" THEN "reviewer" ELSE row.reason]

Written(w, table) ==
    [r \in Requests |->
        IF w.op = "upsert" /\ w.r = r /\ table[r].status = "absent" THEN w.row
        ELSE IF w.op = "update" /\ w.r = r /\ table[r].status # "absent"
             THEN Revised(table[r], w)
        ELSE IF w.op = "prune" /\ Pruned(table[r], w.cutoff) THEN Absent
        ELSE table[r]]

Counted(log, r, s) == [log EXCEPT ![r][s] = @ + 1]

(* The head of the queue reaches the database.                             *)
WriteDone ==
    /\ up /\ queue # <<>>
    /\ LET w == Head(queue) IN
         IF w.op = "audit"
         THEN auditRows' = Counted(auditRows, w.r, w.status) /\ UNCHANGED rows
         ELSE rows' = Written(w, rows) /\ UNCHANGED auditRows
    /\ queue' = Tail(queue)
    /\ UNCHANGED <<external, up, requests, auditLog, deciders, syncers, cooling, budgets>>

(* The write throws: it is logged, counted and dropped; memory keeps it.   *)
WriteFails ==
    /\ up /\ queue # <<>>
    /\ failures < MaxFailures
    /\ failures' = failures + 1
    /\ queue' = Tail(queue)
    /\ UNCHANGED <<external, up, requests, disk, auditLog, deciders, syncers, cooling, crashes>>

-----------------------------------------------------------------------------
(* JoinAuditService: memory first, then the queue.                         *)

(* Map order is insertion order; the model takes any order.                *)
Orders(S) == {f \in [1..Cardinality(S) -> S] : \A i, j \in DOMAIN f : f[i] = f[j] => i = j}

Upserts(order) == [i \in DOMAIN order |-> Upsert(order[i], Fresh)]

ExpiryWrites(order) ==
    [i \in 1..(2 * Len(order)) |->
        IF i % 2 = 1 THEN Update(order[(i + 1) \div 2], "expired", "reviewer")
                     ELSE Audit(order[i \div 2], "expired")]

(* submit() for the requests in new, then expirePending() for those in     *)
(* dead: each expires with its update and its audit record queued one      *)
(* after the other.                                                        *)
SubmitAndExpire(new, dead) ==
    /\ requests' = [r \in Requests |->
                       IF r \in new THEN Fresh
                       ELSE IF r \in dead THEN WithStatus(requests[r], "expired")
                       ELSE requests[r]]
    /\ auditLog' = [r \in Requests |->
                       IF r \in dead THEN [auditLog[r] EXCEPT !["expired"] = @ + 1]
                                     ELSE auditLog[r]]
    /\ \E added \in Orders(new), expired \in Orders(dead) :
          queue' = queue \o Upserts(added) \o ExpiryWrites(expired)

Expire(S) == SubmitAndExpire({}, S)

Pending == {r \in Requests : requests[r].status = "pending"}
OutOfTtl == {r \in Pending : PendingTtl > 0 /\ now - requests[r].created >= PendingTtl}

CanRun == up /\ Len(queue) < MaxQueue

(* The join-pending-ttl task, and pending()/listPending() which sweep      *)
(* before they answer.                                                     *)
ExpireStalePending ==
    /\ CanRun
    /\ OutOfTtl # {}
    /\ Expire(OutOfTtl)
    /\ UNCHANGED <<external, up, disk, deciders, syncers, cooling, budgets>>

(* /pending and the page of pending requests sweep first.                  *)
PendingCard == ExpireStalePending

(* Mutant of PruneReviewed: the DELETE runs at once, past the queue.       *)
PruneUnqueued ==
    LET old == {r \in Requests : Pruned(requests[r], now - RetentionAge)} IN
    /\ CanRun
    /\ now >= RetentionAge
    /\ old # {}
    /\ requests' = [r \in Requests |-> IF r \in old THEN Absent ELSE requests[r]]
    /\ rows' = Written(Prune(now - RetentionAge), rows)
    /\ UNCHANGED <<external, up, queue, auditRows, auditLog, deciders, syncers, cooling, budgets>>

(* Retention: drop old terminal requests from memory and queue one DELETE. *)
PruneReviewed ==
    LET old == {r \in Requests : Pruned(requests[r], now - RetentionAge)} IN
    /\ CanRun
    /\ now >= RetentionAge
    /\ old # {}
    /\ requests' = [r \in Requests |-> IF r \in old THEN Absent ELSE requests[r]]
    /\ queue' = Append(queue, Prune(now - RetentionAge))
    /\ UNCHANGED <<external, up, disk, auditLog, deciders, syncers, cooling, budgets>>

-----------------------------------------------------------------------------
(* Decisions: a handler calls the platform, then records the outcome.      *)

Call(d, r, v) == deciders' = [deciders EXCEPT ![d] = [pc |-> "calling", r |-> r, verdict |-> v]]

(* A GROUP_JOIN_REQUEST event, first delivery or redelivery: the request   *)
(* is recorded if unknown, then applyJoinRules() either leaves it to the   *)
(* reviewers or calls the platform with the verdict of the blacklist or    *)
(* the rules - whatever the local status is.                               *)
Submitted(r) == IF requests[r].status = "absent"
                THEN /\ requests' = [requests EXCEPT ![r] = Fresh]
                     /\ queue' = Append(queue, Upsert(r, Fresh))
                ELSE UNCHANGED <<requests, queue>>

AutoVerdicts == [r \in Requests |-> {AutoVerdict(c, AnswerOf[r]) : c \in Configs}]

HandleEvent(d, r) ==
    /\ CanRun
    /\ platform[r].status # "none"
    /\ deciders[d] = Idle
    /\ Submitted(r)
    /\ \/ "manual" \in AutoVerdicts[r] /\ UNCHANGED deciders
       \/ \E v \in Decisions : v \in AutoVerdicts[r] /\ Call(d, r, v)
    /\ UNCHANGED <<external, up, disk, auditLog, syncers, cooling, budgets>>

(* A reviewer approves or rejects: requireRequest() wants it pending.      *)
Review(d, r, v) ==
    /\ CanRun
    /\ deciders[d] = Idle
    /\ requests[r].status = "pending"
    /\ Call(d, r, v)
    /\ UNCHANGED <<external, up, memory, disk, syncers, cooling, budgets>>

(* The entrances: the button on the list of pending requests, /approve and *)
(* /reject (the other buttons only type them in), and the admin API.       *)
ApproveCard(d, r)   == Review(d, r, "approved")
HandleApprove(d, r) == Review(d, r, "approved")
HandleReject(d, r)  == Review(d, r, "rejected")
ApproveJoin(d, r)   == Review(d, r, "approved")
RejectJoin(d, r)    == Review(d, r, "rejected")
ReviewRequest(d, r) == ApproveJoin(d, r) \/ RejectJoin(d, r)

(* The platform handles the call.  It decides an open request once; asked  *)
(* again, or for one it does not hold, it answers "already handled".       *)
Answer(d, a) ==
    deciders' = [deciders EXCEPT ![d] = [pc |-> "answered", r |-> @.r,
                                         verdict |-> @.verdict, answer |-> a]]

PlatformDecides(d) ==
    /\ deciders[d].pc = "calling"
    /\ platform[deciders[d].r].status = "open"
    /\ platform' = [platform EXCEPT ![deciders[d].r] = Decided(@, deciders[d].verdict)]
    /\ \E a \in {"ok", "error"} : Answer(d, a)     \* "error": the answer is lost
    /\ UNCHANGED <<now, up, memory, disk, syncers, cooling, budgets>>

PlatformRefuses(d) ==
    /\ deciders[d].pc = "calling"
    /\ \/ platform[deciders[d].r].status # "open" /\ Answer(d, "handled")
       \/ Answer(d, "error")                       \* limits, network, permission
    /\ UNCHANGED <<external, up, memory, disk, syncers, cooling, budgets>>

(* review(): memory, then the update, then the audit record.               *)
Record(r, v) ==
    /\ requests' = [requests EXCEPT ![r] = WithStatus(@, v)]
    /\ \E text \in IF v = "approved" THEN {"applicant"} ELSE Texts :
          queue' = queue \o <<Update(r, v, text), Audit(r, v)>>
    /\ auditLog' = Counted(auditLog, r, v)

(* Mutants of Outcome: a lost answer counts as a success; review() without *)
(* its "already reviewed" check; "already handled" recorded as a success.  *)
OutcomeOptimistic(r, v, a) ==
    IF requests[r].status # "pending" THEN UNCHANGED memory
    ELSE IF a = "handled" THEN Expire({r}) ELSE Record(r, v)

OutcomeUnchecked(r, v, a) ==
    IF a = "error" THEN UNCHANGED memory
    ELSE IF a = "ok" THEN Record(r, v) ELSE Expire({r})

OutcomeAgain(r, v, a) ==
    IF a = "error" THEN UNCHANGED memory ELSE Record(r, v)

(* The handler resumes.  "ok": review() records the verdict, or throws     *)
(* when the request is no longer pending.  "handled": the request leaves   *)
(* the pending list at once (markHandledExternally).  Any other error      *)
(* leaves it pending.                                                      *)
Outcome(r, v, a) ==
    IF requests[r].status # "pending" \/ a = "error" THEN UNCHANGED memory
    ELSE IF a = "ok" THEN Record(r, v) ELSE Expire({r})

Settle(d) ==
    /\ up
    /\ deciders[d].pc = "answered"
    /\ Outcome(deciders[d].r, deciders[d].verdict, deciders[d].answer)
    /\ deciders' = [deciders EXCEPT ![d] = Idle]
    /\ UNCHANGED <<external, up, disk, syncers, cooling, budgets>>

-----------------------------------------------------------------------------
(* Reconciliation with the platform's list of open requests.               *)

(* syncGroup() is refused inside the throttle window.                      *)
SyncStart(s, g) ==
    /\ CanRun
    /\ syncers[s] = Idle
    /\ g \notin cooling
    /\ cooling' = cooling \union {g}
    /\ syncers' = [syncers EXCEPT ![s] = [pc |-> "listing", g |-> g]]
    /\ UNCHANGED <<external, up, memory, disk, deciders, budgets>>

(* /sync, its button and POST /api/join/sync.                              *)
SyncCard(s, g)         == SyncStart(s, g)
SyncJoinRequests(s, g) == SyncStart(s, g)
JoinSyncRequest(s, g)  == SyncJoinRequests(s, g)

CooldownEnds(g) ==
    /\ g \in cooling
    /\ cooling' = cooling \ {g}
    /\ UNCHANGED <<external, up, memory, disk, deciders, syncers, budgets>>

OpenIn(g) == {r \in Requests : GroupOf[r] = g /\ platform[r].status = "open"}
Settled(g) == {r \in OpenIn(g) : platform[r].since + ListLag <= now}

(* The platform answers getJoinRequests(): open requests, all of those it  *)
(* has held for ListLag, unless the last allowed page is full.             *)
SyncListed(s) ==
    /\ syncers[s].pc = "listing"
    /\ \E list \in SUBSET OpenIn(syncers[s].g) :
         /\ Cardinality(list) <= ListCap
         /\ Settled(syncers[s].g) \subseteq list \/ Cardinality(list) = ListCap
         /\ syncers' = [syncers EXCEPT ![s] = [pc |-> "listed", g |-> @.g,
                                               list |-> list, at |-> now]]
    /\ UNCHANGED <<external, up, memory, disk, deciders, cooling, budgets>>

(* Mutant of SyncFails: a failed fetch stays marked as in progress.        *)
SyncFailsStuck(s) ==
    /\ syncers[s].pc = "listing"
    /\ syncers' = [syncers EXCEPT ![s] = [pc |-> "failed"]]
    /\ UNCHANGED <<external, up, memory, disk, deciders, cooling, budgets>>

SyncFails(s) ==
    /\ syncers[s].pc = "listing"
    /\ syncers' = [syncers EXCEPT ![s] = Idle]
    /\ UNCHANGED <<external, up, memory, disk, deciders, cooling, budgets>>

(* Mutant of MissingFrom: no minimum age.                                  *)
MissingAtOnce(g, list) == {r \in Pending : GroupOf[r] = g /\ r \notin list}

(* Pending requests of the group the list no longer has, if old enough.    *)
MissingFrom(g, list) ==
    {r \in Pending : /\ GroupOf[r] = g
                     /\ r \notin list
                     /\ now - requests[r].created >= ReconcileMinAge}

Unknown(list) == {r \in list : requests[r].status = "absent"}

(* The rest of syncGroup(): submit what is new, expire what the list no    *)
(* longer has and is old enough, then pending(), which sweeps by TTL.      *)
SyncApply(s) ==
    /\ CanRun
    /\ syncers[s].pc = "listed"
    /\ LET list == syncers[s].list
       IN SubmitAndExpire(Unknown(list), MissingFrom(syncers[s].g, list) \union OutOfTtl)
    /\ syncers' = [syncers EXCEPT ![s] = Idle]
    /\ UNCHANGED <<external, up, disk, deciders, cooling, budgets>>

-----------------------------------------------------------------------------
(* The process dies: memory, the queued writes and every call in progress  *)
(* are gone.                                                               *)
Crash ==
    /\ up
    /\ crashes < MaxCrashes
    /\ crashes' = crashes + 1
    /\ up' = FALSE
    /\ requests' = [r \in Requests |-> Absent]
    /\ auditLog' = [r \in Requests |-> [s \in Terminal |-> 0]]
    /\ queue' = <<>>
    /\ deciders' = [d \in Deciders |-> Idle]
    /\ syncers' = [s \in Syncers |-> Idle]
    /\ cooling' = {}
    /\ UNCHANGED <<external, disk, failures>>

(* load() reads the tables before the gateway connects.                    *)
Restart ==
    /\ ~up
    /\ up' = TRUE
    /\ requests' = rows
    /\ auditLog' = auditRows
    /\ UNCHANGED <<external, queue, disk, deciders, syncers, cooling, budgets>>

-----------------------------------------------------------------------------
Platform == \/ \E r \in Requests : Apply(r) \/ \E v \in Decisions : DecideOutside(r, v)
            \/ \E d \in Deciders : PlatformDecides(d) \/ PlatformRefuses(d)

Handlers == \E d \in Deciders, r \in Requests :
                \/ HandleEvent(d, r)
                \/ ApproveCard(d, r) \/ HandleApprove(d, r) \/ HandleReject(d, r)
                \/ ReviewRequest(d, r)

(* The join-reconcile task, and the reviewers.                             *)
Syncing == \E s \in Syncers : \/ \E g \in Groups :
                                    SyncStart(s, g) \/ SyncCard(s, g) \/ JoinSyncRequest(s, g)
                              \/ SyncListed(s) \/ SyncFails(s) \/ SyncApply(s)

Next == \/ Tick
        \/ Platform
        \/ Handlers
        \/ \E d \in Deciders : Settle(d)
        \/ Syncing
        \/ \E g \in Groups : CooldownEnds(g)
        \/ ExpireStalePending
        \/ PendingCard
        \/ PruneReviewed
        \/ WriteDone
        \/ WriteFails
        \/ Crash
        \/ Restart

Spec == Init /\ [][Next]_vars

-----------------------------------------------------------------------------
(* Properties.                                                             *)

Rows == [status : Statuses, created : Nat, reason : Texts]

Writes == [op : {"upsert"}, r : Requests, row : Rows]
            \union [op : {"update"}, r : Requests, status : Terminal, reason : Texts]
            \union [op : {"prune"}, cutoff : Nat]
            \union [op : {"audit"}, r : Requests, status : Terminal]

PlatformStates == [status : {"none", "open"} \union Decisions, since : Nat]

DeciderStates == {Idle}
    \union [pc : {"calling"}, r : Requests, verdict : Decisions]
    \union [pc : {"answered"}, r : Requests, verdict : Decisions, answer : Answers]

SyncerStates == {Idle}
    \union [pc : {"listing"}, g : Groups]
    \union [pc : {"listed"}, g : Groups, list : SUBSET Requests, at : Nat]

(* Every variable holds a value the program can hold.                      *)
TypeOK ==
    /\ now \in Nat
    /\ platform \in [Requests -> PlatformStates]
    /\ up \in BOOLEAN
    /\ requests \in [Requests -> Rows]
    /\ queue \in Seq(Writes)
    /\ rows \in [Requests -> Rows]
    /\ auditLog \in [Requests -> [Terminal -> Nat]]
    /\ auditRows \in [Requests -> [Terminal -> Nat]]
    /\ deciders \in [Deciders -> DeciderStates]
    /\ syncers \in [Syncers -> SyncerStates]
    /\ cooling \subseteq Groups
    /\ crashes \in Nat
    /\ failures \in Nat

(* Nowhere - memory, queued write, table, audit - is a request approved or *)
(* rejected unless the platform decided it that way: the order "platform   *)
(* first, record second" of JoinApprovalService survives interleaving,     *)
(* lost answers, failed writes, crashes and stale lists.                   *)
Matches(r, s) == s \in Decisions => platform[r].status = s

WriteIsReal(w) == /\ w.op = "upsert" => w.row.status = "pending"
                  /\ w.op \in {"update", "audit"} => Matches(w.r, w.status)

DecisionsAreReal ==
    /\ \A r \in Requests : Matches(r, requests[r].status)
    /\ \A r \in Requests : Matches(r, rows[r].status)
    /\ \A i \in DOMAIN queue : WriteIsReal(queue[i])
    /\ \A r \in Requests, s \in Decisions :
          auditLog[r][s] > 0 \/ auditRows[r][s] > 0 => platform[r].status = s
    /\ \A d \in Deciders : deciders[d].pc = "answered" =>
          (deciders[d].answer = "ok" => Matches(deciders[d].r, deciders[d].verdict))

(* Memory is what the table becomes once the queue has drained, as long as *)
(* no write failed: the write-through never loses, reorders or invents an  *)
(* update, prunes and re-submissions included.  (The reason column is      *)
(* excepted: a decision overwrites it with the reviewer's words, which     *)
(* memory does not.)                                                       *)
Drained ==
    LET table[n \in 0..Len(queue)] ==
          IF n = 0 THEN rows
          ELSE IF queue[n].op = "audit" THEN table[n - 1] ELSE Written(queue[n], table[n - 1])
    IN table[Len(queue)]

WriteThrough ==
    up /\ failures = 0 =>
        \A r \in Requests : /\ Drained[r].status = requests[r].status
                            /\ Drained[r].created = requests[r].created

(* The bot decides a request at most once: however many handlers race,     *)
(* whatever is redelivered, retried after a lost answer or reloaded after  *)
(* a crash, neither the audit log nor the audit table ever holds two       *)
(* decisions of one request.                                               *)
DecidedOnce ==
    \A r \in Requests :
        /\ auditLog[r]["approved"] + auditLog[r]["rejected"] <= 1
        /\ auditRows[r]["approved"] + auditRows[r]["rejected"] <= 1

(* A request the platform still holds open leaves the pending list as      *)
(* "expired" only when its TTL is over: neither reconciliation against a   *)
(* lagging list nor an "already handled" answer drops a live request.      *)
(* Only a group with more open requests than the pages fetched (ListCap)   *)
(* can lose one.                                                           *)
LiveRequestsStay ==
    [][\A r \in Requests :
          /\ Cardinality({q \in Requests : GroupOf[q] = GroupOf[r]}) <= ListCap
          /\ requests[r].status = "pending"
          /\ requests'[r].status = "expired"
          /\ platform[r].status = "open"
          => PendingTtl > 0 /\ now - requests[r].created >= PendingTtl]_vars

-----------------------------------------------------------------------------
(* Fairness: the event loop runs what is ready, HTTP calls end, the queue  *)
(* drains, the supervisor restarts a dead process, and the tick scheduler  *)
(* keeps running join-reconcile and join-pending-ttl.  SF where MaxQueue,  *)
(* a bound of the model, switches an action off and on.                    *)
Fairness ==
    /\ WF_vars(Tick) /\ WF_vars(WriteDone) /\ WF_vars(Restart)
    /\ \A d \in Deciders : /\ WF_vars(PlatformDecides(d) \/ PlatformRefuses(d))
                           /\ WF_vars(Settle(d))
    /\ \A g \in Groups : WF_vars(CooldownEnds(g))
    /\ \A s \in Syncers : /\ \A g \in Groups : SF_vars(SyncStart(s, g))
                          /\ SF_vars(SyncListed(s))
                          /\ SF_vars(SyncApply(s))
    /\ SF_vars(ExpireStalePending)

FairSpec == Spec /\ Fairness

(* A request decided elsewhere does not stay on the pending list: the list *)
(* of open requests eventually shows it gone (within the explored time).   *)
OutsideDecisionsConverge ==
    \A r \in Requests :
        /\ requests[r].status = "pending"
        /\ platform[r].status \in Decisions
        /\ requests[r].created + ReconcileMinAge <= MaxTime
        ~> requests[r].status # "pending"

(* A request whose event was lost, or whose submission was lost in a       *)
(* crash, is picked up by reconciliation unless it is decided first.       *)
LostEventsRecovered ==
    \A r \in Requests :
        platform[r].status = "open" /\ platform[r].since + ListLag <= MaxTime
        ~> requests[r].status # "absent" \/ platform[r].status # "open"

(* The pending list catches up with the platform, whoever decided and      *)
(* whatever was lost.                                                      *)
ListCatchesUp == OutsideDecisionsConverge /\ LostEventsRecovered

-----------------------------------------------------------------------------
(* JoinAudit implements JoinDecision.                                      *)
Abstract == INSTANCE JoinDecision WITH
    platform <- [r \in Requests |-> platform[r].status],
    view     <- [r \in Requests |-> requests[r].status],
    running  <- up

(* Every step of the code is a step the abstract specification allows.     *)
ImplementsJoinDecision == Abstract!Spec
=============================================================================
