------------------------------ MODULE Sending -------------------------------
(***************************************************************************)
(* Outgoing messages: the forms a rich message is tried in, the throttle   *)
(* that sends one message at a time, its retries, and the quota of passive *)
(* replies.                                                                *)
(*                                                                         *)
(* Sources: services/richMessages.ts (RichMessageSender.run),              *)
(* adapters/qqOfficialClient.ts (sendGroupMessage, sendPrivateMessage,     *)
(* request), adapters/sendThrottle.ts, core/retry.ts,                      *)
(* adapters/qqOfficialError.ts and adapters/passiveReplyQuota.ts.          *)
(*                                                                         *)
(* A message is one call of sendToUser, sendToGroup, replyToUser or        *)
(* replyToGroup.  Handlers run concurrently, so calls overlap; the         *)
(* throttle's promise chain is the sequence `chain`.  Clocks are relative: *)
(* a timer holds the ticks since an event (up to the value that matters)   *)
(* or the ticks left to sleep.                                             *)
(***************************************************************************)
EXTENDS Naturals, Sequences, FiniteSets

CONSTANTS
    Messages,
    Targets,           \* "user" and "group": keyboards are tried for each
    TargetOf,          \* [Messages -> Targets]
    Events,            \* msg_ids a reply may answer
    NoEvent,
    AnswersTo,         \* [Messages -> Events \union {NoEvent}]
    WithKeyboard,      \* messages with buttons
    ActiveFallback,    \* replies that may go out as active messages
    CanRefreshToken,   \* no QQ_BOT_TOKEN is configured
    MaxAttempts,       \* SendThrottle.maxAttempts
    MinInterval,       \* minIntervalMs, in ticks
    Backoff,           \* initialRetryDelayMs, in ticks
    MaxDelay,          \* maxRetryDelayMs, in ticks
    RateLimitDelay,    \* rateLimitDelayMs, in ticks
    MaxReplies,        \* maxRepliesPerMessage
    Window             \* PassiveReplyQuota.windowMs, in ticks

ASSUME SendingConstants ==
    /\ TargetOf \in [Messages -> Targets]
    /\ AnswersTo \in [Messages -> Events \union {NoEvent}] /\ NoEvent \notin Events
    /\ WithKeyboard \subseteq Messages /\ ActiveFallback \subseteq Messages
    /\ CanRefreshToken \in BOOLEAN
    /\ MaxAttempts \in Nat \ {0} /\ MaxReplies \in Nat \ {0}
    /\ {MinInterval, Backoff, MaxDelay, RateLimitDelay} \subseteq Nat
    /\ Window \in Nat \ {0}

VARIABLES
    stage,            \* where each message is
    plan,             \* RichMessageSender.run: the attempts still to be made
    chain,            \* SendThrottle.chain: the head is being executed
    tries,            \* retryWithBackoff: attempts made of the head's request
    sleep,            \* ticks left of the head's backoff
    sinceStart,       \* ticks since lastStartedAt
    keyboardDisabled, \* [Targets -> BOOLEAN]
    quota,            \* PassiveReplyQuota.entries; count 0 is no entry
    delivered         \* QQ: copies of each message that went out

throttle == <<chain, tries, sleep, sinceStart>>
sendingVars == <<stage, plan, chain, tries, sleep, sinceStart, keyboardDisabled,
                 quota, delivered>>

Modes    == {"keyboard", "markdown", "text"}
Attempts == [mode : Modes, passive : BOOLEAN]
Sent     == {"ok", "failed", "unknown"}

Smaller(a, b) == IF a < b THEN a ELSE b

SendingInit ==
    /\ stage = [m \in Messages |-> "idle"]
    /\ plan = [m \in Messages |-> <<>>]
    /\ chain = <<>> /\ tries = 0 /\ sleep = 0 /\ sinceStart = MinInterval
    /\ keyboardDisabled = [t \in Targets |-> FALSE]
    /\ quota = [e \in Events |-> [count |-> 0, age |-> 0]]
    /\ delivered = [m \in Messages |-> 0]

-----------------------------------------------------------------------------
(* The passive-reply quota.                                                *)

Expired(e) == quota[e].count > 0 /\ quota[e].age >= Window

(* check(): an expired entry denies like a full one.                       *)
Allowed(e) == ~Expired(e) /\ quota[e].count < MaxReplies

(* record(): an expired entry starts afresh.                               *)
Recorded(e) ==
    [quota EXCEPT ![e] =
        IF @.count = 0 \/ Expired(e) THEN [count |-> 1, age |-> 0]
                                     ELSE [count |-> @.count + 1, age |-> @.age]]

-----------------------------------------------------------------------------
(* The forms of a message.                                                 *)

(* Buttons first, while the target is thought to support them.             *)
Forms(m) ==
    (IF m \in WithKeyboard /\ ~keyboardDisabled[TargetOf[m]]
     THEN <<"keyboard">> ELSE <<>>) \o <<"markdown", "text">>

In(forms, passive) ==
    [i \in 1 .. Len(forms) |-> [mode |-> forms[i], passive |-> passive]]

(* Every form as a reply, then every form as an active message.            *)
Plan(m) ==
    (IF AnswersTo[m] # NoEvent THEN In(Forms(m), TRUE) ELSE <<>>) \o
    (IF AnswersTo[m] = NoEvent \/ m \in ActiveFallback
     THEN In(Forms(m), FALSE) ELSE <<>>)

(* assertPassiveReplyAllowed throws at once for every passive attempt of   *)
(* an event whose quota is used up; the passive ones come first.           *)
Usable(m, attempts) ==
    IF AnswersTo[m] = NoEvent \/ Allowed(AnswersTo[m]) THEN attempts
    ELSE LET replies == {i \in 1 .. Len(attempts) : attempts[i].passive}
         IN  SubSeq(attempts, Cardinality(replies) + 1, Len(attempts))

(* The next attempt of m queues up behind `others`, or none is left.       *)
Enter(m, attempts, others) ==
    /\ plan' = [plan EXCEPT ![m] = Usable(m, attempts)]
    /\ IF Usable(m, attempts) = <<>>
       THEN stage' = [stage EXCEPT ![m] = "failed"] /\ chain' = others
       ELSE stage' = [stage EXCEPT ![m] = "queued"] /\ chain' = Append(others, m)

(* A handler sends m.                                                      *)
Call(m) ==
    /\ stage[m] = "idle"
    /\ Enter(m, Plan(m), chain)
    /\ UNCHANGED <<tries, sleep, sinceStart, keyboardDisabled, quota, delivered>>

-----------------------------------------------------------------------------
(* The throttle.                                                           *)

Current == Head(chain)
Busy(s) == chain # <<>> /\ stage[Current] \in s
To(s)   == stage' = [stage EXCEPT ![Current] = s]

(* execute(): the first request, a minimal interval after the last start.  *)
Start ==
    /\ Busy({"queued"})
    /\ sinceStart >= MinInterval
    /\ sinceStart' = 0 /\ tries' = 1
    /\ To("posting")
    /\ UNCHANGED <<plan, chain, sleep, keyboardDisabled, quota, delivered>>

(* The backoff is over; retries do not move lastStartedAt.                 *)
Retry ==
    /\ Busy({"sleeping"}) /\ sleep = 0
    /\ tries' = tries + 1
    /\ To("posting")
    /\ UNCHANGED <<plan, chain, sleep, sinceStart, keyboardDisabled, quota,
                   delivered>>

(* QQ accepts it: a reply is recorded.                                     *)
Accepted ==
    /\ Busy({"posting", "reposting"})
    /\ delivered' = [delivered EXCEPT ![Current] = @ + 1]
    /\ quota' = IF Head(plan[Current]).passive THEN Recorded(AnswersTo[Current]) ELSE quota
    /\ To("ok") /\ chain' = Tail(chain)
    /\ UNCHANGED <<plan, tries, sleep, sinceStart, keyboardDisabled>>

(* A 401 on the first request of an attempt: new token, same request.      *)
Unauthorized ==
    /\ CanRefreshToken
    /\ Busy({"posting"})
    /\ To("reposting")
    /\ UNCHANGED <<plan, throttle, keyboardDisabled, quota, delivered>>

(* Mutant of NoAnswer: the next form is tried.                             *)
NoAnswerNextForm ==
    /\ Busy({"posting", "reposting"})
    /\ delivered' \in {delivered, [delivered EXCEPT ![Current] = @ + 1]}
    /\ Enter(Current, Tail(plan[Current]), Tail(chain))
    /\ UNCHANGED <<tries, sleep, sinceStart, keyboardDisabled, quota>>

(* Mutant of NoAnswer: the request is retried.                             *)
NoAnswerRetried ==
    /\ Busy({"posting", "reposting"})
    /\ delivered' \in {delivered, [delivered EXCEPT ![Current] = @ + 1]}
    /\ \/ /\ tries < MaxAttempts /\ sleep' = Backoff
          /\ To("sleeping") /\ UNCHANGED chain
       \/ /\ tries = MaxAttempts
          /\ To("unknown") /\ chain' = Tail(chain) /\ UNCHANGED sleep
    /\ UNCHANGED <<plan, tries, sinceStart, keyboardDisabled, quota>>

(* No answer in time (isUnknownOutcomeError), wherever the message is: no  *)
(* retry, no other form.                                                   *)
NoAnswer ==
    /\ Busy({"posting", "reposting"})
    /\ delivered' \in {delivered, [delivered EXCEPT ![Current] = @ + 1]}
    /\ To("unknown") /\ chain' = Tail(chain)
    /\ UNCHANGED <<plan, tries, sleep, sinceStart, keyboardDisabled, quota>>

(* Failures that are certain: QQ said no, or was not reached.              *)
Failures == {"unauthorized", "rateLimited", "noKeyboard", "denied", "serverError",
             "unreachable"}

(* classifyKeyboardFailure: what is not a sandbox, permission or content   *)
(* refusal is taken for a missing keyboard feature.                        *)
LooksUnsupported(f) == f # "denied"

(* handleKeyboardFailure, for active attempts with a keyboard.             *)
NoteKeyboard(f) ==
    LET a == Head(plan[Current])
    IN  keyboardDisabled' =
          IF a.mode = "keyboard" /\ ~a.passive /\ LooksUnsupported(f)
          THEN [keyboardDisabled EXCEPT ![TargetOf[Current]] = TRUE]
          ELSE keyboardDisabled

(* resolveDelay, without its jitter.                                       *)
Delay(f) ==
    IF f = "rateLimited" THEN RateLimitDelay ELSE Smaller(MaxDelay, Backoff * 2 ^ (tries - 1))

(* Mutant of GivesUp: a failed run does not release the chain.             *)
GivesUpStuck(f) ==
    /\ NoteKeyboard(f)
    /\ To("failed")
    /\ UNCHANGED <<plan, chain, sleep>>

(* The attempt is over: the next one queues up again.                      *)
GivesUp(f) ==
    /\ NoteKeyboard(f)
    /\ Enter(Current, Tail(plan[Current]), Tail(chain))
    /\ UNCHANGED sleep

(* A failure: retried after a delay, or the attempt is over.               *)
Refused(f) ==
    /\ Busy({"posting", "reposting"})
    /\ f = "unauthorized" => ~CanRefreshToken \/ stage[Current] = "reposting"
    /\ f = "noKeyboard" => Head(plan[Current]).mode = "keyboard"
    /\ \/ /\ tries < MaxAttempts
          /\ To("sleeping") /\ sleep' = Delay(f)
          /\ UNCHANGED <<plan, chain, keyboardDisabled>>
       \/ /\ tries = MaxAttempts
          /\ GivesUp(f)
    /\ UNCHANGED <<tries, sinceStart, quota, delivered>>

SendingTick ==
    /\ sinceStart' = Smaller(sinceStart + 1, MinInterval)
    /\ sleep' = IF sleep = 0 THEN 0 ELSE sleep - 1
    /\ quota' = [e \in Events |->
                   [count |-> quota[e].count, age |-> Smaller(quota[e].age + 1, Window)]]
    /\ UNCHANGED <<stage, plan, chain, tries, keyboardDisabled, delivered>>

Answer ==
    \/ Accepted \/ Unauthorized \/ NoAnswer
    \/ \E f \in Failures : Refused(f)

SendingNext ==
    \/ \E m \in Messages : Call(m)
    \/ Start \/ Retry \/ Answer \/ SendingTick

SendingSpec == SendingInit /\ [][SendingNext]_sendingVars

(* Time passes, promises and timers are run, and fetch times out.          *)
FairSpec ==
    /\ SendingSpec
    /\ WF_sendingVars(Start) /\ WF_sendingVars(Retry)
    /\ WF_sendingVars(Answer) /\ WF_sendingVars(SendingTick)

-----------------------------------------------------------------------------
(* Properties.                                                             *)

Stages == {"idle", "queued", "posting", "reposting", "sleeping"} \union Sent

(* Every variable has its type.                                            *)
SendingTypeOK ==
    /\ stage \in [Messages -> Stages]
    /\ plan \in [Messages -> Seq(Attempts)]
    /\ chain \in Seq(Messages)
    /\ tries \in 0 .. MaxAttempts /\ sleep \in Nat /\ sinceStart \in 0 .. MinInterval
    /\ keyboardDisabled \in [Targets -> BOOLEAN]
    /\ quota \in [Events -> [count : Nat, age : 0 .. Window]]
    /\ delivered \in [Messages -> Nat]

(* Nobody sees a message twice, through retries, the 401 repeat and the    *)
(* fall-backs from form to form and from reply to active message.          *)
AtMostOneCopy == \A m \in Messages : delivered[m] <= 1

(* What the caller is told is true: "sent" went out once, "failed" never   *)
(* did.  Callers mark broadcasts and notifications as sent on this answer. *)
HonestResult ==
    \A m \in Messages :
        /\ stage[m] = "ok" => delivered[m] = 1
        /\ stage[m] = "failed" => delivered[m] = 0

(* Every call ends, whatever the calls before it in the chain met.         *)
Settles == \A m \in Messages : stage[m] = "queued" ~> stage[m] \in Sent
=============================================================================
