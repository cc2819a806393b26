---------------------------- MODULE MercenaryChat ----------------------------
(***************************************************************************)
(* The dialogue of the mercenaries (game/Mercenary/MercenaryChat.cpp).     *)
(* What a player says to a mercenary is a request, that the world thread   *)
(* puts in a bounded queue with the key of the employer; one worker sends  *)
(* it to an HTTP service, at most MaxAttempts times, and puts the answer   *)
(* in a second queue; the world thread reads that queue at each tick,      *)
(* speaks the answers and keeps a short memory for each mercenary.  A call *)
(* may last longer than the contract it was made under.                    *)
(*                                                                         *)
(* The world thread is cut where the worker can come in between: Talk at   *)
(* its two critical sections and its notification, Update at each answer,  *)
(* Stop at its store, its notification and its join.  The worker's wait on *)
(* the condition variable is cut between the test of the predicate and the *)
(* sleep, during which it holds m_pendingLock.                             *)
(*                                                                         *)
(* Abstracted: the wording; a reply is a success or a failure; the         *)
(* anti-spam delay is part of the choice of when players speak; the        *)
(* service is switched on (m_enabled), and the configuration not reloaded. *)
(* Contracts are those of MercenaryContracts, reduced to who employs whom. *)
(***************************************************************************)
EXTENDS Integers, SequencesExt

CONSTANTS
    Owners, Bots,
    None,           \* no employer
    MaxPending,     \* m_maxPending
    HistoryDepth,   \* m_historyDepth
    MaxAttempts,    \* maxAttempts of Perform
    MaxTalks,       \* bound: how often players speak
    MaxKeys,        \* bound: how many keys players give
    MaxHires        \* bound: how many contracts are made

ASSUME ChatAssumption ==
    /\ None \notin Owners
    /\ Owners \cap Bots = {}
    /\ {MaxPending, HistoryDepth, MaxAttempts, MaxTalks, MaxKeys, MaxHires} \subseteq Nat \ {0}

VARIABLES
    running,   \* m_running
    creds,     \* m_credentials: the key of each owner, 0 for none
    keys,      \* how many keys were given so far: key k is the k-th
    employer,  \* of each bot
    hires,     \* how many contracts were made so far
    deal,      \* of each bot: the number of its last contract
    present,   \* the players and bots that are connected and in the world
    history,   \* m_history: the lines, each with its speaker and its contract
    pending,   \* m_pending
    replies,   \* m_replies
    ready,     \* the local list of Update
    wpc,       \* where the world thread is
    draft,     \* the request that Talk is about to push
    kpc,       \* where the worker is
    request,   \* the request that the worker has taken
    attempt,   \* the attempts made for it
    answered,  \* whether the last attempt succeeded
    talks,     \* how many requests were made so far: request t is the t-th
    heard      \* the requests whose answers Update has handled, in order
               \* (a history variable)

contractVars == <<employer, hires, deal, present>>
keyVars == <<creds, keys>>
workerVars == <<kpc, request, attempt, answered>>
talkVars == <<talks, draft>>
vars == <<running, keyVars, contractVars, history, pending, replies, ready,
          wpc, talkVars, workerVars, heard>>

Request == [talk : 0 .. MaxTalks, owner : Owners \cup {None}, bot : Bots \cup {None},
            deal : 0 .. MaxHires, key : 0 .. MaxKeys]
NoRequest == [talk |-> 0, owner |-> None, bot |-> None, deal |-> 0, key |-> 0]
Line == [role : {"user", "assistant"}, deal : 1 .. MaxHires]

Init ==
    /\ running = TRUE
    /\ creds = [o \in Owners |-> 0]
    /\ keys = 0
    /\ employer = [b \in Bots |-> None]
    /\ hires = 0
    /\ deal = [b \in Bots |-> 0]
    /\ present = Owners
    /\ history = [b \in Bots |-> <<>>]
    /\ pending = <<>>
    /\ replies = <<>>
    /\ ready = <<>>
    /\ wpc = "idle"
    /\ draft = NoRequest
    /\ kpc = "loop"
    /\ request = NoRequest
    /\ attempt = 0
    /\ answered = FALSE
    /\ talks = 0
    /\ heard = <<>>

-----------------------------------------------------------------------------
(* The contracts: what MercenaryMgr tells the dialogue.                    *)

Employed(o) == \E b \in Bots : employer[b] = o

Hire(o, b) ==
    /\ wpc = "idle"
    /\ hires < MaxHires
    /\ employer[b] = None
    /\ o \in present
    /\ employer' = [employer EXCEPT ![b] = o]
    /\ hires' = hires + 1
    /\ deal' = [deal EXCEPT ![b] = hires + 1]
    /\ UNCHANGED <<running, keyVars, present, history, pending, replies, ready,
                   wpc, talkVars, workerVars, heard>>

(* A hired bot arrives, a player or a bot changes map.                     *)
Appear(x) ==
    /\ wpc = "idle"
    /\ x \notin present
    /\ x \in Bots => employer[x] # None
    /\ present' = present \cup {x}
    /\ UNCHANGED <<running, keyVars, employer, hires, deal, history, pending,
                   replies, ready, wpc, talkVars, workerVars, heard>>

Vanish(x) ==
    /\ wpc = "idle"
    /\ x \in present
    /\ present' = present \ {x}
    /\ UNCHANGED <<running, keyVars, employer, hires, deal, history, pending,
                   replies, ready, wpc, talkVars, workerVars, heard>>

(* A mutant: ReleaseBot without ForgetBot.                                 *)
ReleaseBotsKeepMemory(bs, gone) ==
    /\ employer' = [b \in Bots |-> IF b \in bs THEN None ELSE employer[b]]
    /\ creds' = [o \in Owners |->
                    IF /\ \E b \in bs : employer[b] = o
                       /\ \A b \in Bots \ bs : employer[b] # o
                    THEN 0 ELSE creds[o]]
    /\ present' = present \ (bs \cup gone)
    /\ UNCHANGED <<running, keys, hires, deal, history, pending, replies, ready,
                   wpc, talkVars, workerVars, heard>>

(* ReleaseBot for each bot in bs, the contracts of which are already off   *)
(* the list: ForgetBot, ClearCredential if nobody is left to command, and  *)
(* the logout of the bot.                                                  *)
ReleaseBots(bs, gone) ==
    /\ employer' = [b \in Bots |-> IF b \in bs THEN None ELSE employer[b]]
    /\ history' = [b \in Bots |-> IF b \in bs THEN <<>> ELSE history[b]]
    /\ creds' = [o \in Owners |->
                    IF /\ \E b \in bs : employer[b] = o
                       /\ \A b \in Bots \ bs : employer[b] # o
                    THEN 0 ELSE creds[o]]
    /\ present' = present \ (bs \cup gone)
    /\ UNCHANGED <<running, keys, hires, deal, pending, replies, ready,
                   wpc, talkVars, workerVars, heard>>

Dismiss(b) ==
    /\ wpc = "idle"
    /\ employer[b] # None
    /\ ReleaseBots({b}, {})

OwnerLogout(o) ==
    /\ wpc = "idle"
    /\ o \in present
    /\ ReleaseBots({b \in Bots : employer[b] = o}, {o})

-----------------------------------------------------------------------------
(* "!api <key>" and "!api off".                                            *)

GiveKey(o) ==
    /\ wpc = "idle"
    /\ o \in present
    /\ keys < MaxKeys
    /\ keys' = keys + 1
    /\ creds' = [creds EXCEPT ![o] = keys + 1]
    /\ UNCHANGED <<running, contractVars, history, pending, replies, ready,
                   wpc, talkVars, workerVars, heard>>

ClearCredential(o) ==
    /\ wpc = "idle"
    /\ o \in present
    /\ creds[o] # 0
    /\ creds' = [creds EXCEPT ![o] = 0]
    /\ UNCHANGED <<running, keys, contractVars, history, pending, replies, ready,
                   wpc, talkVars, workerVars, heard>>

-----------------------------------------------------------------------------
(* Talk.                                                                   *)

(* The worker is inside its wait, between the predicate and the sleep.     *)
PendingLocked == kpc = "drowsy"

(* Every refusal (no key, queue full) leaves all as it was.                *)
Talk(o, b) ==
    /\ wpc = "idle"
    /\ running
    /\ talks < MaxTalks
    /\ employer[b] = o
    /\ {o, b} \subseteq present
    /\ creds[o] # 0
    /\ ~PendingLocked
    /\ Len(pending) < MaxPending
    /\ talks' = talks + 1
    /\ draft' = [talk |-> talks + 1, owner |-> o, bot |-> b, deal |-> deal[b],
                 key |-> creds[o]]
    /\ wpc' = "push"
    /\ UNCHANGED <<running, keyVars, contractVars, history, pending, replies,
                   ready, workerVars, heard>>

(* A mutant: the request is pushed without the lock.                       *)
PushUnlocked ==
    /\ wpc = "push"
    /\ pending' = Append(pending, draft)
    /\ wpc' = "notify"
    /\ UNCHANGED <<running, keyVars, contractVars, history, replies, ready,
                   talkVars, workerVars, heard>>

Push ==
    /\ wpc = "push"
    /\ ~PendingLocked
    /\ pending' = Append(pending, draft)
    /\ wpc' = "notify"
    /\ UNCHANGED <<running, keyVars, contractVars, history, replies, ready,
                   talkVars, workerVars, heard>>

(* The last lines that the memory of a mercenary keeps.                    *)
Trim(lines) ==
    IF Len(lines) <= HistoryDepth THEN lines
    ELSE SubSeq(lines, Len(lines) - HistoryDepth + 1, Len(lines))

Remember(b, role, d) ==
    history' = [history EXCEPT ![b] = Trim(Append(@, [role |-> role, deal |-> d]))]

Awaken == kpc' = IF kpc = "asleep" THEN "test" ELSE kpc

Notify ==
    /\ wpc = "notify"
    /\ Awaken
    /\ Remember(draft.bot, "user", draft.deal)
    /\ draft' = NoRequest
    /\ wpc' = "idle"
    /\ UNCHANGED <<running, keyVars, contractVars, pending, replies, ready,
                   talks, request, attempt, answered, heard>>

-----------------------------------------------------------------------------
(* WorkerLoop.                                                             *)

CheckRunning ==
    /\ kpc = "loop"
    /\ kpc' = IF running THEN "test" ELSE "gone"
    /\ UNCHANGED <<running, keyVars, contractVars, history, pending, replies,
                   ready, wpc, talkVars, request, attempt, answered, heard>>

(* A mutant: the worker takes the newest request.                          *)
TestPredicateNewest ==
    /\ kpc = "test"
    /\ \/ /\ ~running
          /\ kpc' = "gone"
          /\ UNCHANGED <<pending, request, attempt>>
       \/ /\ running
          /\ pending = <<>>
          /\ kpc' = "drowsy"
          /\ UNCHANGED <<pending, request, attempt>>
       \/ /\ running
          /\ pending # <<>>
          /\ request' = Last(pending)
          /\ pending' = Front(pending)
          /\ attempt' = 0
          /\ kpc' = "call"
    /\ UNCHANGED <<running, keyVars, contractVars, history, replies, ready, wpc,
                   talkVars, answered, heard>>

TestPredicate ==
    /\ kpc = "test"
    /\ \/ /\ ~running
          /\ kpc' = "gone"
          /\ UNCHANGED <<pending, request, attempt>>
       \/ /\ running
          /\ pending = <<>>
          /\ kpc' = "drowsy"
          /\ UNCHANGED <<pending, request, attempt>>
       \/ /\ running
          /\ pending # <<>>
          /\ request' = Head(pending)
          /\ pending' = Tail(pending)
          /\ attempt' = 0
          /\ kpc' = "call"
    /\ UNCHANGED <<running, keyVars, contractVars, history, replies, ready, wpc,
                   talkVars, answered, heard>>

Sleep ==
    /\ kpc = "drowsy"
    /\ kpc' = "asleep"
    /\ UNCHANGED <<running, keyVars, contractVars, history, pending, replies,
                   ready, wpc, talkVars, request, attempt, answered, heard>>

SpuriousWakeUp ==
    /\ kpc = "asleep"
    /\ kpc' = "test"
    /\ UNCHANGED <<running, keyVars, contractVars, history, pending, replies,
                   ready, wpc, talkVars, request, attempt, answered, heard>>

(* One attempt of Perform: it succeeds, is refused for good, or fails in a *)
(* way that may pass and is tried again, as long as attempts are left.     *)
PerformOnce ==
    /\ kpc = "call"
    /\ attempt' = attempt + 1
    /\ \E outcome \in {"ok", "refused", "transient"} :
        /\ answered' = (outcome = "ok")
        /\ kpc' = IF outcome = "transient" /\ attempt + 1 < MaxAttempts
                  THEN "call" ELSE "reply"
    /\ UNCHANGED <<running, keyVars, contractVars, history, pending, replies,
                   ready, wpc, talkVars, request, heard>>

(* A mutant: the request is not wiped.                                     *)
PostReplyUnwiped ==
    /\ kpc = "reply"
    /\ replies' = Append(replies, [talk |-> request.talk, owner |-> request.owner,
                                   bot |-> request.bot, deal |-> request.deal,
                                   failed |-> ~answered])
    /\ attempt' = 0
    /\ answered' = FALSE
    /\ kpc' = "loop"
    /\ UNCHANGED <<running, keyVars, contractVars, history, pending, ready, wpc,
                   talkVars, request, heard>>

(* The request is wiped before its answer is handed over.                  *)
PostReply ==
    /\ kpc = "reply"
    /\ replies' = Append(replies, [talk |-> request.talk, owner |-> request.owner,
                                   bot |-> request.bot, deal |-> request.deal,
                                   failed |-> ~answered])
    /\ request' = NoRequest
    /\ attempt' = 0
    /\ answered' = FALSE
    /\ kpc' = "loop"
    /\ UNCHANGED <<running, keyVars, contractVars, history, pending, ready, wpc,
                   talkVars, heard>>

-----------------------------------------------------------------------------
(* Update.                                                                 *)

SwapReplies ==
    /\ wpc = "idle"
    /\ replies # <<>>
    /\ ready' = replies
    /\ replies' = <<>>
    /\ wpc' = "update"
    /\ UNCHANGED <<running, keyVars, contractVars, history, pending, talkVars,
                   workerVars, heard>>

(* A reply is dropped when its employer or its speaker is not in the world *)
(* any more; a failure is only reported to the employer.                   *)
Speak ==
    /\ wpc = "update"
    /\ LET reply == Head(ready) IN
        /\ heard' = Append(heard, reply.talk)
        /\ IF {reply.owner, reply.bot} \subseteq present /\ ~reply.failed
           THEN Remember(reply.bot, "assistant", reply.deal)
           ELSE UNCHANGED history
    /\ ready' = Tail(ready)
    /\ wpc' = IF Len(ready) = 1 THEN "idle" ELSE "update"
    /\ UNCHANGED <<running, keyVars, contractVars, pending, replies, talkVars,
                   workerVars>>

-----------------------------------------------------------------------------
(* Stop, called once by the world thread when it leaves its loop.          *)

StopRunning ==
    /\ wpc = "idle"
    /\ running
    /\ running' = FALSE
    /\ wpc' = "stopping"
    /\ UNCHANGED <<keyVars, contractVars, history, pending, replies, ready,
                   talkVars, workerVars, heard>>

NotifyAll ==
    /\ wpc = "stopping"
    /\ Awaken
    /\ wpc' = "join"
    /\ UNCHANGED <<running, keyVars, contractVars, history, pending, replies,
                   ready, talkVars, request, attempt, answered, heard>>

Join ==
    /\ wpc = "join"
    /\ kpc = "gone"
    /\ creds' = [o \in Owners |-> 0]
    /\ wpc' = "stopped"
    /\ UNCHANGED <<running, keys, contractVars, history, pending, replies, ready,
                   talkVars, workerVars, heard>>

Terminated ==
    /\ wpc = "stopped"
    /\ UNCHANGED vars

-----------------------------------------------------------------------------
Worker == CheckRunning \/ TestPredicate \/ Sleep \/ PerformOnce \/ PostReply
World == Push \/ Notify \/ SwapReplies \/ Speak \/ NotifyAll \/ Join

Environment ==
    \/ \E o \in Owners, b \in Bots : Hire(o, b) \/ Talk(o, b)
    \/ \E x \in Owners \cup Bots : Appear(x) \/ Vanish(x)
    \/ \E b \in Bots : Dismiss(b)
    \/ \E o \in Owners : OwnerLogout(o) \/ GiveKey(o) \/ ClearCredential(o)
    \/ SpuriousWakeUp
    \/ StopRunning

Next == Worker \/ World \/ Environment \/ Terminated

Spec == Init /\ [][Next]_vars

(* The threads run, and a call ends: it has a time limit (m_timeout).  The *)
(* world thread gets m_pendingLock in the end, although the worker may take *)
(* it again and again when it wakes up for nothing.                        *)
FairSpec == Spec /\ WF_vars(Worker) /\ WF_vars(World) /\ SF_vars(Push)

-----------------------------------------------------------------------------
TypeOK ==
    /\ running \in BOOLEAN
    /\ creds \in [Owners -> 0 .. MaxKeys]
    /\ keys \in 0 .. MaxKeys
    /\ employer \in [Bots -> Owners \cup {None}]
    /\ hires \in 0 .. MaxHires
    /\ deal \in [Bots -> 0 .. MaxHires]
    /\ present \subseteq Owners \cup Bots
    /\ \A b \in Bots : history[b] \in BoundedSeq(Line, HistoryDepth)
    /\ pending \in Seq(Request) /\ Len(pending) <= MaxPending
    /\ replies \in Seq([talk : 1 .. MaxTalks, owner : Owners, bot : Bots,
                        deal : 1 .. MaxHires, failed : BOOLEAN])
    /\ ready \in Seq([talk : 1 .. MaxTalks, owner : Owners, bot : Bots,
                      deal : 1 .. MaxHires, failed : BOOLEAN])
    /\ wpc \in {"idle", "push", "notify", "update", "stopping", "join", "stopped"}
    /\ draft \in Request
    /\ kpc \in {"loop", "test", "drowsy", "asleep", "call", "reply", "gone"}
    /\ request \in Request
    /\ attempt \in 0 .. MaxAttempts
    /\ answered \in BOOLEAN
    /\ talks \in 0 .. MaxTalks
    /\ heard \in Seq(1 .. MaxTalks)

(* What a player said to a mercenary is remembered for the contract it was *)
(* said under and no longer: a later employer of the same bot never sends  *)
(* it to a service.  (An answer that comes back after the dismissal is      *)
(* remembered all the same: only the words of the players are covered.)    *)
WordsOfThisContract ==
    \A b \in Bots : \A i \in DOMAIN history[b] :
        history[b][i].role = "user" =>
            employer[b] # None /\ history[b][i].deal = deal[b]

(* The requests that are under way, the oldest first, and the calls of     *)
(* Talk that have returned.                                                *)
Numbers(s) == [i \in DOMAIN s |-> s[i].talk]

underway ==
    Numbers(ready) \o Numbers(replies)
        \o (IF kpc \in {"call", "reply"} THEN <<request.talk>> ELSE <<>>)
        \o Numbers(pending)

returned == 1 .. (IF wpc \in {"push", "notify"} THEN talks - 1 ELSE talks)

Dialogue == INSTANCE Fifo
    WITH Elements <- 1 .. MaxTalks, queue <- underway, received <- heard

(* The two queues, the worker and the list of Update behave as one queue:  *)
(* each request is answered once, in the order in which players spoke.     *)
DialogueSpec == Dialogue!Spec

(* Every request is answered, if only by a failure, unless the server      *)
(* stops first: no wake up of the worker is lost, and no answer waits for  *)
(* ever in a queue.                                                        *)
Answered ==
    \A t \in 1 .. MaxTalks :
        (\E i \in DOMAIN pending : pending[i].talk = t)
            ~> ((\E i \in DOMAIN heard : heard[i] = t) \/ ~running)

Holds(k) ==
    \/ draft.key = k
    \/ request.key = k
    \/ \E i \in DOMAIN pending : pending[i].key = k

(* A key that its owner took back, or lost with the last contract, is gone *)
(* from the process once the requests made with it are over.               *)
KeyDisappears ==
    \A k \in 1 .. MaxKeys :
        (k <= keys /\ \A o \in Owners : creds[o] # k) ~> (~Holds(k) \/ ~running)

(* "Le fil dedie aux appels d API nait avec le monde et meurt avec lui":   *)
(* Stop returns.  Violated: the notification of Stop may fall between the  *)
(* worker's test and its sleep.                                            *)
StopReturns == (wpc = "stopping") ~> (wpc = "stopped")
=============================================================================
