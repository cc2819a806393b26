------------------------ MODULE MercenaryChatProofs ------------------------
(***************************************************************************)
(* Proofs about the dialogue of the mercenaries, for any number of players *)
(* and bots and any size of the queues and of the memory: what a player    *)
(* said is remembered for the contract it was said under, and the two      *)
(* queues, the worker and the list of Update are one queue.                *)
(*                                                                         *)
(* The world thread makes and ends contracts only between two calls (wpc = *)
(* "idle"): that is why the contract that Talk has read is the one under   *)
(* which it remembers.                                                     *)
(***************************************************************************)
EXTENDS MercenaryChat, SequenceTheorems, TLAPS

(* A request that Talk has made.                                           *)
RealRequest == [talk : 1 .. MaxTalks, owner : Owners, bot : Bots,
                deal : 1 .. MaxHires, key : 1 .. MaxKeys]
Reply == [talk : 1 .. MaxTalks, owner : Owners, bot : Bots,
          deal : 1 .. MaxHires, failed : BOOLEAN]

Talking == wpc \in {"push", "notify"}
Calling == kpc \in {"call", "reply"}

(* The world: contracts, keys and memories.                                *)
WorldOK ==
    /\ running \in BOOLEAN
    /\ creds \in [Owners -> 0 .. MaxKeys]
    /\ keys \in 0 .. MaxKeys
    /\ employer \in [Bots -> Owners \cup {None}]
    /\ hires \in 0 .. MaxHires
    /\ deal \in [Bots -> 0 .. MaxHires]
    /\ \A b \in Bots : employer[b] # None => deal[b] # 0
    /\ present \subseteq Owners \cup Bots

(* The memory of each bot.                                                 *)
MemoryOK ==
    /\ history \in [Bots -> Seq(Line)]
    /\ \A b \in Bots : Len(history[b]) <= HistoryDepth

(* The requests and the answers, and the two threads that carry them.      *)
TrafficOK ==
    /\ wpc \in {"idle", "push", "notify", "update", "stopping", "join", "stopped"}
    /\ kpc \in {"loop", "test", "drowsy", "asleep", "call", "reply", "gone"}
    /\ talks \in 0 .. MaxTalks
    /\ draft \in Request
    /\ Talking => draft \in RealRequest /\ draft.talk = talks
    /\ pending \in Seq(RealRequest)
    /\ Len(pending) <= MaxPending
    /\ wpc = "push" => Len(pending) < MaxPending
    /\ request \in Request
    /\ Calling => request \in RealRequest
    /\ attempt \in 0 .. MaxAttempts
    /\ kpc = "call" => attempt < MaxAttempts
    /\ answered \in BOOLEAN
    /\ replies \in Seq(Reply)
    /\ ready \in Seq(Reply)
    /\ wpc = "update" <=> ready # <<>>
    /\ heard \in Seq(1 .. MaxTalks)

(* What a player said was said under the contract that still runs, from    *)
(* the moment at which Talk reads the contract.                            *)
WordsInv ==
    /\ WordsOfThisContract
    /\ Talking => /\ employer[draft.bot] # None
                  /\ draft.deal = deal[draft.bot]

(* How many requests are where: the answers handled, those in the list of  *)
(* Update, those in the queue of answers, the one in the worker's hands.   *)
AtHeard == Len(heard)
AtReady == AtHeard + Len(ready)
AtReplies == AtReady + Len(replies)
AtWorker == AtReplies + (IF Calling THEN 1 ELSE 0)
AtPending == AtWorker + Len(pending)

(* The requests stand in line in the order of their numbers, without gaps. *)
InLine ==
    /\ AtPending = IF wpc = "push" THEN talks - 1 ELSE talks
    /\ \A i \in 1 .. Len(heard) : heard[i] = i
    /\ \A i \in 1 .. Len(ready) : ready[i].talk = AtHeard + i
    /\ \A i \in 1 .. Len(replies) : replies[i].talk = AtReady + i
    /\ Calling => request.talk = AtReplies + 1
    /\ \A i \in 1 .. Len(pending) : pending[i].talk = AtWorker + i

-----------------------------------------------------------------------------
(* Which steps write what.                                                 *)

worldVars == <<running, creds, keys, employer, hires, deal, present>>
trafficVars == <<wpc, kpc, talks, draft, pending, request, attempt, answered,
                 replies, ready, heard>>

(* What MercenaryMgr and the players do besides talking.                   *)
Contracts ==
    \/ \E o \in Owners, b \in Bots : Hire(o, b)
    \/ \E x \in Owners \cup Bots : Appear(x) \/ Vanish(x)
    \/ \E o \in Owners : GiveKey(o) \/ ClearCredential(o)

Releases == \E bs \in SUBSET Bots, gone \in SUBSET Owners : ReleaseBots(bs, gone)

(* The steps of the two threads, whose state they write.                   *)
Sleeps == CheckRunning \/ Sleep \/ SpuriousWakeUp \/ NotifyAll \/ StopRunning \/ Join

(* What each step is, and what it leaves alone.                            *)
LEMMA Moves ==
    ASSUME [Next]_vars
    PROVE  \/ Contracts /\ wpc = "idle" /\ UNCHANGED <<trafficVars, history>>
           \/ Releases /\ wpc = "idle" /\ UNCHANGED trafficVars
           \/ \E o \in Owners, b \in Bots : Talk(o, b)
           \/ Push \/ Notify \/ TestPredicate \/ PerformOnce \/ PostReply
           \/ SwapReplies \/ Speak \/ Sleeps
           \/ UNCHANGED vars
<1>1. CASE Contracts
    BY <1>1 DEF Contracts, Hire, Appear, Vanish, GiveKey, ClearCredential,
                trafficVars, talkVars, workerVars
<1>2. CASE \E b \in Bots : Dismiss(b)
  <2>1. PICK b \in Bots : Dismiss(b)
    BY <1>2
  <2>2. {b} \in SUBSET Bots /\ {} \in SUBSET Owners
    OBVIOUS
  <2>3. ReleaseBots({b}, {}) /\ wpc = "idle"
    BY <2>1 DEF Dismiss
  <2>4. Releases
    BY <2>2, <2>3 DEF Releases
  <2>5. UNCHANGED trafficVars
    BY <2>3 DEF ReleaseBots, trafficVars, talkVars, workerVars
  <2> QED
    BY <2>3, <2>4, <2>5
<1>3. CASE \E o \in Owners : OwnerLogout(o)
  <2>1. PICK o \in Owners : OwnerLogout(o)
    BY <1>3
  <2>2. {b \in Bots : employer[b] = o} \in SUBSET Bots /\ {o} \in SUBSET Owners
    OBVIOUS
  <2> QED
    BY <2>1, <2>2
    DEF OwnerLogout, Releases, ReleaseBots, trafficVars, talkVars, workerVars
<1>4. CASE UNCHANGED vars \/ Terminated
    BY <1>4 DEF Terminated
<1>5. CASE \/ \E o \in Owners, b \in Bots : Talk(o, b)
           \/ Push \/ Notify \/ TestPredicate \/ PerformOnce \/ PostReply
           \/ SwapReplies \/ Speak \/ Sleeps
    BY <1>5
<1> QED
    BY <1>1, <1>2, <1>3, <1>4, <1>5
    DEF Next, Worker, World, Environment, Sleeps, Contracts

-----------------------------------------------------------------------------
(* The world.                                                              *)

(* Nothing of the world of contracts changes.                              *)
LEMMA WorldUnchanged ==
    ASSUME WorldOK, UNCHANGED worldVars
    PROVE  WorldOK'
    BY DEF WorldOK, worldVars

(* Contracts are made and end.                                             *)
LEMMA WorldContracts ==
    ASSUME WorldOK, Contracts
    PROVE  WorldOK'
<1> USE DEF WorldOK
<1>1. ASSUME NEW o \in Owners, NEW b \in Bots, Hire(o, b)
      PROVE  WorldOK'
    BY <1>1, ChatAssumption DEF Hire, keyVars
<1>2. ASSUME NEW x \in Owners \cup Bots, Appear(x) \/ Vanish(x)
      PROVE  WorldOK'
    BY <1>2 DEF Appear, Vanish, keyVars
<1>3. ASSUME NEW o \in Owners, GiveKey(o) \/ ClearCredential(o)
      PROVE  WorldOK'
    BY <1>3, ChatAssumption DEF GiveKey, ClearCredential, contractVars
<1> QED
    BY <1>1, <1>2, <1>3 DEF Contracts

(* Bots are released, and their contracts and keys with them.              *)
LEMMA WorldReleases ==
    ASSUME WorldOK, Releases
    PROVE  WorldOK'
<1>1. PICK bs \in SUBSET Bots, gone \in SUBSET Owners : ReleaseBots(bs, gone)
    BY DEF Releases
<1>2. /\ employer' = [b \in Bots |-> IF b \in bs THEN None ELSE employer[b]]
      /\ creds' = [o \in Owners |->
                    IF /\ \E b \in bs : employer[b] = o
                       /\ \A b \in Bots \ bs : employer[b] # o
                    THEN 0 ELSE creds[o]]
      /\ present' = present \ (bs \cup gone)
      /\ UNCHANGED <<running, keys, hires, deal>>
    BY <1>1 DEF ReleaseBots
<1>3. employer' \in [Bots -> Owners \cup {None}]
    BY <1>2 DEF WorldOK
<1>4. \A o \in Owners : creds'[o] \in {0, creds[o]}
    BY <1>2
<1>5. creds' \in [Owners -> 0 .. MaxKeys]
    BY <1>2, <1>4, ChatAssumption DEF WorldOK
<1>6. \A b \in Bots : employer'[b] \in {None, employer[b]}
    BY <1>2
<1>7. \A b \in Bots : employer'[b] # None => deal'[b] # 0
    BY <1>2, <1>6 DEF WorldOK
<1> QED
    BY <1>2, <1>3, <1>5, <1>7 DEF WorldOK

(* Every step keeps the types of the contracts and keys.                   *)
LEMMA WorldInvariant ==
    ASSUME WorldOK, [Next]_vars
    PROVE  WorldOK'
<1>1. CASE \/ \E o \in Owners, b \in Bots : Talk(o, b)
           \/ Push \/ Notify \/ TestPredicate \/ PerformOnce \/ PostReply
           \/ SwapReplies \/ Speak \/ UNCHANGED vars
  <2>1. UNCHANGED worldVars
    BY <1>1 DEF Talk, Push, Notify, TestPredicate, PerformOnce, PostReply,
                SwapReplies, Speak, vars, worldVars, keyVars, contractVars
  <2> QED
    BY <2>1, WorldUnchanged
<1>2. CASE CheckRunning \/ Sleep \/ SpuriousWakeUp \/ NotifyAll
  <2>1. UNCHANGED worldVars
    BY <1>2 DEF CheckRunning, Sleep, SpuriousWakeUp, NotifyAll, worldVars,
                keyVars, contractVars
  <2> QED
    BY <2>1, WorldUnchanged
<1>3. CASE StopRunning
    BY <1>3 DEF StopRunning, WorldOK, keyVars, contractVars
<1>4. CASE Join
    BY <1>4, ChatAssumption DEF Join, WorldOK, contractVars
<1> QED
    BY <1>1, <1>2, <1>3, <1>4, Moves, WorldContracts, WorldReleases DEF Sleeps

-----------------------------------------------------------------------------
(* The memory.                                                             *)

(* Trim keeps the last lines, HistoryDepth at most.                        *)
LEMMA TrimFacts ==
    ASSUME NEW lines \in Seq(Line)
    PROVE  /\ Trim(lines) \in Seq(Line)
           /\ Len(Trim(lines)) <= HistoryDepth
           /\ \A i \in DOMAIN Trim(lines) : \E j \in DOMAIN lines :
                  Trim(lines)[i] = lines[j]
<1> DEFINE m == Len(lines) - HistoryDepth + 1
           n == Len(lines)
<1>1. n \in Nat /\ DOMAIN lines = 1 .. n /\ HistoryDepth \in Nat \ {0}
    BY LenProperties, ChatAssumption
<1>2. CASE n <= HistoryDepth
    BY <1>1, <1>2 DEF Trim
<1>3. CASE ~(n <= HistoryDepth)
  <2>1. Trim(lines) = SubSeq(lines, m, n)
    BY <1>3 DEF Trim
  <2>2. m \in Int /\ n \in Int /\ m >= 1
    BY <1>1, <1>3
  <2>3. \A i \in m .. n : lines[i] \in Line
    BY <1>1, <2>2, ElementOfSeq
  <2> HIDE DEF m, n
  <2>4. /\ SubSeq(lines, m, n) \in Seq(Line)
        /\ Len(SubSeq(lines, m, n)) = IF m <= n THEN n - m + 1 ELSE 0
        /\ \A i \in 1 .. n - m + 1 : SubSeq(lines, m, n)[i] = lines[m + i - 1]
    BY <2>2, <2>3, SubSeqProperties
  <2>5. m <= n /\ n - m + 1 = HistoryDepth
    BY <1>1, <1>3, <2>2 DEF m, n
  <2>6. DOMAIN Trim(lines) = 1 .. HistoryDepth
    BY <2>1, <2>4, <2>5, LenProperties
  <2>7. ASSUME NEW i \in DOMAIN Trim(lines)
        PROVE  \E j \in DOMAIN lines : Trim(lines)[i] = lines[j]
    <3>1. i \in 1 .. n - m + 1 /\ m + i - 1 \in 1 .. n
      BY <1>1, <2>2, <2>5, <2>6
    <3> QED
      BY <1>1, <2>1, <2>4, <3>1
  <2> QED
    BY <1>1, <2>1, <2>4, <2>5, <2>7
<1> QED
    BY <1>2, <1>3

(* A bot remembers one more line: the others are old ones.                 *)
LEMMA RememberFacts ==
    ASSUME MemoryOK, NEW c \in Bots, NEW r, NEW d,
           [role |-> r, deal |-> d] \in Line, Remember(c, r, d)
    PROVE  /\ MemoryOK'
           /\ \A b \in Bots : \A i \in DOMAIN history'[b] :
                \/ \E j \in DOMAIN history[b] : history'[b][i] = history[b][j]
                \/ b = c /\ history'[b][i] = [role |-> r, deal |-> d]
<1> DEFINE new == [role |-> r, deal |-> d]
           longer == Append(history[c], new)
<1>1. history' = [history EXCEPT ![c] = Trim(longer)]
    BY DEF Remember
<1>2. history[c] \in Seq(Line) /\ new \in Line
    BY DEF MemoryOK
<1> HIDE DEF new
<1>3. /\ longer \in Seq(Line)
      /\ Len(longer) = Len(history[c]) + 1
      /\ \A i \in 1 .. Len(history[c]) : longer[i] = history[c][i]
      /\ longer[Len(history[c]) + 1] = new
    BY <1>2, AppendProperties
<1>4. /\ DOMAIN history[c] = 1 .. Len(history[c])
      /\ DOMAIN longer = 1 .. Len(longer)
      /\ Len(history[c]) \in Nat
    BY <1>2, <1>3, LenProperties
<1>5. \A j \in DOMAIN longer : \/ j \in DOMAIN history[c] /\ longer[j] = history[c][j]
                               \/ longer[j] = new
    BY <1>3, <1>4
<1> HIDE DEF longer
<1>6. /\ Trim(longer) \in Seq(Line)
      /\ Len(Trim(longer)) <= HistoryDepth
      /\ \A i \in DOMAIN Trim(longer) : \E j \in DOMAIN longer :
            Trim(longer)[i] = longer[j]
    BY <1>3, TrimFacts
<1>7. \A b \in Bots : history'[b] = IF b = c THEN Trim(longer) ELSE history[b]
    BY <1>1 DEF MemoryOK
<1>8. MemoryOK'
    BY <1>1, <1>6, <1>7 DEF MemoryOK
<1>9. ASSUME NEW b \in Bots, NEW i \in DOMAIN history'[b]
      PROVE  \/ \E j \in DOMAIN history[b] : history'[b][i] = history[b][j]
             \/ b = c /\ history'[b][i] = new
  <2>1. CASE b = c
    BY <1>5, <1>6, <1>7, <2>1
  <2>2. CASE b # c
    BY <1>7, <2>2
  <2> QED
    BY <2>1, <2>2
<1> QED
    BY <1>8, <1>9 DEF new

-----------------------------------------------------------------------------
(* The traffic.                                                            *)

(* A request is answered under the number and the contract it was made     *)
(* with.                                                                   *)
ReplyTo(q, fails) ==
    [talk |-> q.talk, owner |-> q.owner, bot |-> q.bot, deal |-> q.deal,
     failed |-> fails]

(* What is queued has the type of a request, and so has its absence.       *)
LEMMA RealIsRequest == RealRequest \subseteq Request /\ NoRequest \in Request
    BY ChatAssumption DEF RealRequest, Request, NoRequest

(* Talk drafts a request with the next number.                             *)
LEMMA TrafficTalk ==
    ASSUME WorldOK, TrafficOK, NEW o \in Owners, NEW b \in Bots, Talk(o, b)
    PROVE  TrafficOK'
<1>1. /\ deal[b] \in 1 .. MaxHires
      /\ creds[o] \in 1 .. MaxKeys
      /\ talks + 1 \in 1 .. MaxTalks
    BY ChatAssumption DEF Talk, WorldOK, TrafficOK
<1>2. draft' \in RealRequest /\ draft'.talk = talks'
    BY <1>1 DEF Talk, RealRequest
<1>3. draft' \in Request
    BY <1>2, RealIsRequest
<1>4. /\ wpc = "idle" /\ wpc' = "push" /\ talks' = talks + 1
      /\ Len(pending) < MaxPending
      /\ UNCHANGED <<pending, replies, ready, heard, workerVars>>
    BY DEF Talk
<1> QED
    BY <1>1, <1>2, <1>3, <1>4 DEF TrafficOK, Talking, Calling, workerVars

(* The draft is appended to the queue.                                     *)
LEMMA TrafficPush ==
    ASSUME TrafficOK, Push
    PROVE  TrafficOK'
<1>1. /\ wpc = "push" /\ wpc' = "notify"
      /\ pending' = Append(pending, draft)
      /\ UNCHANGED <<replies, ready, heard, talks, draft, kpc, request, attempt,
                     answered>>
    BY DEF Push, workerVars, talkVars
<1>2. pending \in Seq(RealRequest) /\ draft \in RealRequest
    BY <1>1 DEF TrafficOK, Talking
<1>3. pending' \in Seq(RealRequest) /\ Len(pending') = Len(pending) + 1
    BY <1>1, <1>2, AppendProperties
<1>4. Len(pending) \in Nat
    BY <1>2, LenProperties
<1> QED
    BY <1>1, <1>3, <1>4, ChatAssumption DEF TrafficOK, Talking, Calling

(* The notification may wake the worker.                                   *)
LEMMA TrafficNotify ==
    ASSUME TrafficOK, Notify
    PROVE  TrafficOK'
    BY RealIsRequest DEF Notify, Awaken, TrafficOK, Talking, Calling

(* The worker takes the front of the queue, sleeps, or ends.               *)
LEMMA TrafficTestPredicate ==
    ASSUME TrafficOK, TestPredicate
    PROVE  TrafficOK'
<1>1. /\ kpc = "test"
      /\ UNCHANGED <<replies, ready, heard, wpc, talks, draft, answered>>
    BY DEF TestPredicate, talkVars
<1>2. CASE UNCHANGED <<pending, request, attempt>> /\ kpc' \in {"gone", "drowsy"}
    BY <1>1, <1>2 DEF TrafficOK, Talking, Calling
<1>3. CASE /\ pending # <<>>
           /\ request' = Head(pending)
           /\ pending' = Tail(pending)
           /\ attempt' = 0
           /\ kpc' = "call"
  <2>1. pending \in Seq(RealRequest) /\ Len(pending) \in Nat
    BY LenProperties DEF TrafficOK
  <2>2. /\ request' \in RealRequest /\ pending' \in Seq(RealRequest)
        /\ Len(pending') = Len(pending) - 1
    BY <1>3, <2>1, HeadTailProperties
  <2>3. request' \in Request
    BY <2>2, RealIsRequest
  <2> QED
    BY <1>1, <1>3, <2>1, <2>2, <2>3, ChatAssumption DEF TrafficOK, Talking, Calling
<1> QED
    BY <1>2, <1>3 DEF TestPredicate

(* One attempt to ask the service.                                         *)
LEMMA TrafficPerformOnce ==
    ASSUME TrafficOK, PerformOnce
    PROVE  TrafficOK'
<1>1. /\ kpc = "call" /\ attempt' = attempt + 1 /\ answered' \in BOOLEAN
      /\ kpc' \in {"call", "reply"}
      /\ kpc' = "call" => attempt + 1 < MaxAttempts
      /\ UNCHANGED <<pending, replies, ready, heard, wpc, talks, draft, request>>
    BY DEF PerformOnce, talkVars
<1> QED
    BY <1>1, ChatAssumption DEF TrafficOK, Talking, Calling

(* The answer of the request joins the answers.                            *)
LEMMA TrafficPostReply ==
    ASSUME TrafficOK, PostReply
    PROVE  TrafficOK'
<1>1. /\ kpc = "reply" /\ kpc' = "loop" /\ attempt' = 0 /\ answered' = FALSE
      /\ request' = NoRequest
      /\ replies' = Append(replies, ReplyTo(request, ~answered))
      /\ UNCHANGED <<pending, ready, heard, wpc, talks, draft>>
    BY DEF PostReply, talkVars, ReplyTo
<1>2. replies \in Seq(Reply) /\ ReplyTo(request, ~answered) \in Reply
    BY <1>1 DEF TrafficOK, Calling, ReplyTo, Reply, RealRequest
<1>3. replies' \in Seq(Reply)
    BY <1>1, <1>2, AppendProperties
<1>4. request' \in Request /\ attempt' \in 0 .. MaxAttempts
    BY <1>1, RealIsRequest, ChatAssumption
<1> QED
    BY <1>1, <1>3, <1>4 DEF TrafficOK, Talking, Calling

(* Update takes all of the answers.                                        *)
LEMMA TrafficSwapReplies ==
    ASSUME TrafficOK, SwapReplies
    PROVE  TrafficOK'
<1>1. /\ wpc = "idle" /\ wpc' = "update" /\ replies # <<>>
      /\ ready' = replies /\ replies' = <<>>
      /\ UNCHANGED <<pending, heard, talks, draft, workerVars>>
    BY DEF SwapReplies, talkVars
<1>2. <<>> \in Seq(Reply)
    BY EmptySeq
<1> QED
    BY <1>1, <1>2 DEF TrafficOK, Talking, Calling, workerVars

(* Update deals with one answer.                                           *)
LEMMA TrafficSpeak ==
    ASSUME TrafficOK, Speak
    PROVE  TrafficOK'
<1>1. /\ wpc = "update" /\ ready # <<>>
      /\ wpc' = IF Len(ready) = 1 THEN "idle" ELSE "update"
      /\ heard' = Append(heard, Head(ready).talk)
      /\ ready' = Tail(ready)
      /\ UNCHANGED <<pending, replies, talks, draft, workerVars>>
    BY DEF Speak, talkVars, TrafficOK
<1>2. ready \in Seq(Reply) /\ heard \in Seq(1 .. MaxTalks)
    BY DEF TrafficOK
<1>3. /\ Head(ready) \in Reply /\ ready' \in Seq(Reply)
      /\ Len(ready') = Len(ready) - 1
    BY <1>1, <1>2, HeadTailProperties
<1>4. heard' \in Seq(1 .. MaxTalks)
    BY <1>1, <1>2, <1>3, AppendProperties DEF Reply
<1>5. Len(ready) \in Nat /\ (ready' = <<>> <=> Len(ready') = 0)
    BY <1>2, <1>3, LenProperties, EmptySeq
<1>6. wpc' = "update" <=> ready' # <<>>
    BY <1>1, <1>3, <1>5
<1>7. wpc' \in {"idle", "update"}
    BY <1>1
<1> QED
    BY <1>1, <1>3, <1>4, <1>6, <1>7 DEF TrafficOK, Talking, Calling, workerVars

(* The worker falls asleep or wakes up, and Stop ends it.                  *)
LEMMA TrafficSleeps ==
    ASSUME TrafficOK, Sleeps
    PROVE  TrafficOK'
<1>1. CASE CheckRunning \/ Sleep \/ SpuriousWakeUp
  <2>1. /\ kpc' \in {"test", "gone", "asleep"}
        /\ UNCHANGED <<pending, replies, ready, heard, wpc, talks, draft,
                       request, attempt, answered>>
    BY <1>1 DEF CheckRunning, Sleep, SpuriousWakeUp, talkVars
  <2> QED
    BY <2>1 DEF TrafficOK, Talking, Calling
<1>2. CASE NotifyAll
    BY <1>2 DEF NotifyAll, Awaken, TrafficOK, Talking, Calling, talkVars
<1>3. CASE StopRunning
    BY <1>3 DEF StopRunning, TrafficOK, Talking, Calling, talkVars, workerVars
<1>4. CASE Join
    BY <1>4 DEF Join, TrafficOK, Talking, Calling, talkVars, workerVars
<1> QED
    BY <1>1, <1>2, <1>3, <1>4 DEF Sleeps

(* Nothing of the queues changes.                                          *)
LEMMA TrafficUnchanged ==
    ASSUME TrafficOK, UNCHANGED trafficVars
    PROVE  TrafficOK'
    BY DEF TrafficOK, trafficVars, Talking, Calling

(* Every step keeps the types of the queues.                               *)
LEMMA TrafficInvariant ==
    ASSUME WorldOK, TrafficOK, [Next]_vars
    PROVE  TrafficOK'
<1>1. CASE UNCHANGED vars
    BY <1>1, TrafficUnchanged DEF vars, trafficVars, talkVars, workerVars
<1> QED
    BY <1>1, Moves, TrafficUnchanged, TrafficTalk, TrafficPush, TrafficNotify,
       TrafficTestPredicate, TrafficPerformOnce, TrafficPostReply,
       TrafficSwapReplies, TrafficSpeak, TrafficSleeps

-----------------------------------------------------------------------------
(* The memory, and the words in it.                                        *)

(* Every step keeps the type of the memory.                                *)
LEMMA MemoryInvariant ==
    ASSUME MemoryOK, TrafficOK, [Next]_vars
    PROVE  MemoryOK'
<1>1. CASE UNCHANGED history
    BY <1>1 DEF MemoryOK
<1>2. CASE Releases
  <2>1. PICK bs \in SUBSET Bots :
            history' = [b \in Bots |-> IF b \in bs THEN <<>> ELSE history[b]]
    BY <1>2 DEF Releases, ReleaseBots
  <2>2. <<>> \in Seq(Line) /\ Len(<<>>) = 0
    BY EmptySeq
  <2> QED
    BY <2>1, <2>2, ChatAssumption DEF MemoryOK
<1>3. CASE Notify
  <2>1. [role |-> "user", deal |-> draft.deal] \in Line /\ draft.bot \in Bots
    BY <1>3 DEF Notify, TrafficOK, Talking, RealRequest, Line
  <2> QED
    BY <1>3, <2>1, RememberFacts DEF Notify
<1>4. CASE Speak
  <2>1. Head(ready) \in Reply
    BY <1>4, HeadTailProperties DEF Speak, TrafficOK
  <2>2. [role |-> "assistant", deal |-> Head(ready).deal] \in Line
    BY <2>1 DEF Reply, Line
  <2>3. Head(ready).bot \in Bots
    BY <2>1 DEF Reply
  <2>4. CASE Remember(Head(ready).bot, "assistant", Head(ready).deal)
    BY <2>2, <2>3, <2>4, RememberFacts
  <2> QED
    BY <1>1, <1>4, <2>4 DEF Speak
<1>5. CASE \/ \E o \in Owners, b \in Bots : Talk(o, b)
           \/ Push \/ TestPredicate \/ PerformOnce \/ PostReply
           \/ SwapReplies \/ Sleeps \/ UNCHANGED vars
  <2>1. UNCHANGED history
    BY <1>5 DEF Talk, Push, TestPredicate, PerformOnce, PostReply, SwapReplies,
                Sleeps, CheckRunning, Sleep, SpuriousWakeUp, NotifyAll,
                StopRunning, Join, vars
  <2> QED
    BY <1>1, <2>1
<1> QED
    BY <1>1, <1>2, <1>3, <1>4, <1>5, Moves

(* Contracts and memory are as they were, and no line is drafted.          *)
LEMMA WordsUnchanged ==
    ASSUME WordsInv, UNCHANGED <<history, employer, deal>>,
           (~Talking)' \/ (Talking /\ UNCHANGED draft)
    PROVE  WordsInv'
    BY DEF WordsInv, WordsOfThisContract, Talking

(* A contract is made for a bot that remembers nobody's words.             *)
LEMMA WordsHire ==
    ASSUME WorldOK, TrafficOK, WordsInv, NEW o \in Owners, NEW b \in Bots, Hire(o, b)
    PROVE  WordsInv'
<1>1. /\ wpc = "idle" /\ wpc' = wpc /\ history' = history /\ employer[b] = None
      /\ employer' = [employer EXCEPT ![b] = o]
      /\ deal' = [deal EXCEPT ![b] = hires + 1]
    BY DEF Hire
<1>2. ASSUME NEW c \in Bots, NEW i \in DOMAIN history'[c],
             history'[c][i].role = "user"
      PROVE  employer'[c] # None /\ history'[c][i].deal = deal'[c]
  <2>1. employer[c] # None /\ history[c][i].deal = deal[c]
    BY <1>1, <1>2 DEF WordsInv, WordsOfThisContract
  <2>2. c # b
    BY <1>1, <2>1
  <2> QED
    BY <1>1, <2>1, <2>2 DEF WorldOK
<1> QED
    BY <1>1, <1>2 DEF WordsInv, WordsOfThisContract, Talking

(* ForgetBot empties the memory of the bots that are released, and of no   *)
(* other.                                                                  *)
LEMMA WordsReleases ==
    ASSUME WorldOK, MemoryOK, WordsInv, Releases, wpc = "idle",
           UNCHANGED trafficVars
    PROVE  WordsInv'
<1>1. PICK bs \in SUBSET Bots, gone \in SUBSET Owners : ReleaseBots(bs, gone)
    BY DEF Releases
<1>2. /\ employer' = [b \in Bots |-> IF b \in bs THEN None ELSE employer[b]]
      /\ history' = [b \in Bots |-> IF b \in bs THEN <<>> ELSE history[b]]
      /\ deal' = deal
    BY <1>1 DEF ReleaseBots
<1>3. ASSUME NEW c \in Bots, NEW i \in DOMAIN history'[c],
             history'[c][i].role = "user"
      PROVE  employer'[c] # None /\ history'[c][i].deal = deal'[c]
  <2>1. c \notin bs
    <3> SUFFICES ASSUME c \in bs PROVE FALSE
      OBVIOUS
    <3>1. history'[c] = <<>>
      BY <1>2
    <3>2. DOMAIN history'[c] = {}
      BY <3>1
    <3> QED
      BY <3>2
  <2>2. history'[c] = history[c] /\ employer'[c] = employer[c]
    BY <1>2, <2>1
  <2> QED
    BY <1>2, <1>3, <2>2 DEF WordsInv, WordsOfThisContract
<1> QED
    BY <1>3 DEF WordsInv, WordsOfThisContract, Talking, trafficVars

(* Talk reads the contract that it will remember under.                    *)
LEMMA WordsTalk ==
    ASSUME WorldOK, WordsInv, NEW o \in Owners, NEW b \in Bots, Talk(o, b)
    PROVE  WordsInv'
<1>1. /\ employer[b] = o /\ UNCHANGED <<history, employer, deal>>
      /\ draft'.bot = b /\ draft'.deal = deal[b]
    BY DEF Talk, contractVars
<1> QED
    BY <1>1, ChatAssumption DEF WordsInv, WordsOfThisContract

(* The player's line goes into the memory, under the contract of Talk.     *)
LEMMA WordsNotify ==
    ASSUME TrafficOK, MemoryOK, WordsInv, Notify
    PROVE  WordsInv'
<1> DEFINE new == [role |-> "user", deal |-> draft.deal]
<1>1. /\ wpc = "notify" /\ wpc' = "idle" /\ UNCHANGED <<employer, deal>>
      /\ Remember(draft.bot, "user", draft.deal)
    BY DEF Notify, contractVars
<1>2. new \in Line /\ draft.bot \in Bots
    BY <1>1 DEF TrafficOK, Talking, RealRequest, Line
<1>3. \A b \in Bots : \A i \in DOMAIN history'[b] :
         \/ \E j \in DOMAIN history[b] : history'[b][i] = history[b][j]
         \/ b = draft.bot /\ history'[b][i] = new
    BY <1>1, <1>2, RememberFacts
<1>4. employer[draft.bot] # None /\ new.deal = deal[draft.bot]
    BY <1>1 DEF WordsInv, Talking
<1> HIDE DEF new
<1>5. WordsOfThisContract'
    BY <1>1, <1>3, <1>4 DEF WordsInv, WordsOfThisContract
<1> QED
    BY <1>1, <1>5 DEF WordsInv, Talking

(* An answer adds no word of a player.                                     *)
LEMMA WordsSpeak ==
    ASSUME TrafficOK, MemoryOK, WordsInv, Speak
    PROVE  WordsInv'
<1> DEFINE new == [role |-> "assistant", deal |-> Head(ready).deal]
<1>1. /\ wpc = "update" /\ wpc' \in {"idle", "update"}
      /\ UNCHANGED <<employer, deal>>
    BY DEF Speak, contractVars
<1>2. CASE UNCHANGED history
    BY <1>1, <1>2, WordsUnchanged DEF Talking
<1>3. CASE Remember(Head(ready).bot, "assistant", Head(ready).deal)
  <2>1. Head(ready) \in Reply
    BY HeadTailProperties DEF Speak, TrafficOK
  <2>2. new \in Line /\ Head(ready).bot \in Bots
    BY <2>1 DEF Reply, Line
  <2>3. \A b \in Bots : \A i \in DOMAIN history'[b] :
           \/ \E j \in DOMAIN history[b] : history'[b][i] = history[b][j]
           \/ history'[b][i] = new
    BY <1>3, <2>2, RememberFacts
  <2>4. new.role # "user"
    OBVIOUS
  <2> HIDE DEF new
  <2>5. WordsOfThisContract'
    BY <1>1, <2>3, <2>4 DEF WordsInv, WordsOfThisContract
  <2> QED
    BY <1>1, <2>5 DEF WordsInv, Talking
<1> QED
    BY <1>2, <1>3 DEF Speak

(* Every step keeps what the memory is about.                              *)
LEMMA WordsInvariant ==
    ASSUME WorldOK, MemoryOK, TrafficOK, WordsInv, [Next]_vars
    PROVE  WordsInv'
<1>1. CASE Contracts /\ wpc = "idle" /\ UNCHANGED <<trafficVars, history>>
  <2>1. CASE \E o \in Owners, b \in Bots : Hire(o, b)
    BY <2>1, WordsHire
  <2>2. CASE UNCHANGED <<employer, deal>>
    BY <1>1, <2>2, WordsUnchanged DEF trafficVars, Talking
  <2>3. ASSUME NEW x \in Owners \cup Bots, Appear(x) \/ Vanish(x)
        PROVE  UNCHANGED <<employer, deal>>
    BY <2>3 DEF Appear, Vanish
  <2>4. ASSUME NEW o \in Owners, GiveKey(o) \/ ClearCredential(o)
        PROVE  UNCHANGED <<employer, deal>>
    BY <2>4 DEF GiveKey, ClearCredential, contractVars
  <2> QED
    BY <1>1, <2>1, <2>2, <2>3, <2>4 DEF Contracts
<1>2. CASE \/ Push \/ TestPredicate \/ PerformOnce \/ PostReply
           \/ SwapReplies \/ Sleeps \/ UNCHANGED vars
  <2>1. UNCHANGED <<history, employer, deal>>
    BY <1>2 DEF Push, TestPredicate, PerformOnce, PostReply, SwapReplies,
                Sleeps, CheckRunning, Sleep, SpuriousWakeUp, NotifyAll,
                StopRunning, Join, vars, contractVars
  <2>2. CASE \/ Push \/ TestPredicate \/ PerformOnce \/ PostReply
             \/ SwapReplies \/ UNCHANGED vars
    <3>1. (~Talking)' \/ (Talking /\ UNCHANGED draft)
      BY <2>2 DEF Push, TestPredicate, PerformOnce, PostReply, SwapReplies,
                  vars, talkVars, Talking
    <3> QED
      BY <2>1, <3>1, WordsUnchanged
  <2>3. CASE Sleeps
    <3>1. (~Talking)' \/ (Talking /\ UNCHANGED draft)
      BY <2>3 DEF Sleeps, CheckRunning, Sleep, SpuriousWakeUp, NotifyAll,
                  StopRunning, Join, talkVars, Talking
    <3> QED
      BY <2>1, <3>1, WordsUnchanged
  <2> QED
    BY <1>2, <2>2, <2>3
<1> QED
    BY <1>1, <1>2, Moves, WordsReleases, WordsTalk, WordsNotify, WordsSpeak

-----------------------------------------------------------------------------
(* The line.                                                               *)

Lengths == {Len(heard), Len(ready), Len(replies), Len(pending)}

(* Lengths are natural numbers.                                            *)
LEMMA LengthsAreNumbers ==
    ASSUME TrafficOK
    PROVE  Lengths \subseteq Nat
    BY LenProperties DEF TrafficOK, Lengths

(* The line of what is under way is as it was.                             *)
LEMMA LineUnchanged ==
    ASSUME InLine, UNCHANGED <<heard, ready, replies, pending, request, talks>>,
           Calling' <=> Calling, (wpc = "push")' <=> wpc = "push"
    PROVE  InLine'
    BY DEF InLine, AtPending, AtWorker, AtReplies, AtReady, AtHeard

(* A draft takes the next number.                                          *)
LEMMA LineTalk ==
    ASSUME TrafficOK, InLine, NEW o \in Owners, NEW b \in Bots, Talk(o, b)
    PROVE  InLine'
<1>1. /\ wpc = "idle" /\ wpc' = "push" /\ talks' = talks + 1 /\ talks \in Nat
      /\ UNCHANGED <<heard, ready, replies, pending, request, kpc>>
    BY DEF Talk, workerVars, TrafficOK
<1> QED
    BY <1>1, LengthsAreNumbers
    DEF InLine, AtPending, AtWorker, AtReplies, AtReady, AtHeard, Calling, Lengths

(* The new request takes the last place.                                   *)
LEMMA LinePush ==
    ASSUME TrafficOK, InLine, Push
    PROVE  InLine'
<1>1. /\ wpc = "push" /\ wpc' = "notify"
      /\ pending' = Append(pending, draft)
      /\ UNCHANGED <<heard, ready, replies, talks, kpc, request>>
    BY DEF Push, workerVars, talkVars
<1>2. pending \in Seq(RealRequest) /\ draft \in RealRequest /\ draft.talk = talks
    BY <1>1 DEF TrafficOK, Talking
<1>3. /\ Len(pending') = Len(pending) + 1
      /\ \A i \in 1 .. Len(pending) : pending'[i] = pending[i]
      /\ pending'[Len(pending) + 1] = draft
    BY <1>1, <1>2, AppendProperties
<1>4. /\ AtPending = talks - 1 /\ talks \in Nat
      /\ AtWorker \in Nat /\ AtWorker' = AtWorker
      /\ AtPending = AtWorker + Len(pending) /\ Len(pending) \in Nat
      /\ AtPending' = AtWorker' + Len(pending')
    BY <1>1, LengthsAreNumbers
    DEF InLine, AtPending, AtWorker, AtReplies, AtReady, AtHeard, Calling, Lengths,
        TrafficOK
<1>5. AtPending' = talks'
    BY <1>1, <1>3, <1>4
<1>6. \A i \in 1 .. Len(pending') : pending'[i].talk = AtWorker' + i
    BY <1>2, <1>3, <1>4 DEF InLine
<1> QED
    BY <1>1, <1>5, <1>6 DEF InLine, AtReplies, AtReady, AtHeard, Calling

(* The worker takes the first request that waits.                          *)
LEMMA LineTestPredicate ==
    ASSUME TrafficOK, InLine, TestPredicate
    PROVE  InLine'
<1>1. /\ kpc = "test"
      /\ UNCHANGED <<heard, ready, replies, wpc, talks>>
    BY DEF TestPredicate, talkVars
<1>2. CASE UNCHANGED <<pending, request, attempt>> /\ kpc' \in {"gone", "drowsy"}
    BY <1>1, <1>2, LineUnchanged DEF Calling
<1>3. CASE /\ pending # <<>>
           /\ request' = Head(pending)
           /\ pending' = Tail(pending)
           /\ kpc' = "call"
  <2>1. pending \in Seq(RealRequest)
    BY DEF TrafficOK
  <2>2. /\ request' = pending[1]
        /\ Len(pending) \in Nat \ {0}
        /\ Len(pending') = Len(pending) - 1
        /\ \A i \in 1 .. Len(pending') : pending'[i] = pending[i + 1]
    BY <1>3, <2>1, HeadTailProperties, EmptySeq
  <2>3. /\ AtReplies \in Nat /\ AtReplies' = AtReplies
        /\ AtWorker = AtReplies /\ AtWorker' = AtReplies + 1
        /\ AtPending = AtWorker + Len(pending)
        /\ AtPending' = AtWorker' + Len(pending')
    BY <1>1, <1>3, LengthsAreNumbers
    DEF AtPending, AtWorker, AtReplies, AtReady, AtHeard, Calling, Lengths
  <2>4. AtPending' = AtPending
    BY <2>2, <2>3
  <2>5. request'.talk = AtReplies' + 1
    BY <2>2, <2>3 DEF InLine
  <2>6. ASSUME NEW i \in 1 .. Len(pending')
        PROVE  pending'[i].talk = AtWorker' + i
    <3>1. i + 1 \in 1 .. Len(pending)
      BY <2>2
    <3>2. pending[i + 1].talk = AtWorker + (i + 1)
      BY <3>1 DEF InLine
    <3> QED
      BY <2>2, <2>3, <3>2
  <2> QED
    BY <1>1, <2>4, <2>5, <2>6 DEF InLine, AtReplies, AtReady, AtHeard
<1> QED
    BY <1>2, <1>3 DEF TestPredicate

(* The answer takes the place of the request.                              *)
LEMMA LinePostReply ==
    ASSUME TrafficOK, InLine, PostReply
    PROVE  InLine'
<1>1. /\ kpc = "reply" /\ kpc' = "loop"
      /\ replies' = Append(replies, ReplyTo(request, ~answered))
      /\ UNCHANGED <<heard, ready, pending, wpc, talks>>
    BY DEF PostReply, talkVars, ReplyTo
<1>2. replies \in Seq(Reply) /\ ReplyTo(request, ~answered) \in Reply
    BY <1>1 DEF TrafficOK, Calling, ReplyTo, Reply, RealRequest
<1>3. /\ Len(replies') = Len(replies) + 1
      /\ \A i \in 1 .. Len(replies) : replies'[i] = replies[i]
      /\ replies'[Len(replies) + 1] = ReplyTo(request, ~answered)
    BY <1>1, <1>2, AppendProperties
<1>4. ReplyTo(request, ~answered).talk = request.talk
    BY DEF ReplyTo
<1>5. /\ AtReady \in Nat /\ AtReady' = AtReady
      /\ AtReplies = AtReady + Len(replies) /\ Len(replies) \in Nat
      /\ AtWorker = AtReplies + 1
      /\ AtWorker' = AtReady + Len(replies')
      /\ AtPending = AtWorker + Len(pending)
      /\ AtPending' = AtWorker' + Len(pending)
    BY <1>1, LengthsAreNumbers
    DEF AtPending, AtWorker, AtReplies, AtReady, AtHeard, Calling, Lengths
<1>6. AtWorker' = AtWorker /\ AtPending' = AtPending
    BY <1>3, <1>5
<1>7. request.talk = AtReplies + 1
    BY <1>1 DEF InLine, Calling
<1>8. ASSUME NEW i \in 1 .. Len(replies')
      PROVE  replies'[i].talk = AtReady' + i
  <2>1. CASE i = Len(replies) + 1
    BY <1>3, <1>4, <1>5, <1>7, <2>1
  <2>2. CASE i \in 1 .. Len(replies)
    BY <1>3, <1>5, <2>2 DEF InLine
  <2> QED
    BY <1>3, <1>5, <2>1, <2>2
<1> QED
    BY <1>1, <1>5, <1>6, <1>8 DEF InLine, AtHeard, Calling

(* The two lists of answers change hands when the first one is empty.      *)
LEMMA LineSwapReplies ==
    ASSUME TrafficOK, InLine, SwapReplies
    PROVE  InLine'
<1>1. /\ wpc = "idle" /\ wpc' = "update"
      /\ ready' = replies /\ replies' = <<>>
      /\ UNCHANGED <<heard, pending, talks, kpc, request>>
    BY DEF SwapReplies, talkVars, workerVars
<1>2. ready = <<>> /\ Len(ready) = 0 /\ Len(replies') = 0
    BY <1>1, EmptySeq DEF TrafficOK
<1>3. AtReady = AtHeard /\ AtReplies = AtReady' /\ AtReplies' = AtReplies
      /\ AtHeard' = AtHeard /\ AtWorker' = AtWorker /\ AtPending' = AtPending
    BY <1>1, <1>2, LengthsAreNumbers
    DEF AtPending, AtWorker, AtReplies, AtReady, AtHeard, Calling, Lengths
<1> QED
    BY <1>1, <1>2, <1>3 DEF InLine, Calling

(* The first answer is handled.                                            *)
LEMMA LineSpeak ==
    ASSUME TrafficOK, InLine, Speak
    PROVE  InLine'
<1>1. /\ wpc = "update" /\ ready # <<>> /\ wpc' # "push"
      /\ heard' = Append(heard, Head(ready).talk)
      /\ ready' = Tail(ready)
      /\ UNCHANGED <<pending, replies, talks, kpc, request>>
    BY DEF Speak, talkVars, workerVars, TrafficOK
<1>2. ready \in Seq(Reply) /\ heard \in Seq(1 .. MaxTalks)
    BY DEF TrafficOK
<1>3. /\ Head(ready) \in Reply /\ Head(ready) = ready[1]
      /\ Len(ready) \in Nat \ {0} /\ Len(ready') = Len(ready) - 1
      /\ \A i \in 1 .. Len(ready') : ready'[i] = ready[i + 1]
    BY <1>1, <1>2, HeadTailProperties, EmptySeq
<1>4. /\ Len(heard') = Len(heard) + 1
      /\ \A i \in 1 .. Len(heard) : heard'[i] = heard[i]
      /\ heard'[Len(heard) + 1] = ready[1].talk
    BY <1>1, <1>2, <1>3, AppendProperties DEF Reply
<1>5. /\ AtHeard = Len(heard) /\ Len(heard) \in Nat /\ AtHeard' = AtHeard + 1
      /\ AtReady' = AtReady /\ AtReplies' = AtReplies /\ AtWorker' = AtWorker
      /\ AtPending' = AtPending
    BY <1>1, <1>3, <1>4, LengthsAreNumbers
    DEF AtPending, AtWorker, AtReplies, AtReady, AtHeard, Calling, Lengths
<1>6. ready[1].talk = AtHeard + 1
    BY <1>3 DEF InLine
<1>7. \A i \in 1 .. Len(heard') : heard'[i] = i
    BY <1>4, <1>5, <1>6 DEF InLine
<1>8. ASSUME NEW i \in 1 .. Len(ready')
      PROVE  ready'[i].talk = AtHeard' + i
  <2>1. i + 1 \in 1 .. Len(ready)
    BY <1>3
  <2>2. ready[i + 1].talk = AtHeard + (i + 1)
    BY <2>1 DEF InLine
  <2> QED
    BY <1>3, <1>5, <2>2
<1> QED
    BY <1>1, <1>5, <1>7, <1>8 DEF InLine, Calling

(* Every step keeps the numbers of what is under way.                      *)
LEMMA LineInvariant ==
    ASSUME TrafficOK, InLine, [Next]_vars
    PROVE  InLine'
<1>1. CASE UNCHANGED trafficVars
    BY <1>1, LineUnchanged DEF trafficVars, Calling
<1>2. CASE Notify
    BY <1>2, LineUnchanged DEF Notify, Awaken, Calling
<1>3. CASE PerformOnce
    BY <1>3, LineUnchanged DEF PerformOnce, Calling, talkVars
<1>4. CASE CheckRunning \/ Sleep \/ SpuriousWakeUp \/ NotifyAll
  <2>1. /\ UNCHANGED <<heard, ready, replies, pending, request, talks>>
        /\ wpc' = wpc \/ (wpc = "stopping" /\ wpc' = "join")
        /\ (~Calling /\ ~Calling') \/ kpc' = kpc
    BY <1>4 DEF CheckRunning, Sleep, SpuriousWakeUp, NotifyAll, Awaken, Calling,
                talkVars
  <2> QED
    BY <2>1, LineUnchanged DEF Calling
<1>5. CASE StopRunning \/ Join
    BY <1>5, LineUnchanged DEF StopRunning, Join, Calling, talkVars, workerVars
<1>6. CASE UNCHANGED vars
    BY <1>6, LineUnchanged DEF vars, Calling, talkVars, workerVars
<1> QED
    BY <1>1, <1>2, <1>3, <1>4, <1>5, <1>6, Moves, LineTalk, LinePush,
       LineTestPredicate, LinePostReply, LineSwapReplies, LineSpeak DEF Sleeps

-----------------------------------------------------------------------------
(* The dialogue is one queue.                                              *)

(* How many requests were ever queued.                                     *)
Pushed == IF wpc = "push" THEN talks - 1 ELSE talks

(* What the abstract queue and its history hold, whatever the places.      *)
Mapped ==
    /\ talks \in 0 .. MaxTalks
    /\ Pushed \in Nat
    /\ Talking => talks \in 1 .. MaxTalks
    /\ heard \in Seq(1 .. MaxTalks)
    /\ Len(heard) \in 0 .. Pushed
    /\ \A i \in 1 .. Len(heard) : heard[i] = i
    /\ underway \in Seq(1 .. MaxTalks)
    /\ Len(underway) = Pushed - Len(heard)
    /\ \A i \in 1 .. Len(underway) : underway[i] = Len(heard) + i
    /\ \A i \in 1 .. Len(ready) : ready[i].talk = Len(heard) + i
    /\ ready \in Seq(Reply)
    /\ wpc = "update" => ready # <<>> /\ Len(ready) <= Len(underway)

(* What numbers a queue holds.                                             *)
LEMMA NumbersFacts ==
    ASSUME NEW S, NEW s \in Seq(S), \A e \in S : e.talk \in 1 .. MaxTalks
    PROVE  /\ Numbers(s) \in Seq(1 .. MaxTalks)
           /\ Len(Numbers(s)) = Len(s)
           /\ \A i \in 1 .. Len(s) : Numbers(s)[i] = s[i].talk
<1>1. Len(s) \in Nat /\ DOMAIN s = 1 .. Len(s)
    BY LenProperties
<1>2. \A i \in 1 .. Len(s) : s[i].talk \in 1 .. MaxTalks
    BY ElementOfSeq
<1> QED
    BY <1>1, <1>2 DEF Numbers

(* Two lines, the second of which goes on where the first one ends.        *)
LEMMA ConcatLine ==
    ASSUME NEW s \in Seq(1 .. MaxTalks), NEW t \in Seq(1 .. MaxTalks), NEW k \in Nat,
           \A i \in 1 .. Len(s) : s[i] = k + i,
           \A i \in 1 .. Len(t) : t[i] = (k + Len(s)) + i
    PROVE  /\ s \o t \in Seq(1 .. MaxTalks)
           /\ Len(s \o t) = Len(s) + Len(t)
           /\ \A i \in 1 .. Len(s \o t) : (s \o t)[i] = k + i
<1>1. /\ s \o t \in Seq(1 .. MaxTalks) /\ Len(s \o t) = Len(s) + Len(t)
      /\ \A i \in 1 .. Len(s) + Len(t) :
            (s \o t)[i] = IF i <= Len(s) THEN s[i] ELSE t[i - Len(s)]
    BY ConcatProperties
<1>2. Len(s) \in Nat /\ Len(t) \in Nat
    BY LenProperties
<1>3. ASSUME NEW i \in 1 .. Len(s) + Len(t)
      PROVE  (s \o t)[i] = k + i
  <2>1. CASE i <= Len(s)
    BY <1>1, <1>2, <2>1
  <2>2. CASE ~(i <= Len(s))
    <3>1. i - Len(s) \in 1 .. Len(t)
      BY <1>2, <2>2
    <3>2. t[i - Len(s)] = (k + Len(s)) + (i - Len(s))
      BY <3>1
    <3> QED
      BY <1>1, <1>2, <2>2, <3>2
  <2> QED
    BY <2>1, <2>2
<1> QED
    BY <1>1, <1>3

(* What is under way, as one sequence.                                     *)
LEMMA UnderwayFacts ==
    ASSUME TrafficOK, InLine
    PROVE  Mapped
<1> DEFINE a == Numbers(ready)
           b == Numbers(replies)
           c == IF Calling THEN <<request.talk>> ELSE <<>>
           d == Numbers(pending)
           ab == a \o b
           abc == ab \o c
<1>1. underway = abc \o d
    BY DEF underway, Calling
<1>0. /\ \A e \in Reply : e.talk \in 1 .. MaxTalks
      /\ \A e \in RealRequest : e.talk \in 1 .. MaxTalks
    BY DEF Reply, RealRequest
<1>2. /\ a \in Seq(1 .. MaxTalks) /\ Len(a) = Len(ready)
      /\ \A i \in 1 .. Len(a) : a[i] = AtHeard + i
    BY <1>0, NumbersFacts DEF TrafficOK, InLine
<1>3. /\ b \in Seq(1 .. MaxTalks) /\ Len(b) = Len(replies)
      /\ \A i \in 1 .. Len(b) : b[i] = AtReady + i
    BY <1>0, NumbersFacts DEF TrafficOK, InLine
<1>4. /\ c \in Seq(1 .. MaxTalks) /\ Len(c) = (IF Calling THEN 1 ELSE 0)
      /\ \A i \in 1 .. Len(c) : c[i] = AtReplies + i
  <2>1. CASE Calling
    <3>1. request.talk \in 1 .. MaxTalks /\ request.talk = AtReplies + 1
      BY <2>1 DEF TrafficOK, InLine, RealRequest
    <3>2. c = <<request.talk>>
      BY <2>1
    <3> HIDE DEF c
    <3>3. c \in Seq(1 .. MaxTalks) /\ Len(c) = 1 /\ c[1] = request.talk
      BY <3>1, <3>2
    <3> QED
      BY <2>1, <3>1, <3>3
  <2>2. CASE ~Calling
    BY <2>2, EmptySeq
  <2> QED
    BY <2>1, <2>2
<1>5. /\ d \in Seq(1 .. MaxTalks) /\ Len(d) = Len(pending)
      /\ \A i \in 1 .. Len(d) : d[i] = AtWorker + i
    BY <1>0, NumbersFacts DEF TrafficOK, InLine
<1>6. /\ AtHeard = Len(heard) /\ Len(heard) \in Nat /\ Len(ready) \in Nat
      /\ Len(replies) \in Nat /\ Len(pending) \in Nat
      /\ AtReady = AtHeard + Len(ready)
      /\ AtReplies = AtReady + Len(replies)
      /\ AtWorker = AtReplies + (IF Calling THEN 1 ELSE 0)
      /\ AtPending = AtWorker + Len(pending)
    BY LengthsAreNumbers
    DEF AtPending, AtWorker, AtReplies, AtReady, AtHeard, Lengths
<1> HIDE DEF a, b, c, d, ab, abc
<1>7. /\ ab \in Seq(1 .. MaxTalks) /\ Len(ab) = Len(ready) + Len(replies)
      /\ \A i \in 1 .. Len(ab) : ab[i] = AtHeard + i
  <2>1. AtHeard \in Nat /\ AtReady = AtHeard + Len(a)
    BY <1>2, <1>6
  <2>2. \A i \in 1 .. Len(b) : b[i] = (AtHeard + Len(a)) + i
    BY <1>3, <2>1
  <2>3. /\ ab \in Seq(1 .. MaxTalks) /\ Len(ab) = Len(a) + Len(b)
        /\ \A i \in 1 .. Len(ab) : ab[i] = AtHeard + i
    BY <1>2, <1>3, <2>1, <2>2, ConcatLine DEF ab
  <2> QED
    BY <1>2, <1>3, <2>3
<1>8. /\ abc \in Seq(1 .. MaxTalks) /\ Len(abc) = Len(ab) + Len(c)
      /\ \A i \in 1 .. Len(abc) : abc[i] = AtHeard + i
  <2>1. AtHeard \in Nat /\ AtReplies = AtHeard + Len(ab)
    BY <1>6, <1>7
  <2> QED
    BY <1>4, <1>7, <2>1, ConcatLine DEF abc
<1>9. /\ underway \in Seq(1 .. MaxTalks) /\ Len(underway) = Len(abc) + Len(d)
      /\ \A i \in 1 .. Len(underway) : underway[i] = AtHeard + i
  <2>1. AtHeard \in Nat /\ AtWorker = AtHeard + Len(abc)
    BY <1>4, <1>6, <1>7, <1>8
  <2> QED
    BY <1>1, <1>5, <1>8, <2>1, ConcatLine
<1>10. AtPending = Pushed
    BY DEF InLine, Pushed
<1>11. Len(underway) = AtPending - AtHeard
    BY <1>4, <1>5, <1>6, <1>7, <1>8, <1>9
<1>12. Len(underway) >= Len(ready)
    BY <1>4, <1>5, <1>6, <1>7, <1>8, <1>9
<1>13. AtPending \in Nat /\ Len(heard) \in 0 .. AtPending
    BY <1>6
<1>14. /\ Talking => talks \in 1 .. MaxTalks
       /\ talks \in 0 .. MaxTalks
       /\ heard \in Seq(1 .. MaxTalks)
       /\ ready \in Seq(Reply)
       /\ wpc = "update" => ready # <<>>
    BY DEF TrafficOK, RealRequest
<1>15. /\ \A i \in 1 .. Len(heard) : heard[i] = i
       /\ \A i \in 1 .. Len(ready) : ready[i].talk = Len(heard) + i
    BY <1>6 DEF InLine
<1> QED
    BY <1>6, <1>9, <1>10, <1>11, <1>12, <1>13, <1>14, <1>15 DEF Mapped

(* The abstract queue changes with Pushed and heard only.                  *)
LEMMA SameLine ==
    ASSUME Mapped, Mapped', Pushed' = Pushed, heard' = heard
    PROVE  underway' = underway
<1>1. Len(underway') = Len(underway)
    BY DEF Mapped
<1>2. \A i \in 1 .. Len(underway) : underway'[i] = underway[i]
    BY <1>1 DEF Mapped
<1> QED
    BY <1>1, <1>2, SeqEqual DEF Mapped

(* Who has been heard was pushed.                                          *)
LEMMA SeenIsPushed ==
    ASSUME Mapped, NEW t \in 1 .. MaxTalks
    PROVE  Dialogue!SeenBefore(t) <=> t <= Pushed
<1>1. DOMAIN underway = 1 .. Len(underway) /\ DOMAIN heard = 1 .. Len(heard)
    BY LenProperties DEF Mapped
<1>2. CASE t <= Len(heard)
  <2>1. t \in DOMAIN heard /\ heard[t] = t
    BY <1>1, <1>2 DEF Mapped
  <2> QED
    BY <1>2, <2>1 DEF Mapped, Dialogue!SeenBefore
<1>3. CASE t > Len(heard) /\ t <= Pushed
  <2>1. t - Len(heard) \in 1 .. Len(underway)
    BY <1>3 DEF Mapped
  <2>2. underway[t - Len(heard)] = Len(heard) + (t - Len(heard))
    BY <2>1 DEF Mapped
  <2>3. underway[t - Len(heard)] = t
    BY <2>2 DEF Mapped
  <2> QED
    BY <1>1, <1>3, <2>1, <2>3 DEF Dialogue!SeenBefore
<1>4. CASE t > Pushed
  <2>1. \A i \in DOMAIN heard : heard[i] # t
    BY <1>1, <1>4 DEF Mapped
  <2>2. \A i \in DOMAIN underway : underway[i] # t
    BY <1>1, <1>4 DEF Mapped
  <2> QED
    BY <1>4, <2>1, <2>2 DEF Dialogue!SeenBefore, Mapped
<1> QED
    BY <1>2, <1>3, <1>4 DEF Mapped

(* Every step is one of the abstract dialogue, or a stutter.               *)
LEMMA DialogueStep ==
    ASSUME Mapped, Mapped', [Next]_vars
    PROVE  [Dialogue!Next]_(Dialogue!vars)
<1>0. UNCHANGED <<underway, returned, heard>> => UNCHANGED Dialogue!vars
    BY DEF Dialogue!vars
<1>1. CASE UNCHANGED <<wpc, talks, heard>>
  <2>1. Pushed' = Pushed /\ returned' = returned
    BY <1>1 DEF Pushed, returned
  <2> QED
    BY <1>0, <1>1, <2>1, SameLine
<1>2. CASE \E o \in Owners, b \in Bots : Talk(o, b)
  <2>1. /\ wpc = "idle" /\ wpc' = "push" /\ talks' = talks + 1 /\ heard' = heard
    BY <1>2 DEF Talk
  <2>2. talks \in Nat
    BY DEF Mapped
  <2>3. Pushed' = Pushed /\ returned' = returned
    BY <2>1, <2>2 DEF Pushed, returned
  <2> QED
    BY <1>0, <2>1, <2>3, SameLine
<1>3. CASE Push
  <2>1. /\ wpc = "push" /\ wpc' = "notify" /\ talks' = talks /\ heard' = heard
    BY <1>3 DEF Push, talkVars
  <2>2. talks \in 1 .. MaxTalks
    BY <2>1 DEF Mapped, Talking
  <2>3. Pushed = talks - 1 /\ Pushed' = talks /\ returned' = returned
    BY <2>1 DEF Pushed, returned
  <2>4. underway' = Append(underway, talks)
    <3>1. /\ Append(underway, talks) \in Seq(1 .. MaxTalks)
          /\ Len(Append(underway, talks)) = Len(underway) + 1
          /\ \A i \in 1 .. Len(underway) : Append(underway, talks)[i] = underway[i]
          /\ Append(underway, talks)[Len(underway) + 1] = talks
      BY <2>2, AppendProperties DEF Mapped
    <3>2. Len(underway') = Len(underway) + 1
      BY <2>1, <2>2, <2>3 DEF Mapped
    <3>3. ASSUME NEW i \in 1 .. Len(underway')
          PROVE  underway'[i] = Append(underway, talks)[i]
      <4>1. underway'[i] = Len(heard) + i
        BY <2>1 DEF Mapped
      <4>2. CASE i \in 1 .. Len(underway)
        BY <3>1, <4>1, <4>2 DEF Mapped
      <4>3. CASE i = Len(underway) + 1
        <5>1. Len(heard) + (Len(underway) + 1) = talks
          BY <2>2, <2>3 DEF Mapped
        <5> QED
          BY <3>1, <4>1, <4>3, <5>1
      <4> QED
        BY <3>2, <4>2, <4>3 DEF Mapped
    <3>4. underway' \in Seq(1 .. MaxTalks)
      BY DEF Mapped
    <3> QED
      BY <3>1, <3>2, <3>3, <3>4, SeqEqual
  <2>5. ~Dialogue!SeenBefore(talks)
    BY <2>2, <2>3, SeenIsPushed
  <2>6. Dialogue!Put(talks)
    BY <2>1, <2>3, <2>4, <2>5 DEF Dialogue!Put
  <2> QED
    BY <2>2, <2>6 DEF Dialogue!Next
<1>4. CASE Notify
  <2>1. /\ wpc = "notify" /\ wpc' = "idle" /\ talks' = talks /\ heard' = heard
    BY <1>4 DEF Notify
  <2>2. talks \in 1 .. MaxTalks
    BY <2>1 DEF Mapped, Talking
  <2>3. /\ Pushed = talks /\ Pushed' = talks
        /\ returned = 1 .. talks - 1 /\ returned' = 1 .. talks
    BY <2>1 DEF Pushed, returned
  <2>4. talks \notin returned /\ returned' = returned \cup {talks}
    BY <2>2, <2>3
  <2>5. Dialogue!SeenBefore(talks)
    BY <2>2, <2>3, SeenIsPushed
  <2>6. underway' = underway
    BY <2>1, <2>3, SameLine
  <2>7. Dialogue!Return(talks)
    BY <2>1, <2>4, <2>5, <2>6 DEF Dialogue!Return
  <2> QED
    BY <2>2, <2>7 DEF Dialogue!Next
<1>5. CASE Speak
  <2>1. /\ wpc = "update" /\ wpc' \in {"idle", "update"} /\ talks' = talks
        /\ heard' = Append(heard, Head(ready).talk)
    BY <1>5 DEF Speak, talkVars
  <2>2. /\ ready # <<>> /\ ready \in Seq(Reply) /\ Len(ready) <= Len(underway)
    BY <2>1 DEF Mapped
  <2>3. Len(ready) \in Nat \ {0} /\ Head(ready) = ready[1]
    BY <2>2, EmptySeq
  <2>4. Len(underway) \in Nat \ {0}
    BY <2>2, <2>3, LenProperties DEF Mapped
  <2>5. underway # <<>>
    BY <2>4, EmptySeq
  <2>6. /\ Head(underway) = underway[1]
        /\ Tail(underway) \in Seq(1 .. MaxTalks)
        /\ Len(Tail(underway)) = Len(underway) - 1
        /\ \A i \in 1 .. Len(Tail(underway)) : Tail(underway)[i] = underway[i + 1]
    BY <2>5, HeadTailProperties DEF Mapped
  <2>7. /\ underway[1] = Len(heard) + 1
        /\ Head(ready).talk = Len(heard) + 1
        /\ Len(heard) + 1 <= Pushed
    <3>1. 1 \in 1 .. Len(underway) /\ 1 \in 1 .. Len(ready)
      BY <2>3, <2>4
    <3>2. underway[1] = Len(heard) + 1 /\ ready[1].talk = Len(heard) + 1
      BY <3>1 DEF Mapped
    <3>3. Len(heard) + 1 <= Pushed
      BY <2>4 DEF Mapped
    <3> QED
      BY <2>3, <3>2, <3>3
  <2>8. heard' = Append(heard, Head(underway))
    BY <2>1, <2>6, <2>7
  <2>9. Pushed = talks /\ Pushed' = talks /\ returned = 1 .. talks /\ returned' = returned
    BY <2>1 DEF Pushed, returned
  <2>10. Head(underway) \in returned
    BY <2>6, <2>7, <2>9 DEF Mapped
  <2>11. Len(heard') = Len(heard) + 1
    <3>1. Head(underway) \in 1 .. MaxTalks
      BY <2>5, HeadTailProperties DEF Mapped
    <3> QED
      BY <2>8, <3>1, AppendProperties DEF Mapped
  <2>12. underway' = Tail(underway)
    <3>1. Len(underway') = Len(Tail(underway))
      BY <2>6, <2>9, <2>11 DEF Mapped
    <3>2. ASSUME NEW i \in 1 .. Len(underway')
          PROVE  underway'[i] = Tail(underway)[i]
      <4>1. underway'[i] = Len(heard') + i
        BY DEF Mapped
      <4>2. i + 1 \in 1 .. Len(underway)
        BY <2>4, <2>6, <3>1
      <4>3. underway[i + 1] = Len(heard) + (i + 1)
        BY <4>2 DEF Mapped
      <4> QED
        BY <2>6, <2>11, <3>1, <4>1, <4>3 DEF Mapped
    <3> QED
      BY <2>6, <3>1, <3>2, SeqEqual DEF Mapped
  <2>13. Dialogue!Take
    BY <2>5, <2>8, <2>9, <2>10, <2>12 DEF Dialogue!Take
  <2> QED
    BY <2>13 DEF Dialogue!Next
<1>6. CASE SwapReplies \/ NotifyAll \/ StopRunning \/ Join
  <2>1. /\ talks' = talks /\ heard' = heard
        /\ wpc \in {"idle", "stopping", "join"}
        /\ wpc' \in {"update", "join", "stopping", "stopped"}
    BY <1>6 DEF SwapReplies, NotifyAll, StopRunning, Join, talkVars
  <2>2. Pushed' = Pushed /\ returned' = returned
    BY <2>1 DEF Pushed, returned
  <2> QED
    BY <1>0, <2>1, <2>2, SameLine
<1>7. CASE \/ TestPredicate \/ PerformOnce \/ PostReply
           \/ CheckRunning \/ Sleep \/ SpuriousWakeUp
  <2>1. UNCHANGED <<wpc, talks, heard>>
    BY <1>7 DEF TestPredicate, PerformOnce, PostReply, CheckRunning, Sleep,
                SpuriousWakeUp, talkVars
  <2> QED
    BY <1>1, <2>1
<1>8. CASE UNCHANGED trafficVars \/ UNCHANGED vars
  <2>1. UNCHANGED <<wpc, talks, heard>>
    BY <1>8 DEF trafficVars, vars, talkVars
  <2> QED
    BY <1>1, <2>1
<1> QED
    BY <1>2, <1>3, <1>4, <1>5, <1>6, <1>7, <1>8, Moves DEF Sleeps

-----------------------------------------------------------------------------
(* The inductive invariant and the theorems.                               *)

ChatInv == WorldOK /\ MemoryOK /\ TrafficOK /\ WordsInv /\ InLine

(* The invariant holds before anybody talks.                               *)
LEMMA InitChat == Init => ChatInv
<1> SUFFICES ASSUME Init
             PROVE  ChatInv
    OBVIOUS
<1>0. /\ {MaxPending, HistoryDepth, MaxAttempts, MaxTalks, MaxKeys, MaxHires} \subseteq Nat \ {0}
      /\ \A S : <<>> \in Seq(S) /\ Len(<<>>) = 0
    BY ChatAssumption, EmptySeq
<1>1. WorldOK
    BY <1>0 DEF Init, WorldOK
<1>2. MemoryOK
    BY <1>0 DEF Init, MemoryOK
<1>3. TrafficOK
  <2>1. /\ pending \in Seq(RealRequest) /\ Len(pending) = 0
        /\ replies \in Seq(Reply) /\ ready \in Seq(Reply)
        /\ heard \in Seq(1 .. MaxTalks)
    BY <1>0 DEF Init
  <2>2. 0 <= MaxPending /\ 0 \in 0 .. MaxAttempts /\ 0 \in 0 .. MaxTalks
    BY <1>0
  <2> QED
    BY <2>1, <2>2, RealIsRequest DEF Init, TrafficOK, Talking, Calling
<1>4. WordsInv
  <2>1. \A b \in Bots : DOMAIN history[b] = {}
    BY DEF Init
  <2> QED
    BY <2>1 DEF Init, WordsInv, WordsOfThisContract, Talking
<1>5. InLine
    BY <1>0 DEF Init, InLine, AtPending, AtWorker, AtReplies, AtReady, AtHeard, Calling
<1> QED
    BY <1>1, <1>2, <1>3, <1>4, <1>5 DEF ChatInv

(* Every step keeps the invariant.                                         *)
LEMMA NextChat == ChatInv /\ [Next]_vars => ChatInv'
    BY WorldInvariant, MemoryInvariant, TrafficInvariant, WordsInvariant,
       LineInvariant DEF ChatInv

(* In every behaviour of the dialogue, the invariant holds.                *)
LEMMA ChatInvariant == Spec => []ChatInv
<1> HIDE DEF ChatInv, Init, Next, vars
<1> QED
    BY InitChat, NextChat, PTL DEF Spec

(* The bounded queue and memory keep their bounds, and every field its     *)
(* type.                                                                   *)
THEOREM TypeCorrect == Spec => []TypeOK
<1>1. ASSUME ChatInv
      PROVE  TypeOK
  <2>1. ASSUME NEW b \in Bots
        PROVE  history[b] \in BoundedSeq(Line, HistoryDepth)
    <3>1. history[b] \in Seq(Line) /\ Len(history[b]) <= HistoryDepth
      BY <1>1 DEF ChatInv, MemoryOK
    <3>2. /\ Len(history[b]) \in 0 .. HistoryDepth
          /\ history[b] \in [1 .. Len(history[b]) -> Line]
      BY <3>1, LenProperties, ChatAssumption
    <3> QED
      BY <3>2 DEF BoundedSeq, SeqOf
  <2>2. pending \in Seq(Request)
    BY <1>1, RealIsRequest, SeqMonotonic DEF ChatInv, TrafficOK
  <2> QED
    BY <1>1, <2>1, <2>2 DEF ChatInv, WorldOK, TrafficOK, TypeOK, Reply
<1> HIDE DEF ChatInv
<1> QED
    BY <1>1, ChatInvariant, PTL

(* What a player said to a mercenary (MercenaryChat::Talk) is remembered   *)
(* for the contract it was said under, and forgotten with it               *)
(* (MercenaryChat::ForgetBot), whatever the worker does meanwhile.         *)
THEOREM WordsCorrect == Spec => []WordsOfThisContract
<1>1. ChatInv => WordsOfThisContract
    BY DEF ChatInv, WordsInv
<1> QED
    BY <1>1, ChatInvariant, PTL

(* Requests and answers pass through two queues, a thread and a local list *)
(* (Talk, WorkerLoop, Update) as through one queue: each is answered once, *)
(* in the order in which players spoke.                                    *)
THEOREM DialogueCorrect == Spec => DialogueSpec
<1>1. Init => Dialogue!Init
  <2> SUFFICES ASSUME Init
               PROVE  Dialogue!Init
    OBVIOUS
  <2>1. Mapped
    BY InitChat, UnderwayFacts DEF ChatInv
  <2>2. heard = <<>> /\ wpc = "idle" /\ talks = 0
    BY DEF Init
  <2>3. Len(heard) = 0 /\ Pushed = 0
    BY <2>2, EmptySeq DEF Pushed
  <2>4. Len(underway) = 0
    BY <2>1, <2>3 DEF Mapped
  <2>5. underway = <<>>
    BY <2>1, <2>4, EmptySeq DEF Mapped
  <2>6. returned = {}
    BY <2>2 DEF returned
  <2> QED
    BY <2>2, <2>5, <2>6 DEF Dialogue!Init
<1>2. ChatInv => Mapped
    BY UnderwayFacts DEF ChatInv
<1>3. Mapped /\ Mapped' /\ [Next]_vars => [Dialogue!Next]_(Dialogue!vars)
    BY DialogueStep
<1> QED
    BY <1>1, <1>2, <1>3, ChatInvariant, PTL DEF Spec, Dialogue!Spec, DialogueSpec
==============================================================================
