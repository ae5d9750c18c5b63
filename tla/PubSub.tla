------------------------------- MODULE PubSub -------------------------------
(***************************************************************************)
(* pubsub.PubSubService (src/pubsub/service.go, my_pubsub.go) on one       *)
(* topic.  Clients run scripts of Subscribe, Unsubscribe, Publish and      *)
(* Close calls.  Each subscription has a buffered messageCh and a handler   *)
(* goroutine that ranges over it, runs the callback and calls              *)
(* waitGroup.Done; Publish calls waitGroup.Add(1) before each send.  A      *)
(* subscription is named by the client that made it (one per client).      *)
(*                                                                         *)
(* p.lock is a sync.RWMutex: `writer` is the client holding it exclusively, *)
(* `readers` those holding it shared.  A section under the lock that       *)
(* cannot block is one step.  Publish's sends can block on a full channel   *)
(* while it holds the read lock, so each is a step of its own.  A send on, *)
(* or a close of, a closed channel panics: the process stops (`panicked`). *)
(***************************************************************************)
EXTENDS Naturals, Sequences, SequencesExt

CONSTANTS
    Clients,    \* goroutines calling the service
    Script,     \* Script[c]: the calls c makes, in order
    Cap,        \* capacity of messageCh (100 in createSubscription)
    CanCancel,  \* Close's ctx may be canceled
    NoClient

Ops == {"sub", "unsub", "pub", "close"}

ASSUME /\ Script \in [Clients -> Seq(Ops)] /\ Cap \in Nat \ {0}
       /\ CanCancel \in BOOLEAN /\ NoClient \notin Clients

\* A message: its publisher and the publisher's count of Publish calls.
Msgs == UNION {{c} \X (1..Len(Script[c])) : c \in Clients}

VARIABLES
    writer, readers,  \* p.lock
    isClosed,         \* p.isClosed
    subs,             \* p.topicSubscriptions[topic]
    ch,               \* ch[s]: the messages buffered in s's messageCh
    chClosed,         \* chClosed[s]: s's messageCh is closed
    hpc,              \* hpc[s]: where s's handler goroutine is
    hmsg,             \* hmsg[s]: the message s's callback is handling
    wg,               \* p.waitGroup's counter
    ip,               \* ip[c]: the script position of c's current call
    pc,
    subscribed,       \* subscribed[c]: c's Subscribe returned a subscription
    snap, sidx,       \* the subscriber list Publish read, and its loop index
    pend,             \* pend[c]: Close's pending goroutine: "none", "wait", "done"
    canceled,         \* canceled[c]: Close's ctx is done
    panicked,
    sent,             \* history: <<m, s>>, m was sent to s's messageCh
    handled,          \* history: handled[s], the messages s's callback has finished
    beforeClose,      \* history: beforeClose[c], the calls done when c's Close began
    closeNil,         \* history: clients whose Close returned nil
    pubStart          \* history: pubStart[c], the live subscriptions when c's Publish began

lockVars == <<writer, readers>>
chanVars == <<ch, chClosed, hpc, hmsg, wg>>
callVars == <<ip, pc, subscribed, snap, sidx, pend, canceled>>
history == <<sent, handled, beforeClose, closeNil, pubStart>>
vars == <<lockVars, isClosed, subs, chanVars, callVars, panicked, history>>

PCs == {"next", "sub_check", "sub_reg", "unsub_rm", "unsub_close",
        "pub_check", "pub_lock", "pub_add", "pub_send", "pub_unlock",
        "close_check", "close_term", "close_wait", "done"}

Init ==
    /\ writer = NoClient /\ readers = {}
    /\ isClosed = FALSE /\ subs = <<>>
    /\ ch = [s \in Clients |-> <<>>] /\ chClosed = [s \in Clients |-> FALSE]
    /\ hpc = [s \in Clients |-> "none"] /\ hmsg = [s \in Clients |-> <<>>]
    /\ wg = 0
    /\ ip = [c \in Clients |-> 1] /\ pc = [c \in Clients |-> "next"]
    /\ subscribed = [c \in Clients |-> FALSE]
    /\ snap = [c \in Clients |-> <<>>] /\ sidx = [c \in Clients |-> 1]
    /\ pend = [c \in Clients |-> "none"] /\ canceled = [c \in Clients |-> FALSE]
    /\ panicked = FALSE
    /\ sent = {} /\ handled = [s \in Clients |-> {}]
    /\ beforeClose = [c \in Clients |-> {}] /\ closeNil = {}
    /\ pubStart = [c \in Clients |-> {}]

\* The read lock can be taken: no writer.  The write lock: nobody holds it.
RFree == writer = NoClient
WFree == writer = NoClient /\ readers = {}

Goto(c, l) == pc' = [pc EXCEPT ![c] = l]
\* The call returns and c goes on with its script.
Return(c) == /\ pc' = [pc EXCEPT ![c] = "next"]
             /\ ip' = [ip EXCEPT ![c] = @ + 1]

\* A goroutine panicked: the process is gone and nothing else happens.
Panic == /\ panicked' = TRUE
         /\ UNCHANGED <<lockVars, isClosed, subs, chanVars, callVars, history>>

Op(c) == Script[c][ip[c]]
Entry == [sub |-> "sub_check", pub |-> "pub_check", close |-> "close_check",
          unsub |-> "unsub_rm"]
\* The message of c's current Publish call.
Msg(c) == <<c, ip[c]>>
\* The messages whose Publish call has returned.
Returned == {m \in Msgs : Script[m[1]][m[2]] = "pub" /\ ip[m[1]] > m[2]}

\* c's Unsubscribe has removed its subscription from the topic, or is past it.
UnsubStarted(c) ==
    pc[c] = "unsub_close" \/ \E k \in 1..(ip[c] - 1) : Script[c][k] = "unsub"
\* c holds a subscription that Subscribe registered and nothing removed.
Live(c) == subscribed[c] /\ ~UnsubStarted(c)

-----------------------------------------------------------------------------
(* The calls of a client's script.  Unsubscribe is a method of the         *)
(* Subscription that Subscribe returned; a client whose Subscribe failed    *)
(* has none and skips it.                                                   *)

StartCall(c) ==
    /\ ~panicked /\ pc[c] = "next" /\ ip[c] <= Len(Script[c])
    /\ Op(c) = "unsub" => subscribed[c]
    /\ Goto(c, Entry[Op(c)])
    /\ UNCHANGED <<lockVars, isClosed, subs, chanVars, ip, subscribed, snap,
                   sidx, pend, canceled, panicked, history>>

SkipUnsubscribe(c) ==
    /\ ~panicked /\ pc[c] = "next" /\ ip[c] <= Len(Script[c])
    /\ Op(c) = "unsub" /\ ~subscribed[c]
    /\ Return(c)
    /\ UNCHANGED <<lockVars, isClosed, subs, chanVars, subscribed, snap, sidx,
                   pend, canceled, panicked, history>>

Finish(c) ==
    /\ ~panicked /\ pc[c] = "next" /\ ip[c] > Len(Script[c])
    /\ Goto(c, "done")
    /\ UNCHANGED <<lockVars, isClosed, subs, chanVars, ip, subscribed, snap,
                   sidx, pend, canceled, panicked, history>>

\* Subscribe: if p.isServiceClosed() { return nil, errors.New("closed") }
\* (isServiceClosed reads p.isClosed under p.lock.RLock).
SubscribeCheck(c) ==
    /\ ~panicked /\ pc[c] = "sub_check" /\ RFree
    /\ IF isClosed THEN Return(c) ELSE Goto(c, "sub_reg") /\ UNCHANGED ip
    /\ UNCHANGED <<lockVars, isClosed, subs, chanVars, subscribed, snap, sidx,
                   pend, canceled, panicked, history>>

\* createSubscription, listen (the handler goroutine starts ranging over
\* the fresh messageCh), then registerSubscription under p.lock.Lock.
SubscribeRegister(c) ==
    /\ ~panicked /\ pc[c] = "sub_reg" /\ WFree
    /\ subs' = Append(subs, c)
    /\ ch' = [ch EXCEPT ![c] = <<>>] /\ chClosed' = [chClosed EXCEPT ![c] = FALSE]
    /\ hpc' = [hpc EXCEPT ![c] = "recv"]
    /\ subscribed' = [subscribed EXCEPT ![c] = TRUE]
    /\ Return(c)
    /\ UNCHANGED <<lockVars, isClosed, hmsg, wg, snap, sidx, pend, canceled,
                   panicked, history>>

\* Mutant: subscribeHandler as append(subscribers[:i]), dropping the
\* subscribers after the removed one.
UnsubscribeRemoveTruncate(c) ==
    /\ ~panicked /\ pc[c] = "unsub_rm" /\ WFree
    /\ subs' = IF c \in ToSet(subs)
               THEN SubSeq(subs, 1, SelectInSeq(subs, LAMBDA x : x = c) - 1)
               ELSE subs
    /\ Goto(c, "unsub_close")
    /\ UNCHANGED <<lockVars, isClosed, chanVars, ip, subscribed, snap, sidx,
                   pend, canceled, panicked, history>>

\* Unsubscribe: removeSubscription under p.lock.Lock; subscribeHandler
\* removes the first occurrence of s from the topic's slice.
UnsubscribeRemove(c) ==
    /\ ~panicked /\ pc[c] = "unsub_rm" /\ WFree
    /\ subs' = RemoveFirst(subs, c)
    /\ Goto(c, "unsub_close")
    /\ UNCHANGED <<lockVars, isClosed, chanVars, ip, subscribed, snap, sidx,
                   pend, canceled, panicked, history>>

\* Unsubscribe: close(s.messageCh), outside the lock.
UnsubscribeClose(c) ==
    /\ ~panicked /\ pc[c] = "unsub_close"
    /\ IF chClosed[c]
         THEN Panic
         ELSE /\ chClosed' = [chClosed EXCEPT ![c] = TRUE]
              /\ Return(c)
              /\ UNCHANGED <<lockVars, isClosed, subs, ch, hpc, hmsg, wg,
                             subscribed, snap, sidx, pend, canceled, panicked,
                             history>>


\* Publish: if p.isServiceClosed() { return errors.New("closed") }
PublishCheck(c) ==
    /\ ~panicked /\ pc[c] = "pub_check" /\ RFree
    /\ IF isClosed THEN Return(c) ELSE Goto(c, "pub_lock") /\ UNCHANGED ip
    /\ pubStart' = [pubStart EXCEPT ![c] = {s \in Clients : Live(s)}]
    /\ UNCHANGED <<lockVars, isClosed, subs, chanVars, subscribed, snap, sidx,
                   pend, canceled, panicked, sent, handled, beforeClose, closeNil>>

\* sendMessageToTopicSubscribers: p.lock.RLock(), then read the topic's
\* subscribers; sand loops over them.
PublishLock(c) ==
    /\ ~panicked /\ pc[c] = "pub_lock" /\ RFree
    /\ readers' = readers \cup {c}
    /\ snap' = [snap EXCEPT ![c] = subs] /\ sidx' = [sidx EXCEPT ![c] = 1]
    /\ Goto(c, IF subs = <<>> THEN "pub_unlock" ELSE "pub_add")
    /\ UNCHANGED <<writer, isClosed, subs, chanVars, ip, subscribed, pend,
                   canceled, panicked, history>>

\* sand: p.waitGroup.Add(1)
PublishAdd(c) ==
    /\ ~panicked /\ pc[c] = "pub_add"
    /\ wg' = wg + 1
    /\ Goto(c, "pub_send")
    /\ UNCHANGED <<lockVars, isClosed, subs, ch, chClosed, hpc, hmsg, ip,
                   subscribed, snap, sidx, pend, canceled, panicked, history>>

\* sand: subscription.messageCh <- message.  It blocks while the channel is
\* full, and panics if the channel is (or becomes) closed.
PublishSend(c) ==
    LET s == snap[c][sidx[c]] IN
    /\ ~panicked /\ pc[c] = "pub_send"
    /\ IF chClosed[s]
         THEN Panic
         ELSE /\ Len(ch[s]) < Cap
              /\ ch' = [ch EXCEPT ![s] = Append(@, Msg(c))]
              /\ sent' = sent \cup {<<Msg(c), s>>}
              /\ sidx' = [sidx EXCEPT ![c] = @ + 1]
              /\ Goto(c, IF sidx[c] = Len(snap[c]) THEN "pub_unlock" ELSE "pub_add")
              /\ UNCHANGED <<lockVars, isClosed, subs, chClosed, hpc, hmsg, wg,
                             ip, subscribed, snap, pend, canceled, panicked,
                             handled, beforeClose, closeNil, pubStart>>

\* The deferred p.lock.RUnlock(); Publish returns nil.
PublishUnlock(c) ==
    /\ ~panicked /\ pc[c] = "pub_unlock"
    /\ readers' = readers \ {c}
    /\ snap' = [snap EXCEPT ![c] = <<>>] /\ sidx' = [sidx EXCEPT ![c] = 1]
    /\ Return(c)
    /\ UNCHANGED <<writer, isClosed, subs, chanVars, subscribed, pend,
                   canceled, panicked, history>>

\* Close: if p.isServiceClosed() { return errors.New("closed") }
CloseCheck(c) ==
    /\ ~panicked /\ pc[c] = "close_check" /\ RFree
    /\ IF isClosed THEN Return(c) ELSE Goto(c, "close_term") /\ UNCHANGED ip
    /\ beforeClose' = [beforeClose EXCEPT ![c] = Returned]
    /\ UNCHANGED <<lockVars, isClosed, subs, chanVars, subscribed, snap, sidx,
                   pend, canceled, panicked, sent, handled, closeNil, pubStart>>

\* terminateAllSubscriptions, under p.lock.Lock: p.isClosed = true and
\* closeHandler closes every registered subscription's channel, panicking
\* on one that is closed already.  Then awaitPendingMessages starts the
\* pending goroutine.
CloseTerminate(c) ==
    /\ ~panicked /\ pc[c] = "close_term" /\ WFree
    /\ IF \E s \in ToSet(subs) : chClosed[s]
         THEN Panic
         ELSE /\ isClosed' = TRUE
              /\ chClosed' = [s \in Clients |-> chClosed[s] \/ s \in ToSet(subs)]
              /\ pend' = [pend EXCEPT ![c] = "wait"]
              /\ Goto(c, "close_wait")
              /\ UNCHANGED <<lockVars, subs, ch, hpc, hmsg, wg, ip, subscribed,
                             snap, sidx, canceled, panicked, history>>

\* Mutant: awaitPendingMessages that closes completionSignal without
\* waiting for the WaitGroup.
PendingNoWait(c) ==
    /\ ~panicked /\ pend[c] = "wait"
    /\ pend' = [pend EXCEPT ![c] = "done"]
    /\ UNCHANGED <<lockVars, isClosed, subs, chanVars, ip, pc, subscribed, snap,
                   sidx, canceled, panicked, history>>

\* pending: p.waitGroup.Wait(); close(completionSignal).
Pending(c) ==
    /\ ~panicked /\ pend[c] = "wait" /\ wg = 0
    /\ pend' = [pend EXCEPT ![c] = "done"]
    /\ UNCHANGED <<lockVars, isClosed, subs, chanVars, ip, pc, subscribed, snap,
                   sidx, canceled, panicked, history>>

\* awaitPendingMessages' select, case <-completionSignal: return nil.
CloseDone(c) ==
    /\ ~panicked /\ pc[c] = "close_wait" /\ pend[c] = "done"
    /\ closeNil' = closeNil \cup {c}
    /\ Return(c)
    /\ UNCHANGED <<lockVars, isClosed, subs, chanVars, subscribed, snap, sidx,
                   pend, canceled, panicked, sent, handled, beforeClose, pubStart>>

\* awaitPendingMessages' select, case <-ctx.Done(): return ctx.Err().
CloseCanceled(c) ==
    /\ ~panicked /\ pc[c] = "close_wait" /\ canceled[c]
    /\ Return(c)
    /\ UNCHANGED <<lockVars, isClosed, subs, chanVars, subscribed, snap, sidx,
                   pend, canceled, panicked, history>>

\* Close's ctx is canceled (its deadline passes) while Close waits.
Cancel(c) ==
    /\ ~panicked /\ CanCancel /\ pc[c] = "close_wait" /\ ~canceled[c]
    /\ canceled' = [canceled EXCEPT ![c] = TRUE]
    /\ UNCHANGED <<lockVars, isClosed, subs, chanVars, ip, pc, subscribed, snap,
                   sidx, pend, panicked, history>>

-----------------------------------------------------------------------------
(* The handler goroutine of subscription s: for msg := range s.messageCh {  *)
(* s.callback(msg); s.waitGroup.Done() }                                    *)

HandlerRecv(s) ==
    /\ ~panicked /\ hpc[s] = "recv" /\ ch[s] # <<>>
    /\ hmsg' = [hmsg EXCEPT ![s] = Head(ch[s])]
    /\ ch' = [ch EXCEPT ![s] = Tail(@)]
    /\ hpc' = [hpc EXCEPT ![s] = "cb"]
    /\ UNCHANGED <<lockVars, isClosed, subs, chClosed, wg, callVars, panicked,
                   history>>

\* Mutant: the loop leaves as soon as the channel is closed, dropping what
\* is still buffered.
HandlerExitUndrained(s) ==
    /\ ~panicked /\ hpc[s] = "recv" /\ chClosed[s]
    /\ hpc' = [hpc EXCEPT ![s] = "exit"]
    /\ UNCHANGED <<lockVars, isClosed, subs, ch, chClosed, hmsg, wg, callVars,
                   panicked, history>>

\* range ends: the channel is closed and drained.
HandlerExit(s) ==
    /\ ~panicked /\ hpc[s] = "recv" /\ ch[s] = <<>> /\ chClosed[s]
    /\ hpc' = [hpc EXCEPT ![s] = "exit"]
    /\ UNCHANGED <<lockVars, isClosed, subs, ch, chClosed, hmsg, wg, callVars,
                   panicked, history>>

\* Mutant: the loop runs the callback but never calls Done.
HandlerCallbackNoDone(s) ==
    /\ ~panicked /\ hpc[s] = "cb"
    /\ handled' = [handled EXCEPT ![s] = @ \cup {hmsg[s]}]
    /\ hpc' = [hpc EXCEPT ![s] = "recv"] /\ hmsg' = [hmsg EXCEPT ![s] = <<>>]
    /\ UNCHANGED <<lockVars, isClosed, subs, ch, chClosed, wg, callVars,
                   panicked, sent, beforeClose, closeNil, pubStart>>

\* s.callback(msg) returns; s.waitGroup.Done().
HandlerCallback(s) ==
    /\ ~panicked /\ hpc[s] = "cb"
    /\ handled' = [handled EXCEPT ![s] = @ \cup {hmsg[s]}]
    /\ wg' = wg - 1
    /\ hpc' = [hpc EXCEPT ![s] = "recv"] /\ hmsg' = [hmsg EXCEPT ![s] = <<>>]
    /\ UNCHANGED <<lockVars, isClosed, subs, ch, chClosed, callVars,
                   panicked, sent, beforeClose, closeNil, pubStart>>

-----------------------------------------------------------------------------
\* After a panic the process is gone.
Crashed == panicked /\ UNCHANGED vars

\* Every script has run; the callbacks are idle and the pending goroutines
\* have finished.  Handlers of subscriptions nobody closed stay blocked in
\* range, which does not keep the program from ending.
Terminated ==
    /\ ~panicked
    /\ \A c \in Clients : pc[c] = "done" /\ pend[c] # "wait"
    /\ \A s \in Clients : hpc[s] # "cb" /\ ch[s] = <<>>
    /\ UNCHANGED vars

ClientStep(c) ==
    \/ StartCall(c) \/ SkipUnsubscribe(c) \/ Finish(c)
    \/ SubscribeCheck(c) \/ SubscribeRegister(c)
    \/ UnsubscribeRemove(c) \/ UnsubscribeClose(c)
    \/ PublishCheck(c) \/ PublishLock(c) \/ PublishAdd(c) \/ PublishSend(c)
    \/ PublishUnlock(c)
    \/ CloseCheck(c) \/ CloseTerminate(c) \/ CloseDone(c) \/ CloseCanceled(c)

HandlerStep(s) == HandlerRecv(s) \/ HandlerExit(s) \/ HandlerCallback(s)

Next ==
    \/ \E c \in Clients : ClientStep(c) \/ Pending(c) \/ Cancel(c)
    \/ \E s \in Clients : HandlerStep(s)
    \/ Crashed \/ Terminated

(***************************************************************************)
(* Fairness.  Every goroutine keeps running the code it is in: client      *)
(* calls, handlers and pending goroutines are weakly fair.  Taking p.lock  *)
(* needs no stronger assumption here: the scripts are finite, so every    *)
(* holder lets go for good and a waiting taker stays enabled.  A ctx       *)
(* deadline is not assumed to pass.                                        *)
(***************************************************************************)
Fairness ==
    /\ \A c \in Clients : WF_vars(ClientStep(c)) /\ WF_vars(Pending(c))
    /\ \A s \in Clients : WF_vars(HandlerStep(s))

Spec == Init /\ [][Next]_vars /\ Fairness

-----------------------------------------------------------------------------
\* Publish reaches every subscriber: once Publish's sends are done, its
\* message was put in the channel of every subscription that was live
\* when Publish began and still is.  Subscribe appends to the topic's
\* slice and Unsubscribe cuts one element out of it, each under the write
\* lock, while Publish ranges over the slice under the read lock.
PublishReachesSubscribers ==
    \A c \in Clients : pc[c] = "pub_unlock" =>
        \A s \in pubStart[c] : Live(s) => <<Msg(c), s>> \in sent

\* Close waits for delivery: when Close returns nil, every message of a
\* Publish that returned before Close began has been handled by every
\* subscriber it was sent to.  The WaitGroup is raised before each send
\* and lowered only after the callback; pending waits for it after
\* terminateAllSubscriptions.
CloseWaitsForDelivery ==
    \A c \in closeNil : \A e \in sent :
        e[1] \in beforeClose[c] => e[1] \in handled[e[2]]

\* Every message sent to a subscription was handled by it.
AllHandled == \A e \in sent : e[1] \in handled[e[2]]

\* No message is lost: every message put in a subscriber's channel is
\* eventually handled, also after Unsubscribe or Close closed the channel
\* (range drains what is buffered), unless the process panics.  The
\* scripts are finite, so this is: eventually, for good, all are handled.
EveryMessageHandled == <>[](AllHandled \/ panicked)

\* Close returns: once terminateAllSubscriptions is done the WaitGroup
\* drains, since every Add(1) is followed by a send some handler receives.
CloseReturns ==
    \A c \in Clients : pc[c] = "close_wait" ~> (pc[c] # "close_wait" \/ panicked)

====
