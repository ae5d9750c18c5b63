------------------------------ MODULE Shopfront ------------------------------
(***************************************************************************)
(* shopfront.ShopCounters (src/shopfront/shopfront.go): view counters of  *)
(* shop items kept in Redis.  RecordView increments the key                *)
(* "item_<id>_count" and adds the user to the set "item_<id>" in one       *)
(* MULTI/EXEC transaction (TxPipeline); GetItems sends, in one plain       *)
(* Pipeline, a GET of every count key and then a SISMEMBER of every item   *)
(* key, and builds the items from the replies.                             *)
(*                                                                         *)
(* Redis runs each command, and each MULTI/EXEC block, atomically, in the  *)
(* order a connection sent them; the commands of other connections run     *)
(* between those of a plain pipeline.  So a transaction is one step, and   *)
(* every pipelined command of GetItems is a step of its own.  A network    *)
(* error may end a pipeline at any point: GetItems then returns it, and    *)
(* RecordView's transaction ran entirely or not at all.                   *)
(*                                                                         *)
(* A key is a record of its kind and item: what the two key formats do    *)
(* that matters here is give distinct keys to distinct ids and kinds.      *)
(* A count of 0 is the absent key (INCR creates it with 1).                *)
(***************************************************************************)
EXTENDS Integers, Sequences

CONSTANTS
    Users,       \* users who record views
    Readers,     \* users who call GetItems, a subset of Users
    Items,       \* item ids
    Lists,       \* the itemIDs arguments GetItems is called with
    MaxViews,    \* RecordView calls
    MaxGets,     \* GetItems calls
    MaxFaults    \* GetItems pipelines cut by a network error

VARIABLES
    viewCounts,  \* the key item_<id>_count of every item (0: absent)
    itemViews,   \* the set item_<id> of every item
    views,       \* RecordView calls made
    gPc,         \* a reader's GetItems: "idle", "exec" or "done"
    gIds,        \* its itemIDs
    gCmds,       \* the commands of its pipeline
    gReplies,    \* the replies of the commands Redis has run, in order
    gErr,        \* it returned an error
    gResult,     \* the items it returned
    gStart,      \* the counters when it was called
    gEnd,        \* the counters when it returned
    getCalls, netFaults

vars == <<viewCounts, itemViews, views, gPc, gIds, gCmds, gReplies, gErr, gResult,
          gStart, gEnd, getCalls, netFaults>>

Counters == [c |-> viewCounts, v |-> itemViews]

NoReply == [err |-> "none", n |-> 0, b |-> FALSE]

TypeOK ==
    /\ viewCounts \in [Items -> 0..MaxViews] /\ itemViews \in [Items -> SUBSET Users]
    /\ gPc \in [Readers -> {"idle", "exec", "done"}] /\ gErr \in [Readers -> BOOLEAN]
    /\ views \in 0..MaxViews /\ getCalls \in 0..MaxGets /\ netFaults \in 0..MaxFaults

Init ==
    /\ viewCounts = [i \in Items |-> 0] /\ itemViews = [i \in Items |-> {}]
    /\ views = 0 /\ getCalls = 0 /\ netFaults = 0
    /\ gPc = [r \in Readers |-> "idle"] /\ gIds = [r \in Readers |-> <<>>]
    /\ gCmds = [r \in Readers |-> <<>>] /\ gReplies = [r \in Readers |-> <<>>]
    /\ gErr = [r \in Readers |-> FALSE] /\ gResult = [r \in Readers |-> <<>>]
    /\ gStart = [r \in Readers |-> Counters] /\ gEnd = [r \in Readers |-> Counters]

-----------------------------------------------------------------------------
\* generateItemKey, generateViewCountKey, and their list forms.
generateItemKey(i) == [kind |-> "set", item |-> i]
generateViewCountKey(i) == [kind |-> "count", item |-> i]
generateItemKeys(ids) == [k \in DOMAIN ids |-> generateItemKey(ids[k])]
generateViewCountKeys(ids) == [k \in DOMAIN ids |-> generateViewCountKey(ids[k])]

\* queueViewCountCommands and queueViewedCommands: a GET, and a SISMEMBER of
\* the user, per key.
queueViewCountCommands(keys) ==
    [k \in DOMAIN keys |-> [op |-> "GET", key |-> keys[k], member |-> "none"]]
queueViewedCommands(keys, u) ==
    [k \in DOMAIN keys |-> [op |-> "SISMEMBER", key |-> keys[k], member |-> u]]

\* A key exists: a count above 0, a non-empty set.
KeyExists(key) ==
    IF key.kind = "count" THEN viewCounts[key.item] > 0 ELSE itemViews[key.item] # {}

\* Redis's reply to a command: an absent key is empty whatever the command
\* (GET gives redis.Nil, SISMEMBER false); a command on an existing key of
\* the other type is a WRONGTYPE error.
Reply(cmd) ==
    CASE ~KeyExists(cmd.key) /\ cmd.op = "GET" -> [NoReply EXCEPT !.err = "nil"]
      [] ~KeyExists(cmd.key) -> NoReply
      [] cmd.key.kind = "count" /\ cmd.op = "GET" -> [NoReply EXCEPT !.n = viewCounts[cmd.key.item]]
      [] cmd.key.kind = "set" /\ cmd.op = "SISMEMBER" ->
            [NoReply EXCEPT !.b = cmd.member \in itemViews[cmd.key.item]]
      [] OTHER -> [NoReply EXCEPT !.err = "wrongtype"]

\* executePipeline: Pipeline.Exec returns the first failed command's error,
\* of which redis.Nil is ignored.
executePipelineFails(replies) ==
    LET failed == {k \in DOMAIN replies : replies[k].err # "none"}
    IN failed # {} /\ replies[CHOOSE k \in failed : \A j \in failed : k <= j].err # "nil"

\* getViewCount: redis.Nil is a count of 0, another error is returned.
getViewCountFails(reply) == reply.err \notin {"none", "nil"}

\* buildItemsFromRedisResults over n items: the first count whose
\* getViewCount fails is returned as the error; getViewedStatus is the
\* SISMEMBER's Val(), false when it failed.
buildItemsFails(replies, n) == \E k \in 1..n : getViewCountFails(replies[k])
buildItemsFromRedisResults(replies, n) ==
    [k \in 1..n |-> [ViewCount |-> replies[k].n, Viewed |-> replies[n + k].b]]

-----------------------------------------------------------------------------
\* RecordView(itemID, userID): the INCR and the SADD of the transaction
\* run together, or the EXEC never reaches Redis and neither runs.
RecordView(u, i) ==
    /\ views < MaxViews /\ views' = views + 1
    /\ \/ /\ viewCounts' = [viewCounts EXCEPT ![i] = @ + 1]
          /\ itemViews' = [itemViews EXCEPT ![i] = @ \cup {u}]
       \/ UNCHANGED <<viewCounts, itemViews>>
    /\ UNCHANGED <<gPc, gIds, gCmds, gReplies, gErr, gResult, gStart, gEnd, getCalls,
                   netFaults>>

\* Mutant: the SISMEMBERs are queued on the count keys.
GetItemsViewedOnCountKeys(r, ids) ==
    /\ gPc[r] # "exec" /\ getCalls < MaxGets /\ getCalls' = getCalls + 1
    /\ gCmds' = [gCmds EXCEPT ![r] =
                    queueViewCountCommands(generateViewCountKeys(ids))
                    \o queueViewedCommands(generateViewCountKeys(ids), r)]
    /\ gIds' = [gIds EXCEPT ![r] = ids] /\ gReplies' = [gReplies EXCEPT ![r] = <<>>]
    /\ gStart' = [gStart EXCEPT ![r] = Counters] /\ gPc' = [gPc EXCEPT ![r] = "exec"]
    /\ UNCHANGED <<viewCounts, itemViews, views, gErr, gResult, gEnd, netFaults>>

\* GetItems(itemIDs, userID) queues the GETs, then the SISMEMBERs, and
\* sends the pipeline.
GetItems(r, ids) ==
    /\ gPc[r] # "exec" /\ getCalls < MaxGets /\ getCalls' = getCalls + 1
    /\ gCmds' = [gCmds EXCEPT ![r] =
                    queueViewCountCommands(generateViewCountKeys(ids))
                    \o queueViewedCommands(generateItemKeys(ids), r)]
    /\ gIds' = [gIds EXCEPT ![r] = ids] /\ gReplies' = [gReplies EXCEPT ![r] = <<>>]
    /\ gStart' = [gStart EXCEPT ![r] = Counters] /\ gPc' = [gPc EXCEPT ![r] = "exec"]
    /\ UNCHANGED <<viewCounts, itemViews, views, gErr, gResult, gEnd, netFaults>>

\* Redis runs the next command of the reader's pipeline.
RunCommand(r) ==
    /\ gPc[r] = "exec" /\ Len(gReplies[r]) < Len(gCmds[r])
    /\ gReplies' = [gReplies EXCEPT ![r] = Append(@, Reply(gCmds[r][Len(@) + 1]))]
    /\ UNCHANGED <<viewCounts, itemViews, views, gPc, gIds, gCmds, gErr, gResult, gStart,
                   gEnd, getCalls, netFaults>>

\* GetItems returns: with a network error, which may cut the pipeline at
\* any point, with executePipeline's error, with buildItemsFromRedisResults's
\* error, or with the items.
ReturnItems(r) ==
    /\ gPc[r] = "exec"
    /\ LET n == Len(gIds[r]) IN
       \/ /\ netFaults < MaxFaults /\ netFaults' = netFaults + 1
          /\ gErr' = [gErr EXCEPT ![r] = TRUE] /\ gResult' = [gResult EXCEPT ![r] = <<>>]
       \/ /\ Len(gReplies[r]) = Len(gCmds[r]) /\ UNCHANGED netFaults
          /\ gErr' = [gErr EXCEPT ![r] = executePipelineFails(gReplies[r])
                                         \/ buildItemsFails(gReplies[r], n)]
          /\ gResult' = [gResult EXCEPT ![r] =
                            IF gErr'[r] THEN <<>> ELSE buildItemsFromRedisResults(gReplies[r], n)]
    /\ gEnd' = [gEnd EXCEPT ![r] = Counters] /\ gPc' = [gPc EXCEPT ![r] = "done"]
    /\ UNCHANGED <<viewCounts, itemViews, views, gIds, gCmds, gReplies, gStart, getCalls>>

Terminated ==
    /\ views = MaxViews /\ getCalls = MaxGets /\ \A r \in Readers : gPc[r] # "exec"
    /\ UNCHANGED vars

Next ==
    \/ \E u \in Users, i \in Items : RecordView(u, i)
    \/ \E r \in Readers, ids \in Lists : GetItems(r, ids)
    \/ \E r \in Readers : RunCommand(r) \/ ReturnItems(r)
    \/ Terminated

Spec == Init /\ [][Next]_vars

-----------------------------------------------------------------------------
\* Every item GetItems returns without error was read between the call and
\* the return: its ViewCount counts every view recorded before the call and
\* none recorded after the return, it is Viewed if the user had viewed it
\* before the call, and only if the user had viewed it by the return.  The
\* pipeline's GETs and SISMEMBERs run among other clients' RecordView
\* transactions, and the replies must be paired with the right item.
ReadsWithinCall ==
    \A r \in Readers : gPc[r] = "done" /\ ~gErr[r] =>
        \A k \in DOMAIN gIds[r] :
            LET i == gIds[r][k]
                item == gResult[r][k]
            IN /\ gStart[r].c[i] <= item.ViewCount /\ item.ViewCount <= gEnd[r].c[i]
               /\ r \in gStart[r].v[i] => item.Viewed
               /\ item.Viewed => r \in gEnd[r].v[i]
====
