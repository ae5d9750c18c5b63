------------------------------ MODULE MCLibrary ------------------------------
(***************************************************************************)
(* Eleven components that share no state: the LRU cache, the              *)
(* consistent-hash ring, once.Once, the ledger, tparallel, the Forth       *)
(* evaluator, externalsort.Sort, hotelbusiness.ComputeLoad, varfmt.Sprintf,*)
(* retryupdate.UpdateValue and the shopfront counters.  One run checks all *)
(* eleven: each behaviour picks one of them in its first state and drives  *)
(* only that one, so the state space is the sum of them.                  *)
(***************************************************************************)
EXTENDS Integers, Sequences, TLC

CONSTANTS k1, k2, k3, v1, v2, n1, n2, n3, nil, p1, p2, p3, g1, g2, g3,
          ta, tb1, tb2, tc, troot

VARIABLES
    comp,
    capacity, cache, usages, lruClock, touch, lastVal, ranged,
    hashRing, hashToNode, added, lastGet, hashClock,
    runner, done, fRuns, fState, calls, pc,
    exists, balance, lock, ledgerPc, req, rows, ledgerCalls, net,
    body, pos, tpPc, parallel, children, stop, jix, crashed,
    stack, words, result, errored, nProcess, refStack, refDefs, refOk,
    file, lineEnding, next, readIn, rpos, heap, out, sortPc,
    guests, totalLoads, hotelPc, format, sb, panicked, fmtPc,
    store, nextVer, oldVal, oldVersion, newVal, newVersion, ruPc, ruDone, ret,
    faults, writes, fnErrors, applied, otherWrote, count,
    viewCounts, itemViews, views, gPc, gIds, gCmds, gReplies, gErr, gResult, gStart,
    gEnd, getCalls, netFaults

lruVars == <<capacity, cache, usages, lruClock, touch, lastVal, ranged>>
hashVars == <<hashRing, hashToNode, added, lastGet, hashClock>>
onceVars == <<runner, done, fRuns, fState, calls, pc>>
ledgerVars == <<exists, balance, lock, ledgerPc, req, rows, ledgerCalls, net>>
tpVars == <<body, pos, tpPc, parallel, children, stop, jix, crashed>>
forthVars == <<stack, words, result, errored, nProcess, refStack, refDefs, refOk>>
sortVars == <<file, lineEnding, next, readIn, rpos, heap, out, sortPc>>
hotelVars == <<guests, totalLoads, hotelPc>>
fmtVars == <<format, sb, panicked, fmtPc>>
ruVars == <<store, nextVer, oldVal, oldVersion, newVal, newVersion, ruPc, ruDone,
           ret, faults, writes, fnErrors, applied, otherWrote, count>>
sfVars == <<viewCounts, itemViews, views, gPc, gIds, gCmds, gReplies, gErr, gResult,
           gStart, gEnd, getCalls, netFaults>>
vars == <<comp, lruVars, hashVars, onceVars, ledgerVars, tpVars, forthVars, sortVars,
          hotelVars, fmtVars, ruVars, sfVars>>

\* LRU caches of capacity 0 and 2 over three keys and two values: eviction,
\* update of a present key and Clear are all reached in seven calls.
L == INSTANCE LRUCache
        WITH Caps <- {0, 2}, Keys <- {k1, k2, k3}, Values <- {v1, v2},
             MaxOps <- 7, clock <- lruClock

\* Three nodes of two virtual nodes each, interleaved on the ring; key
\* hashes below the first hash, equal to a virtual node's hash, and above
\* the last hash (the wrap).
MCVHash == [n \in {n1, n2, n3} |->
               CASE n = n1 -> <<1, 4>> [] n = n2 -> <<2, 6>> [] n = n3 -> <<3, 5>>]
MCKeyHash == [k \in {k1, k2, k3} |->
               CASE k = k1 -> 0 [] k = k2 -> 4 [] k = k3 -> 7]

H == INSTANCE ConsistentHash
        WITH Nodes <- {n1, n2, n3}, Replicas <- 2, VHash <- MCVHash,
             Keys <- {k1, k2, k3}, KeyHash <- MCKeyHash, NoNode <- nil,
             MaxOps <- 7, clock <- hashClock

\* Three goroutines making two Do calls each; f may panic.
O == INSTANCE Once WITH Procs <- {p1, p2, p3}, Calls <- 2, FPanics <- TRUE

\* Three goroutines on a ledger of accounts 1 and 2 (balance 1 each) and
\* account 3, which g3 may create.  g1 and g2 may transfer in opposite
\* directions; the calls also reach every error path: a negative amount,
\* a missing account, from = to, and too little money.
LReq == [g \in {g1, g2, g3} |->
           LET Call(kind, from, to, amount) ==
                 [kind |-> kind, from |-> from, to |-> to, amount |-> amount]
           IN CASE g = g1 -> {Call("transfer", 1, 2, 1), Call("transfer", 1, 1, 1),
                              Call("withdraw", 1, 2, 2)}
                [] g = g2 -> {Call("transfer", 2, 1, 1), Call("deposit", 3, 3, 1),
                              Call("deposit", 1, 1, -1)}
                [] g = g3 -> {Call("create", 3, 3, 0), Call("balance", 1, 1, 0),
                              Call("withdraw", 2, 2, 1), Call("transfer", 2, 3, 1)}]

D == INSTANCE Ledger
        WITH Clients <- {g1, g2, g3}, Accounts <- {1, 2, 3},
             InitBal <- (1 :> 1 @@ 2 :> 1 @@ 3 :> -1), Requests <- LReq,
             Calls <- 1, NoClient <- nil, pc <- ledgerPc, calls <- ledgerCalls

\* Top tests ta and tc; ta runs tb1 and tb2, or tb1 alone, both parallel
\* (tb2 may call Parallel twice); tc is parallel or sequential.
TPTests == {ta, tb1, tb2, tc}
T == INSTANCE TParallel
        WITH Tests <- TPTests, Root <- troot, Top <- <<ta, tc>>,
             Parent <- [t \in TPTests |-> IF t \in {tb1, tb2} THEN ta ELSE troot],
             Scripts <- [t \in TPTests |->
                           CASE t = ta -> {<<tb1, tb2>>, <<tb1>>}
                             [] t = tb1 -> {<<"par">>}
                             [] t = tb2 -> {<<"par">>, <<"par", "par">>}
                             [] t = tc -> {<<"par">>, <<>>}],
             pc <- tpPc

\* Three Process calls on one evaluator, each one of these rows: a word
\* redefined after another word named it, a base word redefined in terms
\* of itself, truncating division of a negative number, and every error
\* path (underflow, division by zero, an undefined word, a definition
\* that is cut short, names a number or lacks its ";").
ForthRows == {
    <<":", "foo", "1", ";", ":", "bar", "foo", "dup", ";", ":", "foo", "2", ";", "bar", "foo">>,
    <<"1", "2", "swap", "over", "-">>,
    <<"2", "0", "/">>,
    <<"1", "2", "-", "2", "/">>,
    <<":", "dup", "dup", "dup", ";", "1", "dup">>,
    <<"drop", "1">>,
    <<":", "foo", "1">>,
    <<":", "1", "2", ";">>,
    <<"foo", "*">>,
    <<":">>}

F == INSTANCE Forth WITH Rows <- ForthRows, MaxCalls <- 3

\* Three input files, each one of eleven contents over the bytes a, b, \r
\* and \n: "\n" and "\r\n" endings, more of either, as many of both (the
\* detection's tie), no ending at all, no final ending, empty lines, a
\* final "\r", and the empty file.
XA == 97
XB == 98
SortContents ==
    LET LF == 10 CR == 13
    IN {<<XB, LF, XA, LF>>, <<XB, CR, LF, XA, CR, LF>>, <<XA, CR, LF, XB, LF>>,
        <<XB>>, <<>>, <<LF, XA, CR>>, <<XB, LF, XA>>, <<CR, LF, LF>>,
        <<XA, CR, CR, LF, CR>>, <<CR>>, <<XB, CR, LF, XA>>}

X == INSTANCE ExternalSort WITH N <- 3, Contents <- SortContents

\* Every list of up to three guests with days 0..2: stays that overlap,
\* touch (one leaves the day another arrives) or are empty (in = out).
HB == INSTANCE HotelBusiness WITH Days <- 0..2, MaxGuests <- 3

\* Every format of up to five characters over braces, digits, a sign and a
\* letter, with two arguments of one and two characters.
V == INSTANCE VarFmt
        WITH Chars <- {"{", "}", "0", "1", "-", "x"}, MaxLen <- 5,
             Args <- <<<<"A">>, <<"B", "C">>>>

\* Two UpdateValue calls; two faults (a transient error, an AuthError or a
\* lost Set response), two writes or deletes by another client, and one
\* failing updateFn: enough for a lost response to meet a delete or a write.
RU == INSTANCE RetryUpdate
        WITH Calls <- 2, MaxFaults <- 2, MaxWrites <- 2, MaxFnErrors <- 1,
             done <- ruDone

\* Two users, one of whom calls GetItems twice for both items; two
\* RecordView calls and one network error: enough for a view to land
\* between the GETs and the SISMEMBERs of a pipeline.
SF == INSTANCE Shopfront
        WITH Users <- {"ann", "bob"}, Readers <- {"ann"}, Items <- {1, 2},
             Lists <- {<<1, 2>>}, MaxViews <- 2, MaxGets <- 2, MaxFaults <- 1

Comps == {"lru", "hash", "once", "ledger", "tparallel", "forth", "xsort", "hotel", "varfmt",
          "retryupdate", "shopfront"}

\* The initial choices of a component (LRU capacity, the inputs, the tests' bodies)
\* are fixed in the behaviours of the others.
Init ==
    /\ comp \in Comps
    /\ comp # "lru" => capacity = 0
    /\ comp # "xsort" => file = [f \in 1..3 |-> <<>>]
    /\ comp # "hotel" => guests = <<>>
    /\ comp # "varfmt" => format = <<>>
    /\ L!Init /\ H!Init /\ O!Init /\ D!Init /\ T!Init /\ F!Init /\ X!Init /\ HB!Init /\ V!Init /\ RU!Init /\ SF!Init
    /\ comp # "tparallel" => body[ta] = <<tb1>> /\ body[tb2] = <<"par">> /\ body[tc] = <<>>

Next ==
    \/ comp = "lru" /\ L!Next /\ UNCHANGED <<comp, hashVars, onceVars, ledgerVars, tpVars, forthVars, sortVars, hotelVars, fmtVars, ruVars, sfVars>>
    \/ comp = "hash" /\ H!Next /\ UNCHANGED <<comp, lruVars, onceVars, ledgerVars, tpVars, forthVars, sortVars, hotelVars, fmtVars, ruVars, sfVars>>
    \/ comp = "once" /\ O!Next /\ UNCHANGED <<comp, lruVars, hashVars, ledgerVars, tpVars, forthVars, sortVars, hotelVars, fmtVars, ruVars, sfVars>>
    \/ comp = "ledger" /\ D!Next /\ UNCHANGED <<comp, lruVars, hashVars, onceVars, tpVars, forthVars, sortVars, hotelVars, fmtVars, ruVars, sfVars>>
    \/ comp = "tparallel" /\ T!Next /\ UNCHANGED <<comp, lruVars, hashVars, onceVars, ledgerVars, forthVars, sortVars, hotelVars, fmtVars, ruVars, sfVars>>
    \/ comp = "forth" /\ F!Next /\ UNCHANGED <<comp, lruVars, hashVars, onceVars, ledgerVars, tpVars, sortVars, hotelVars, fmtVars, ruVars, sfVars>>
    \/ comp = "xsort" /\ X!Next /\ UNCHANGED <<comp, lruVars, hashVars, onceVars, ledgerVars, tpVars, forthVars, hotelVars, fmtVars, ruVars, sfVars>>
    \/ comp = "hotel" /\ HB!Next /\ UNCHANGED <<comp, lruVars, hashVars, onceVars, ledgerVars, tpVars, forthVars, sortVars, fmtVars, ruVars, sfVars>>
    \/ comp = "varfmt" /\ V!Next /\ UNCHANGED <<comp, lruVars, hashVars, onceVars, ledgerVars, tpVars, forthVars, sortVars, hotelVars, ruVars, sfVars>>
    \/ comp = "retryupdate" /\ RU!Next /\ UNCHANGED <<comp, lruVars, hashVars, onceVars, ledgerVars, tpVars, forthVars, sortVars, hotelVars, fmtVars, sfVars>>
    \/ comp = "shopfront" /\ SF!Next /\ UNCHANGED <<comp, lruVars, hashVars, onceVars, ledgerVars, tpVars, forthVars, sortVars, hotelVars, fmtVars, ruVars>>

\* The fair actions of Once and Ledger are disabled in their initial
\* states, so each fairness constrains only the behaviours that drive it.
Spec == Init /\ [][Next]_vars /\ O!Fairness /\ D!Fairness

TypeOK ==
    comp \in Comps /\ L!TypeOK /\ H!TypeOK /\ T!TypeOK /\ F!TypeOK /\ X!TypeOK /\ HB!TypeOK /\ V!TypeOK /\ RU!TypeOK /\ SF!TypeOK

\* See LRUCache: the map and list agree with least-recently-used order.
ImplementsLRU == L!ImplementsLRU

\* See LRUCache: Range visits from the least recently used key.
RangeVisitsLeastRecentFirst ==
    L!RangeVisitsLeastRecentFirst

\* See ConsistentHash: ring and map hold exactly the live virtual nodes.
RingMatchesNodes == H!RingMatchesNodes

\* See ConsistentHash: GetNode returns the key's owner on the ring.
GetNodeReturnsOwner == H!GetNodeReturnsOwner

\* See Once: f starts at most once and no Do returns before f finished.
ExactlyOnceBeforeReturn == O!ExactlyOnceBeforeReturn

\* See Once: every Do call returns or panics with f.
DoReturns == O!DoReturns

\* See Ledger: Transfers never wait for each other's row locks.
NoLockCycle == D!NoLockCycle

\* See Ledger: committed balances add up to deposits less withdrawals.
MoneyConserved == D!MoneyConserved

\* See Ledger: every call returns.
EveryCallReturns == D!EveryCallReturns

\* See TParallel: a parallel test resumes only after its parent's body.
ParallelAfterParentBody == T!ParallelAfterParentBody

\* See TParallel: a sequential test runs while its parent waits for it.
SequentialHoldsParent == T!SequentialHoldsParent

\* See Forth: Process agrees with the reference interpreter while no row
\* has failed, words bound when they are defined.
ProcessMatchesReference == F!ProcessMatchesReference

\* See ExternalSort: Sort's output is sorted and holds every input line.
SortOutputsEveryLine == X!SortOutputsEveryLine

\* See HotelBusiness: ComputeLoad's result is the run-length encoded
\* occupancy.
LoadIsOccupancy == HB!LoadIsOccupancy

\* See VarFmt: Sprintf substitutes the groups of the format's grammar and
\* panics exactly on the malformed ones.
SprintfMatchesGrammar == V!SprintfMatchesGrammar

\* See RetryUpdate: UpdateValue is a read-modify-write, applied exactly
\* once when no other client interferes.
UpdateIsReadModifyWrite == RU!UpdateIsReadModifyWrite

\* See Shopfront: every item GetItems returns was read between its call and
\* its return, and paired with the right item.
ReadsWithinCall == SF!ReadsWithinCall

====
