--------------------------- MODULE ConsistentHash ---------------------------
(***************************************************************************)
(* consistenthash.ConsistentHash (src/consistenthash/consistenthash.go,    *)
(* hash_utils.go): a sorted slice of virtual-node hashes and a map from    *)
(* each hash to its node.  AddNode and RemoveNode hold the write lock and  *)
(* GetNode the read lock for the whole call, so calls from any number of   *)
(* goroutines are atomic steps in some order: one client stands for all.   *)
(*                                                                         *)
(* hashKey (sha256, first four bytes) is abstracted to two tables: VHash   *)
(* gives the hashes of a node's virtual nodes "id#0" ... "id#R-1", KeyHash *)
(* the hash of a key.  Slices are 0-indexed in Go; hashRing[i+1] here is  *)
(* the Go hashRing[i].                                                     *)
(***************************************************************************)
EXTENDS Naturals, Sequences, FiniteSets

SX == INSTANCE SequencesExt

CONSTANTS
    Nodes,     \* the nodes the client adds and removes
    Replicas,  \* h.virtualReplicas
    VHash,     \* VHash[n][i + 1]: hashKey(generateVirtualNodeID(n.ID(), i))
    Keys,      \* the keys the client looks up
    KeyHash,   \* KeyHash[k]: hashKey(k)
    NoNode,    \* a nil *N
    MaxOps     \* calls the client makes

Hashes == UNION {SX!ToSet(VHash[n]) : n \in Nodes} \cup SX!ToSet(KeyHash)

VARIABLES
    hashRing,    \* h.hashRing
    hashToNode,  \* h.hashToNode; NoNode where the map has no entry
    added,       \* the nodes added and not removed since
    lastGet,     \* [key, node]: the last GetNode call and its result
    clock        \* calls made so far

vars == <<hashRing, hashToNode, added, lastGet, clock>>

TypeOK ==
    /\ hashRing \in Seq(Hashes)
    /\ hashToNode \in [Hashes -> Nodes \cup {NoNode}]
    /\ added \subseteq Nodes
    /\ lastGet \in [key : Keys \cup {NoNode}, node : Nodes \cup {NoNode}]
    /\ clock \in 0..MaxOps

\* New()
Init ==
    /\ hashRing = <<>>
    /\ hashToNode = [h \in Hashes |-> NoNode]
    /\ added = {}
    /\ lastGet = [key |-> NoNode, node |-> NoNode]
    /\ clock = 0

-----------------------------------------------------------------------------
(* hash_utils.go, on 0-based indices.                                      *)

\* findInsertionIndex: sort.Search(len, slice[i] >= value), the least
\* index whose element is >= value, or len when there is none.
FindInsertionIndex(s, v) ==
    SX!Min({i \in 0..Len(s) : i = Len(s) \/ s[i + 1] >= v})

\* Mutant: past the last hash findClosestHash picks the last, not the first.
FindClosestHashNoWrap(ring, h) ==
    LET index == FindInsertionIndex(ring, h)
    IN IF index = Len(ring) THEN index - 1 ELSE index

\* findClosestHash: past the last hash the ring wraps to index 0.
FindClosestHash(ring, h) ==
    LET index == FindInsertionIndex(ring, h)
    IN IF index = Len(ring) THEN 0 ELSE index

\* insertInOrder: extend by one, shift the tail right, store at index.
InsertInOrder(s, v) == SX!InsertAt(s, FindInsertionIndex(s, v) + 1, v)

\* isValueAt
IsValueAt(s, index, v) == index < Len(s) /\ s[index + 1] = v

\* Mutant: removeFromOrder drops the element at the index unchecked.
RemoveFromOrderUnchecked(s, v) ==
    LET index == FindInsertionIndex(s, v)
    IN IF index < Len(s) THEN SX!RemoveAt(s, index + 1) ELSE s

\* removeFromOrder: remove the value at its insertion index, if it is there.
RemoveFromOrder(s, v) ==
    LET index == FindInsertionIndex(s, v)
    IN IF IsValueAt(s, index, v) THEN SX!RemoveAt(s, index + 1) ELSE s

\* addHashToRing and removeHashFromRing, on a record of the two fields.
AddHashToRing(st, h, n) ==
    [ring |-> InsertInOrder(st.ring, h), owner |-> [st.owner EXCEPT ![h] = n]]
RemoveHashFromRing(st, h) ==
    [ring |-> RemoveFromOrder(st.ring, h), owner |-> [st.owner EXCEPT ![h] = NoNode]]

\* The loops of AddNode and RemoveNode over replicas i, i+1, ...
RECURSIVE AddReplicas(_, _, _), RemoveReplicas(_, _, _)
AddReplicas(st, n, i) ==
    IF i = Replicas THEN st
    ELSE AddReplicas(AddHashToRing(st, VHash[n][i + 1], n), n, i + 1)
RemoveReplicas(st, n, i) ==
    IF i = Replicas THEN st
    ELSE RemoveReplicas(RemoveHashFromRing(st, VHash[n][i + 1]), n, i + 1)

State == [ring |-> hashRing, owner |-> hashToNode]

-----------------------------------------------------------------------------
Call == clock < MaxOps /\ clock' = clock + 1

\* AddNode(node), by a client that adds a node only while it is not on the
\* ring: a second AddNode of the same node is outside the model (see the
\* README).
AddNode(n) ==
    /\ Call /\ n \notin added
    /\ LET st == AddReplicas(State, n, 0)
       IN hashRing' = st.ring /\ hashToNode' = st.owner
    /\ added' = added \cup {n}
    /\ UNCHANGED lastGet

\* RemoveNode(node), of any node, on the ring or not.
RemoveNode(n) ==
    /\ Call
    /\ LET st == RemoveReplicas(State, n, 0)
       IN hashRing' = st.ring /\ hashToNode' = st.owner
    /\ added' = added \ {n}
    /\ UNCHANGED lastGet

\* GetNode(key): nil on an empty ring, else the owner of the closest hash.
GetNode(k) ==
    /\ Call
    /\ lastGet' = [key |-> k,
                   node |-> IF Len(hashRing) = 0 THEN NoNode
                            ELSE hashToNode[hashRing[FindClosestHash(hashRing, KeyHash[k]) + 1]]]
    /\ UNCHANGED <<hashRing, hashToNode, added>>

Done == clock = MaxOps /\ UNCHANGED vars

Next ==
    \/ \E n \in Nodes : AddNode(n) \/ RemoveNode(n)
    \/ \E k \in Keys : GetNode(k)
    \/ Done

Spec == Init /\ [][Next]_vars

-----------------------------------------------------------------------------
\* Reference: the node that owns a key is the node of the first virtual
\* node clockwise from the key's hash, wrapping past the largest hash.
LiveHashes == UNION {SX!ToSet(VHash[n]) : n \in added}
Owner(h) == CHOOSE n \in added : h \in SX!ToSet(VHash[n])
RefNode(k) ==
    IF added = {} THEN NoNode
    ELSE LET above == {h \in LiveHashes : h >= KeyHash[k]}
         IN Owner(IF above # {} THEN SX!Min(above) ELSE SX!Min(LiveHashes))

\* The ring is the sorted slice of exactly the live nodes' hashes, and the
\* map sends each of them, and only them, to its node.
RingMatchesNodes ==
    /\ \A i \in 1..(Len(hashRing) - 1) : hashRing[i] < hashRing[i + 1]
    /\ SX!ToSet(hashRing) = LiveHashes
    /\ \A h \in Hashes : hashToNode[h] = IF h \in LiveHashes THEN Owner(h) ELSE NoNode

\* GetNode returns the node of the first virtual node at or after the
\* key's hash on the ring, wrapping to the first one, and nil only when
\* no node is on the ring.
GetNodeReturnsOwner ==
    [][lastGet' # lastGet => lastGet'.node = RefNode(lastGet'.key)]_vars
====
