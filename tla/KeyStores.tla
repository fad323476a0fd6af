----------------------------- MODULE KeyStores ------------------------------
(*****************************************************************************)
(* Keys and where they are kept: the tree of bplustree and the shards of     *)
(* shardkv. The parts share no state; each has its own specification.        *)
(*****************************************************************************)
EXTENDS Integers, Sequences, FiniteSets, SequencesExt

(***************************************************************************)
(* bplustree: nodes with parent, child and sibling pointers, insertion     *)
(* with splits that climb, deletion with borrowing and merging that climb, *)
(* range scans along the chain of leaves and an iterator that deletes.     *)
(* Node 0 is nil; a node no longer in the tree is free again.              *)
(* Nodes are numbered afresh after every operation: addresses mean nothing.*)
(***************************************************************************)

CONSTANTS
    Key,        \* 1 .. n
    Values,     \* key -> the values it may be given
    MaxKeys,    \* keys of a node, an even number
    MaxNodes

VARIABLES
    h,          \* the heap: [n: node -> its fields, root, count]
    it,         \* the iterator
    content     \* what was put and not deleted: key -> value, or 0

treeVars == <<h, it, content>>

Node == 1 .. MaxNodes
minKeys == (MaxKeys + 1) \div 2
Free == [leaf |-> TRUE, keys |-> <<>>, vals |-> <<>>, kids |-> <<>>, parent |-> 0, next |-> 0, prev |-> 0]
Used(n) == n # Free
NoIter == [node |-> 0, index |-> 0, key |-> 0, valid |-> FALSE]

TreeTypeOK ==
    /\ DOMAIN h.n = Node /\ h.root \in Node /\ h.count \in 0 .. Cardinality(Key)
    /\ \A x \in Node : /\ Len(h.n[x].keys) <= MaxKeys
                       /\ {h.n[x].parent, h.n[x].next, h.n[x].prev} \subseteq 0 .. MaxNodes
    /\ it.node \in 0 .. MaxNodes

-----------------------------------------------------------------------------
(* The number of leading keys below k, and of those not above it *)
Below(keys, k) == CHOOSE i \in 0 .. Len(keys) : (\A j \in 1 .. i : keys[j] < k) /\ (i < Len(keys) => keys[i + 1] >= k)
UpTo(keys, k) == CHOOSE i \in 0 .. Len(keys) : (\A j \in 1 .. i : keys[j] <= k) /\ (i < Len(keys) => keys[i + 1] > k)

RECURSIVE Descend(_, _, _)
Descend(g, x, k) == IF g.n[x].leaf THEN x ELSE Descend(g, g.n[x].kids[UpTo(g.n[x].keys, k) + 1], k)
findLeaf(g, k) == Descend(g, g.root, k)
findNodeIndex(g, x) == CHOOSE i \in DOMAIN g.n[g.n[x].parent].kids : g.n[g.n[x].parent].kids[i] = x

Fresh(g) == CHOOSE x \in Node : ~ Used(g.n[x]) /\ x # g.root /\ \A y \in 1 .. x - 1 : Used(g.n[y]) \/ y = g.root
Set(g, f) == [g EXCEPT !.n = [x \in Node |-> IF x \in DOMAIN f THEN f[x] ELSE g.n[x]]]
Adopt(g, kids, p) == [g EXCEPT !.n = [x \in Node |-> IF \E i \in DOMAIN kids : kids[i] = x THEN [g.n[x] EXCEPT !.parent = p] ELSE g.n[x]]]
(* a.next := b, b.prev := a *)
Link(g, a, b) == [g EXCEPT !.n = [x \in Node |-> IF x = a THEN [g.n[x] EXCEPT !.next = b]
                                                 ELSE IF x = b THEN [g.n[x] EXCEPT !.prev = a] ELSE g.n[x]]]

(* The nodes in the order of a walk, and the heap with them as 1, 2, ... *)
RECURSIVE TreeWalk(_, _)
TreeWalk(g, x) == <<x>> \o FlattenSeq([i \in DOMAIN g.n[x].kids |-> TreeWalk(g, g.n[x].kids[i])])
Rename(w) == [x \in 0 .. MaxNodes |-> IF \E i \in DOMAIN w : w[i] = x THEN CHOOSE i \in DOMAIN w : w[i] = x ELSE 0]
Renumber(g, w, to) ==
    [n |-> [x \in Node |-> IF x > Len(w) THEN Free
                           ELSE [g.n[w[x]] EXCEPT !.kids = [i \in DOMAIN @ |-> to[@[i]]], !.parent = to[@], !.next = to[@], !.prev = to[@]]],
     root |-> 1, count |-> g.count]
Canon(g) == Renumber(g, TreeWalk(g, g.root), Rename(TreeWalk(g, g.root)))

Lo(s, n) == SubSeq(s, 1, n)
Hi(s, n) == SubSeq(s, n + 1, Len(s))

-----------------------------------------------------------------------------
(* Insertion *)
RECURSIVE insertIntoParent(_, _, _, _)

(* Splits of node x into x and r; the middle key goes to the parent. *)
SplitInternal(g, x, r, mid) ==
    Adopt([g EXCEPT !.n[x].keys = Lo(@, mid), !.n[x].kids = Lo(@, mid + 1),
                    !.n[r] = [Free EXCEPT !.leaf = FALSE, !.keys = Hi(g.n[x].keys, mid + 1),
                                          !.kids = Hi(g.n[x].kids, mid + 1), !.parent = g.n[x].parent]],
          Hi(g.n[x].kids, mid + 1), r)
splitInternal(g, x, mid) ==
    insertIntoParent(SplitInternal(g, x, Fresh(g), mid), x, g.n[x].keys[mid + 1], Fresh(g))

SplitLeaf(g, x, r, mid) ==
    Link(Link([g EXCEPT !.n[x].keys = Lo(@, mid), !.n[x].vals = Lo(@, mid),
                        !.n[r] = [Free EXCEPT !.keys = Hi(g.n[x].keys, mid), !.vals = Hi(g.n[x].vals, mid)]],
              r, g.n[x].next), x, r)
splitLeaf(g, x) ==
    insertIntoParent(SplitLeaf(g, x, Fresh(g), Len(g.n[x].keys) \div 2), x, g.n[x].keys[Len(g.n[x].keys) \div 2 + 1], Fresh(g))

NewRoot(g, l, k, r, x) ==
    [Adopt([g EXCEPT !.n[x] = [Free EXCEPT !.leaf = FALSE, !.keys = <<k>>, !.kids = <<l, r>>]], <<l, r>>, x) EXCEPT !.root = x]
PutChild(g, p, i, k, r) ==
    [g EXCEPT !.n[p].keys = InsertAt(@, i + 1, k), !.n[p].kids = InsertAt(@, i + 2, r), !.n[r].parent = p]
Overfull(g, x) == Len(g.n[x].keys) > MaxKeys
SplitIfFull(g, x) == IF Overfull(g, x) THEN splitInternal(g, x, Len(g.n[x].keys) \div 2) ELSE g
insertIntoParent(g, l, k, r) ==
    IF g.n[l].parent = 0 THEN NewRoot(g, l, k, r, Fresh(g))
    ELSE SplitIfFull(PutChild(g, g.n[l].parent, Below(g.n[g.n[l].parent].keys, k), k, r), g.n[l].parent)

PutAt(g, x, i, k, v) ==
    IF i < Len(g.n[x].keys) /\ g.n[x].keys[i + 1] = k THEN [g EXCEPT !.n[x].vals[i + 1] = v]
    ELSE [g EXCEPT !.n[x].keys = InsertAt(@, i + 1, k), !.n[x].vals = InsertAt(@, i + 1, v), !.count = @ + 1]
SplitLeafIfFull(g, x) == IF Overfull(g, x) THEN splitLeaf(g, x) ELSE g
Inserted(g, x, k, v) == SplitLeafIfFull(PutAt(g, x, Below(g.n[x].keys, k), k, v), x)

Insert(k, v) ==
    /\ h' = Canon(Inserted(h, findLeaf(h, k), k, v))
    /\ content' = [content EXCEPT ![k] = v]
    /\ it' = NoIter

-----------------------------------------------------------------------------
(* Deletion *)
RECURSIVE removeChildFromInternal(_, _, _, _, _)

(* borrowing between siblings l and r, the i-th and next child of p *)
BorrowFromLeftLeaf(g, l, r, p, i) ==
    [g EXCEPT !.n[l].keys = Lo(@, Len(@) - 1), !.n[l].vals = Lo(@, Len(@) - 1),
              !.n[r].keys = <<Last(g.n[l].keys)>> \o @, !.n[r].vals = <<Last(g.n[l].vals)>> \o @,
              !.n[p].keys[i] = Last(g.n[l].keys)]
BorrowFromRightLeaf(g, l, r, p, i) ==
    [g EXCEPT !.n[r].keys = Hi(@, 1), !.n[r].vals = Hi(@, 1),
              !.n[l].keys = Append(@, g.n[r].keys[1]), !.n[l].vals = Append(@, g.n[r].vals[1]),
              !.n[p].keys[i] = g.n[r].keys[2]]
BorrowFromLeftInternal(g, l, r, p, i) ==
    Adopt([g EXCEPT !.n[l].keys = Lo(@, Len(@) - 1), !.n[l].kids = Lo(@, Len(@) - 1),
                    !.n[r].keys = <<g.n[p].keys[i]>> \o @, !.n[r].kids = <<Last(g.n[l].kids)>> \o @,
                    !.n[p].keys[i] = Last(g.n[l].keys)], <<Last(g.n[l].kids)>>, r)
BorrowFromRightInternal(g, l, r, p, i) ==
    Adopt([g EXCEPT !.n[r].keys = Hi(@, 1), !.n[r].kids = Hi(@, 1),
                    !.n[l].keys = Append(@, g.n[p].keys[i]), !.n[l].kids = Append(@, g.n[r].kids[1]),
                    !.n[p].keys[i] = g.n[r].keys[1]], <<g.n[r].kids[1]>>, l)

(* r is merged into l and removed from p. *)
MergeLeaves(g, l, r, p, i) ==
    Link([g EXCEPT !.n[l].keys = @ \o g.n[r].keys, !.n[l].vals = @ \o g.n[r].vals, !.n[r] = Free], l, g.n[r].next)
MergeInternal(g, l, r, p, i) ==
    Adopt([g EXCEPT !.n[l].keys = (Append(@, g.n[p].keys[i])) \o g.n[r].keys, !.n[l].kids = @ \o g.n[r].kids, !.n[r] = Free],
          g.n[r].kids, l)

Rich(g, x) == x # 0 /\ Len(g.n[x].keys) > minKeys
LeftOf(g, p, i) == IF i > 1 THEN g.n[p].kids[i - 1] ELSE 0
RightOf(g, p, i) == IF i < Len(g.n[p].kids) THEN g.n[p].kids[i + 1] ELSE 0
(* For leaves the siblings are the neighbours in the chain with the same parent. *)
Near(g, p, y) == IF y # 0 /\ g.n[y].parent = p THEN y ELSE 0

rebalanceLeaf(g, x, p, i, a, b) ==
    CASE Rich(g, a) -> BorrowFromLeftLeaf(g, a, x, p, i - 1)
      [] ~ Rich(g, a) /\ Rich(g, b) -> BorrowFromRightLeaf(g, x, b, p, i)
      [] ~ Rich(g, a) /\ ~ Rich(g, b) /\ a # 0 -> removeChildFromInternal(MergeLeaves(g, a, x, p, i - 1), p, i - 1, i, 0)
      [] a = 0 /\ ~ Rich(g, b) /\ b # 0 -> removeChildFromInternal(MergeLeaves(g, x, b, p, i), p, i, i + 1, 0)
      [] OTHER -> g
rebalanceInternal(g, x, p, i, a, b) ==
    CASE Rich(g, a) -> BorrowFromLeftInternal(g, a, x, p, i - 1)
      [] ~ Rich(g, a) /\ Rich(g, b) -> BorrowFromRightInternal(g, x, b, p, i)
      [] ~ Rich(g, a) /\ ~ Rich(g, b) /\ a # 0 -> removeChildFromInternal(MergeInternal(g, a, x, p, i - 1), p, i - 1, i, 0)
      [] a = 0 /\ ~ Rich(g, b) /\ b # 0 -> removeChildFromInternal(MergeInternal(g, x, b, p, i), p, i, i + 1, 0)
      [] OTHER -> g
RebalanceAt(g, x, p, i) == rebalanceInternal(g, x, p, i, LeftOf(g, p, i), RightOf(g, p, i))

(* A root left without keys gives way to its only child. *)
Shrink(g, p) ==
    IF Len(g.n[p].kids) = 1 /\ g.n[p].keys = <<>>
    THEN [[g EXCEPT !.n[g.n[p].kids[1]].parent = 0, !.root = g.n[p].kids[1]] EXCEPT !.n[p] = Free] ELSE g
Settle(g, p) ==
    IF p = g.root THEN Shrink(g, p)
    ELSE IF Len(g.n[p].keys) < minKeys THEN RebalanceAt(g, p, g.n[p].parent, findNodeIndex(g, p)) ELSE g
removeChildFromInternal(g, p, keyIdx, childIdx, level) ==
    Settle([g EXCEPT !.n[p].keys = RemoveAt(@, keyIdx), !.n[p].kids = RemoveAt(@, childIdx)], p)

Separate(g, x, p, i) == IF i > 1 /\ g.n[x].keys # <<>> THEN [g EXCEPT !.n[p].keys[i - 1] = g.n[x].keys[1]] ELSE g
RebalanceIfPoor(g, x, p, i) ==
    IF Len(g.n[x].keys) < minKeys THEN rebalanceLeaf(g, x, p, i, Near(g, p, g.n[x].prev), Near(g, p, g.n[x].next)) ELSE g
AfterRemoval(g, x) ==
    IF x = g.root THEN g
    ELSE RebalanceIfPoor(Separate(g, x, g.n[x].parent, findNodeIndex(g, x)), x, g.n[x].parent, findNodeIndex(g, x))
deleteFromLeaf(g, x, i) ==
    AfterRemoval([g EXCEPT !.n[x].keys = RemoveAt(@, i), !.n[x].vals = RemoveAt(@, i), !.count = @ - 1], x)
Deleted(g, x, k) == deleteFromLeaf(g, x, Below(g.n[x].keys, k) + 1)
Has(g, x, k) == \E i \in DOMAIN g.n[x].keys : g.n[x].keys[i] = k

Delete(k) ==
    /\ h.count > 0 /\ Has(h, findLeaf(h, k), k)
    /\ h' = Canon(Deleted(h, findLeaf(h, k), k))
    /\ content' = [content EXCEPT ![k] = 0]
    /\ it' = NoIter

-----------------------------------------------------------------------------
(* Reading *)
Search(k) ==
    LET x == findLeaf(h, k)
    IN IF h.count > 0 /\ Has(h, x, k) THEN h.n[x].vals[Below(h.n[x].keys, k) + 1] ELSE 0

Scan[x \in 0 .. MaxNodes, i \in Nat, end \in Key] ==
    IF x = 0 THEN <<>>
    ELSE IF i > Len(h.n[x].keys) THEN Scan[h.n[x].next, 1, end]
    ELSE IF h.n[x].keys[i] > end THEN <<>>
    ELSE <<<<h.n[x].keys[i], h.n[x].vals[i]>>>> \o Scan[x, i + 1, end]
RangeScan(start, end) == IF h.count = 0 THEN <<>>
                         ELSE Scan[findLeaf(h, start), Below(h.n[findLeaf(h, start)].keys, start) + 1, end]

At(g, x, i) == [node |-> x, index |-> i, key |-> g.n[x].keys[i], valid |-> TRUE]
SeekFrom(g, x, i) == IF i <= Len(g.n[x].keys) THEN At(g, x, i)
                     ELSE IF g.n[x].next # 0 THEN At(g, g.n[x].next, 1) ELSE NoIter
Seek(g, k) == IF g.count = 0 THEN NoIter ELSE SeekFrom(g, findLeaf(g, k), Below(g.n[findLeaf(g, k)].keys, k) + 1)

NewIterator == it' = (IF h.count = 0 THEN NoIter ELSE At(h, Descend(h, h.root, 0), 1)) /\ UNCHANGED <<h, content>>
NewIteratorAt(k) == it' = Seek(h, k) /\ UNCHANGED <<h, content>>

Forward(g, i) ==
    IF i.index < Len(g.n[i.node].keys) THEN At(g, i.node, i.index + 1)
    ELSE IF g.n[i.node].next # 0 /\ g.n[g.n[i.node].next].keys # <<>> THEN At(g, g.n[i.node].next, 1)
    ELSE NoIter
Backward(g, i) ==
    IF i.index > 1 THEN At(g, i.node, i.index - 1)
    ELSE IF g.n[i.node].prev # 0 /\ g.n[g.n[i.node].prev].keys # <<>> THEN At(g, g.n[i.node].prev, Len(g.n[g.n[i.node].prev].keys))
    ELSE NoIter
IterNext == it.valid /\ it' = Forward(h, it) /\ UNCHANGED <<h, content>>
IterPrev == it.valid /\ it' = Backward(h, it) /\ UNCHANGED <<h, content>>

(* The iterator goes to what follows the deleted key, or back to the last. *)
Resume(g, k, before) == IF Seek(g, k).valid THEN Seek(g, k) ELSE IF before.valid THEN Seek(g, before.key) ELSE NoIter
IterDelete ==
    /\ it.valid
    /\ h' = Canon(Deleted(h, findLeaf(h, it.key), it.key))
    /\ it' = Resume(h', it.key, Backward(h, it))
    /\ content' = [content EXCEPT ![it.key] = 0]

TreeInit ==
    /\ h = [n |-> [x \in Node |-> Free], root |-> 1, count |-> 0]
    /\ it = NoIter
    /\ content = [k \in Key |-> 0]

TreeNext ==
    \/ \E k \in Key : (\E v \in Values[k] : Insert(k, v)) \/ Delete(k) \/ NewIteratorAt(k)
    \/ NewIterator \/ IterNext \/ IterPrev \/ IterDelete

-----------------------------------------------------------------------------
Live == {k \in Key : content[k] # 0}
Sorted(S) == SetToSortSeq(S, <)

(* Search and RangeScan answer from the tree and from the chain of leaves   *)
(* what the calls so far left there, for every key and every range.         *)
Answers ==
    /\ h.count = Cardinality(Live)
    /\ \A k \in Key : Search(k) = content[k]
    /\ \A a \in Key : \A b \in {x \in Key : x >= a} :
           LET keys == Sorted({k \in Live : a <= k /\ k <= b}) IN RangeScan(a, b) = [i \in DOMAIN keys |-> <<keys[i], content[keys[i]]>>]

RECURSIVE Depth(_)
Depth(x) == IF x = h.root THEN 0 ELSE 1 + Depth(h.n[x].parent)

(* Splits, borrowings and merges keep the tree balanced: all leaves at one  *)
(* depth, every node but the root at least half full, children and parent   *)
(* pointers matching, and one more child than keys in every inner node.     *)
Balanced ==
    LET used == {x \in Node : Used(h.n[x])}
    IN \A x \in used :
        /\ x # h.root => Len(h.n[x].keys) >= minKeys /\ x \in ToSet(h.n[h.n[x].parent].kids)
        /\ IF h.n[x].leaf THEN \A y \in used : h.n[y].leaf => Depth(x) = Depth(y)
           ELSE /\ Len(h.n[x].kids) = Len(h.n[x].keys) + 1
                /\ \A i \in DOMAIN h.n[x].kids : h.n[h.n[x].kids[i]].parent = x

(* Deleting through the iterator loses no place: it stands on the smallest  *)
(* key behind the deleted one, or on the largest left if there is none.     *)
DeleteStep ==
    it.valid /\ content'[it.key] = 0 /\ it' # NoIter =>
        LET live == {k \in Key : content'[k] # 0}
            behind == {k \in live : k > it.key}
        IN it'.key = IF behind # {} THEN CHOOSE k \in behind : \A j \in behind : k <= j
                     ELSE CHOOSE k \in live : \A j \in live : j <= k
DeletesInPlace == [][DeleteStep]_treeVars

-----------------------------------------------------------------------------
(***************************************************************************)
(* The sharded key-value cluster of internal/shardkv, seen by one key.     *)
(* Only the order in which the ring visits the shards from the key's place *)
(* matters, so the ring is a fixed order of the shards and the set of      *)
(* those that are in it.  A value is the number of its Put, 0 is absent.   *)
(* One client call and one administrative call may run at a time, each in  *)
(* the steps between which it holds no lock.                               *)
(***************************************************************************)

CONSTANTS
    Order,          \* the shards as the ring visits them
    First,          \* shards of the cluster at the start
    ReplicaCount, WriteQuorum,
    Overlap,        \* client calls run during administrative calls
    MaxPuts,        \* bound
    MaxAdmin        \* bound: administrative calls

Shard == ToSet(Order)

VARIABLES
    ring,           \* nodes of the hash ring
    shards,         \* registered shards
    status,         \* "up", "down" or "migrating"
    downShards,
    data,           \* [Shard -> version]
    call,           \* the client call: [op, val, todo, ok, gone]
    adm,            \* the administrative call: [op, s, todo]
    puts, admins,
    live,           \* a Put was acknowledged and no Delete was called since
    overload        \* at some time WriteQuorum shards were down, fewer than
                    \* ReplicaCount were up, or one was down at a change of the ring

shardVars == <<ring, shards, status, downShards, data, call, adm, puts, admins, live, overload>>

NoCall == [op |-> "none", val |-> 0, todo |-> {}, ok |-> 0, gone |-> 0]
NoAdm == [op |-> "none", s |-> Order[1], todo |-> {}]

ShardTypeOK ==
    /\ ring \subseteq shards /\ shards \subseteq Shard /\ ring # {}
    /\ status \in [Shard -> {"up", "down", "migrating"}]
    /\ downShards \subseteq shards /\ (adm.op = "none" => downShards = {s \in shards : status[s] = "down"})
    /\ data \in [Shard -> 0..MaxPuts]
    /\ call.op \in {"none", "put", "delete"} /\ call.todo \subseteq Shard /\ call.ok \in 0..Len(Order)
    /\ adm.op \in {"none", "add", "remove", "up"} /\ adm.s \in Shard /\ adm.todo \subseteq Shard
    /\ {live, overload} \subseteq BOOLEAN

(* GetReplicaNodes: the first n shards of the ring *)
ShardWalk == SelectSeq(Order, LAMBDA s : s \in ring)
GetReplicaNodes(n) == SubSeq(ShardWalk, 1, IF n < Len(ShardWalk) THEN n ELSE Len(ShardWalk))
Replicas == ToSet(GetReplicaNodes(ReplicaCount))

TooMany(S) == Cardinality(S) >= WriteQuorum \/ Cardinality(shards \ S) < ReplicaCount

(* getAvailableReplicaNodes: replicas that are not down, and others if they are too few *)
Available(s) == s \in shards /\ s \notin downShards
AvailableNodes ==
    LET base == {s \in Replicas : Available(s)}
        extra == SelectSeq(ShardWalk, LAMBDA s : s \notin Replicas /\ Available(s))
        need == WriteQuorum - Cardinality(base)
    IN IF need <= 0 THEN base
       ELSE base \cup ToSet(SubSeq(extra, 1, IF need < Len(extra) THEN need ELSE Len(extra)))

(***************************************************************************)
(* Put and Delete: the nodes are chosen, then written one by one by a      *)
(* goroutine each, then the answers are counted.                           *)
(***************************************************************************)
Begin(op, v) == call' = [op |-> op, val |-> v, todo |-> AvailableNodes, ok |-> 0, gone |-> 0]

PutBegin ==
    /\ call.op = "none" /\ (adm.op = "none" \/ Overlap) /\ puts < MaxPuts /\ AvailableNodes # {}
    /\ puts' = puts + 1
    /\ Begin("put", puts + 1)
    /\ UNCHANGED <<ring, shards, status, downShards, data, adm, admins, live, overload>>

DeleteBegin ==
    /\ call.op = "none" /\ (adm.op = "none" \/ Overlap) /\ AvailableNodes # {} /\ puts > 0
    /\ Begin("delete", 0)
    /\ live' = FALSE
    /\ UNCHANGED <<ring, shards, status, downShards, data, adm, puts, admins, overload>>

(* one goroutine: a shard that is gone or down by now is skipped *)
WriteNode(s) ==
    /\ s \in call.todo
    /\ LET skip == ~Available(s) \/ status[s] = "down"
           missing == call.op = "delete" /\ data[s] = 0
       IN /\ call' = [call EXCEPT !.todo = @ \ {s},
                                  !.ok = IF skip \/ missing THEN @ ELSE @ + 1,
                                  !.gone = IF ~skip /\ missing THEN @ + 1 ELSE @]
          /\ data' = IF skip THEN data ELSE [data EXCEPT ![s] = call.val]
    /\ UNCHANGED <<ring, shards, status, downShards, adm, puts, admins, live, overload>>

Acked == call.ok >= WriteQuorum

CallEnd ==
    /\ call.op # "none" /\ call.todo = {}
    /\ live' = (live \/ (call.op = "put" /\ Acked))
    /\ call' = NoCall
    /\ UNCHANGED <<ring, shards, status, downShards, data, adm, puts, admins, overload>>

(* Get walks on past shards that are down or do not have the key *)
Holders == {s \in ring : Available(s) /\ status[s] # "down" /\ data[s] # 0}
Get == IF Holders = {} THEN 0 ELSE data[CHOOSE s \in Holders : \A t \in Holders :
                                           (CHOOSE i \in DOMAIN Order : Order[i] = s) <= (CHOOSE i \in DOMAIN Order : Order[i] = t)]

Idle == adm.op = "none" /\ (call.op = "none" \/ Overlap)

(***************************************************************************)
(* AddShard: register, enter the ring, then visit the old shards.          *)
(***************************************************************************)
AddShard(s) ==
    /\ Idle /\ admins < MaxAdmin /\ s \notin shards
    /\ admins' = admins + 1
    /\ shards' = shards \cup {s} /\ ring' = ring \cup {s}
    /\ status' = [status EXCEPT ![s] = "up"] /\ data' = [data EXCEPT ![s] = 0]
    /\ adm' = [op |-> "add", s |-> s, todo |-> shards]
    /\ overload' = (overload \/ downShards # {})
    /\ UNCHANGED <<downShards, call, puts, live>>

(* migrateOnAdd for one old shard: copy the value, drop it where it is no longer due *)
MigrateFrom(o) ==
    IF adm.s \notin Replicas THEN data
    ELSE [data EXCEPT ![adm.s] = data[o], ![o] = IF o \in Replicas THEN @ ELSE 0]

MigrateOnAdd(o) ==
    /\ adm.op = "add" /\ o \in adm.todo
    /\ adm' = [adm EXCEPT !.todo = @ \ {o}]
    /\ data' = IF status[o] = "down" \/ data[o] = 0 THEN data ELSE MigrateFrom(o)
    /\ UNCHANGED <<ring, shards, status, downShards, call, puts, admins, live, overload>>

AddEnd ==
    /\ adm.op = "add" /\ adm.todo = {}
    /\ adm' = NoAdm
    /\ UNCHANGED <<ring, shards, status, downShards, data, call, puts, admins, live, overload>>

(***************************************************************************)
(* RemoveShard: leave the ring, hand over the key if the new replicas do   *)
(* not hold it often enough, and be deleted.                               *)
(***************************************************************************)
RemoveShard(s) ==
    /\ Idle /\ admins < MaxAdmin /\ s \in shards /\ Cardinality(ring) > 1
    /\ admins' = admins + 1
    /\ status' = [status EXCEPT ![s] = "migrating"]
    /\ ring' = ring \ {s}
    /\ adm' = [op |-> "remove", s |-> s, todo |-> {s}]
    /\ overload' = (overload \/ downShards # {} \/ TooMany({s}))
    /\ UNCHANGED <<shards, downShards, data, call, puts, live>>

Usable(s) == s \in shards /\ status[s] # "down"
Targets ==
    LET have == {s \in Replicas : Usable(s) /\ data[s] # 0}
        need == ReplicaCount - Cardinality(have)
        legal == SelectSeq(GetReplicaNodes(ReplicaCount), LAMBDA s : Usable(s) /\ data[s] = 0)
        other == {s \in shards \ (Replicas \cup {adm.s}) : Usable(s) /\ data[s] = 0}
        front == SubSeq(legal, 1, IF need < Len(legal) THEN need ELSE Len(legal))
        rest == need - Len(front)
    IN IF need <= 0 THEN {{}}
       ELSE {ToSet(front) \cup x : x \in {y \in SUBSET other :
                Cardinality(y) = (IF rest < Cardinality(other) THEN rest ELSE Cardinality(other))}}

MigrateOnRemove ==
    /\ adm.op = "remove" /\ adm.todo # {}
    /\ adm' = [adm EXCEPT !.todo = {}]
    /\ IF data[adm.s] = 0 THEN data' = data
       ELSE \E T \in Targets : data' = [t \in Shard |-> IF t \in T THEN data[adm.s] ELSE data[t]]
    /\ UNCHANGED <<ring, shards, status, downShards, call, puts, admins, live, overload>>

RemoveEnd ==
    /\ adm.op = "remove" /\ adm.todo = {}
    /\ shards' = shards \ {adm.s} /\ downShards' = downShards \ {adm.s}
    /\ data' = [data EXCEPT ![adm.s] = 0]
    /\ adm' = NoAdm
    /\ UNCHANGED <<ring, status, call, puts, admins, live, overload>>

(***************************************************************************)
(* MarkShardDown; MarkShardUp copies what the other shards hold first.     *)
(***************************************************************************)
MarkShardDown(s) ==
    /\ Idle /\ s \in shards /\ admins < MaxAdmin
    /\ admins' = admins + 1
    /\ status' = [status EXCEPT ![s] = "down"] /\ downShards' = downShards \cup {s}
    /\ overload' = (overload \/ TooMany(downShards \cup {s}))
    /\ UNCHANGED <<ring, shards, data, call, adm, puts, live>>

MarkShardUp(s) ==
    /\ Idle /\ s \in downShards
    /\ adm' = [op |-> "up", s |-> s, todo |-> shards \ {s}]
    /\ UNCHANGED <<ring, shards, status, downShards, data, call, puts, admins, live, overload>>

SyncFromReplicas(o) ==
    /\ adm.op = "up" /\ o \in adm.todo
    /\ adm' = [adm EXCEPT !.todo = @ \ {o}]
    /\ data' = IF status[o] = "down" \/ data[o] = 0 \/ adm.s \notin Replicas THEN data
               ELSE [data EXCEPT ![adm.s] = data[o]]
    /\ UNCHANGED <<ring, shards, status, downShards, call, puts, admins, live, overload>>

UpEnd ==
    /\ adm.op = "up" /\ adm.todo = {}
    /\ status' = [status EXCEPT ![adm.s] = "up"] /\ downShards' = downShards \ {adm.s}
    /\ adm' = NoAdm
    /\ UNCHANGED <<ring, shards, data, call, puts, admins, live, overload>>

ShardInit ==
    /\ ring = First /\ shards = First /\ status = [s \in Shard |-> "up"] /\ downShards = {}
    /\ data = [s \in Shard |-> 0] /\ call = NoCall /\ adm = NoAdm
    /\ puts = 0 /\ admins = 0 /\ live = FALSE /\ overload = FALSE

ShardNext ==
    \/ PutBegin \/ DeleteBegin \/ CallEnd
    \/ \E s \in Shard : WriteNode(s) \/ AddShard(s) \/ MigrateOnAdd(s) \/ RemoveShard(s)
                        \/ MarkShardDown(s) \/ MarkShardUp(s) \/ SyncFromReplicas(s)
    \/ AddEnd \/ MigrateOnRemove \/ RemoveEnd \/ UpEnd

ShardSpec == ShardInit /\ [][ShardNext]_shardVars

-----------------------------------------------------------------------------
(* A key whose Put was acknowledged by the quorum is found by Get, in some  *)
(* version, unless too many shards were down at a time or some were when      *)
(* another joined or left (the code then can keep a single copy): no        *)
(* migration to a new shard, hand-over by a leaving one or recovery, in any *)
(* order, loses its last copy, even while it is under way.  Put and Delete  *)
(* do not overlap with administrative calls here: if they do, the code can  *)
(* lose copies (a write to a shard that has just handed over its keys).     *)
ShardKeyFound == ~Overlap /\ live /\ ~overload => Get # 0
=============================================================================
