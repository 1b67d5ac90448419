----------------------------- MODULE MerkleTrie -----------------------------
(***************************************************************************)
(* The path-compressed radix trie of merkle_trie.h, as the orderbooks use   *)
(* it: no locks on single nodes, values, and the metadata size,             *)
(* num_deleted_subnodes, num_rollback_subnodes and endow on every node.     *)
(*                                                                          *)
(* A node is a record: its prefix (a sequence of branch digits), its        *)
(* children (a function from branch digits to nodes, empty at a leaf), the  *)
(* value of a leaf, the cached metadata and the cached hash.  hash_valid is *)
(* "hash is not NoHash": a hash that is not valid is never read.  A hash is *)
(* the term that is hashed, which stands for SHA256 without collisions.     *)
(*                                                                          *)
(* The operators keep the recursion of the methods and their arithmetic on  *)
(* metadata deltas: that the deltas add up is a property, not a definition. *)
(***************************************************************************)
EXTENDS Integers, Sequences, FiniteSets, SequencesExt, TLC

CONSTANT KeyLen                 \* MAX_KEY_LEN_BITS, in branch digits

NoHash == [none |-> TRUE]

NoMeta == [size |-> 0, del |-> 0, rb |-> 0, endow |-> 0]
Plus(a, b) == [f \in DOMAIN a |-> a[f] + b[f]]
Minus(a, b) == [f \in DOMAIN a |-> a[f] - b[f]]
SumOf(metas) == FoldFunction(Plus, NoMeta, metas)

\* The fields of a TrieNode, its leaf constructor and make_empty_node
Leaf(key, value, rb) ==
    [prefix |-> key, kids |-> <<>>, value |-> value, hash |-> NoHash,
     meta |-> [size |-> 1, del |-> 0, rb |-> rb, endow |-> value]]

EmptyNode ==
    [prefix |-> <<>>, kids |-> <<>>, value |-> 0, meta |-> NoMeta, hash |-> NoHash]

BranchNode(prefix, kids, meta) ==
    [prefix |-> prefix, kids |-> kids, value |-> 0, meta |-> meta, hash |-> NoHash]

IsLeaf(n) == Len(n.prefix) = KeyLen
BranchBits(n, key) == key[Len(n.prefix) + 1]
CommonPrefix(p, q) ==
    LET Agree(i) == i <= Len(q) /\ \A j \in 1..i : p[j] = q[j]
    IN  SubSeq(p, 1, CHOOSE i \in 0..Len(p) : Agree(i) /\ (i < Len(p) => ~Agree(i + 1)))
\* Mutant: a change below a node leaves its cached hash valid.
KeepHash(n) == n
Invalidate(n) == [n EXCEPT !.hash = NoHash]
SetKid(n, b, kid) == [n EXCEPT !.kids = (b :> kid) @@ @]
DropKid(n, b) == [n EXCEPT !.kids = [c \in DOMAIN @ \ {b} |-> @[c]]]
AddMeta(n, delta) == [n EXCEPT !.meta = Plus(@, delta)]
Branches(n) == SetToSortSeq(DOMAIN n.kids, <)

\* get_single_child, wherever a node that was left with one child is replaced
SingleChild(n) == Cardinality(DOMAIN n.kids) = 1
Contract(n) == IF SingleChild(n) THEN n.kids[CHOOSE b \in DOMAIN n.kids : TRUE] ELSE n

-----------------------------------------------------------------------------
(* Insertion and merging *)

\* A node in which _insert throws: a root that lost its children and kept its
\* prefix, or one that was left with a single child.
InsertThrows(n) ==
    \/ SingleChild(n)
    \/ n.kids = <<>> /\ ~IsLeaf(n) /\ n.prefix # <<>>

\* TrieNode::_insert; returns the node and the metadata delta
RECURSIVE InsertNode(_, _)
InsertNode(n, leaf) ==
    LET match == CommonPrefix(n.prefix, leaf.prefix)
        b == BranchBits(n, leaf.prefix)
    IN  CASE n.prefix = <<>> /\ n.kids = <<>> ->
                [node |-> leaf, delta |-> leaf.meta]
          [] match = n.prefix /\ IsLeaf(n) ->
                [node |-> leaf, delta |-> Minus(leaf.meta, n.meta)]
          [] match = n.prefix /\ ~IsLeaf(n) /\ n.kids # <<>> ->
                LET r == IF b \in DOMAIN n.kids
                         THEN InsertNode(n.kids[b], leaf)
                         ELSE [node |-> leaf, delta |-> leaf.meta]
                IN  [node |-> Invalidate(AddMeta(SetKid(n, b, r.node), r.delta)),
                     delta |-> r.delta]
          [] match # n.prefix ->
                LET join == Len(match) + 1
                IN  [node |-> BranchNode(match,
                                  (leaf.prefix[join] :> leaf) @@ (n.prefix[join] :> Invalidate(n)),
                                  Plus(leaf.meta, n.meta)),
                     delta |-> leaf.meta]

\* TrieNode::_merge_in, cases 0 to 4; returns the node and the metadata delta
RECURSIVE MergeNode(_, _)
MergeNode(n, other) ==
    LET match == CommonPrefix(n.prefix, other.prefix)
        join == Len(match) + 1
    IN  CASE Len(match) = KeyLen ->                      \* case 0: two leaves
                [node |-> [n EXCEPT !.value = other.value, !.meta = other.meta, !.hash = NoHash],
                 delta |-> Minus(other.meta, n.meta)]
          [] Len(match) < KeyLen /\ match = n.prefix /\ match = other.prefix ->   \* case 1
                LET common == DOMAIN n.kids \cap DOMAIN other.kids
                    merged == [b \in common |-> MergeNode(n.kids[b], other.kids[b])]
                    delta == SumOf([b \in DOMAIN other.kids |->
                                IF b \in common THEN merged[b].delta ELSE other.kids[b].meta])
                IN  [node |-> BranchNode(n.prefix,
                                  [b \in common |-> merged[b].node] @@ n.kids @@ other.kids,
                                  Plus(n.meta, delta)),
                     delta |-> delta]
          [] match = n.prefix /\ match # other.prefix ->  \* case 2: other goes below n
                LET b == other.prefix[join]
                    r == IF b \in DOMAIN n.kids
                         THEN MergeNode(n.kids[b], other)
                         ELSE [node |-> other, delta |-> other.meta]
                IN  [node |-> Invalidate(AddMeta(SetKid(n, b, r.node), r.delta)),
                     delta |-> r.delta]
          [] match # n.prefix /\ match = other.prefix ->  \* case 3: n goes below other
                LET b == n.prefix[join]
                    orig == Invalidate(n)
                    r == MergeNode(orig, other.kids[b])
                IN  IF b \notin DOMAIN other.kids
                    THEN [node |-> BranchNode(other.prefix, (b :> orig) @@ other.kids,
                                              Plus(other.meta, n.meta)),
                          delta |-> other.meta]
                    ELSE LET reduction == Minus(other.kids[b].meta, n.meta)
                             meta == Plus(other.meta, Minus(r.delta, reduction))
                         IN  [node |-> BranchNode(other.prefix, (b :> r.node) @@ other.kids, meta),
                              delta |-> Minus(meta, n.meta)]
          [] match # n.prefix /\ match # other.prefix ->  \* case 4: a common ancestor
                [node |-> BranchNode(match,
                              (n.prefix[join] :> Invalidate(n)) @@ (other.prefix[join] :> other),
                              Plus(n.meta, other.meta)),
                 delta |-> other.meta]

-----------------------------------------------------------------------------
(* Marks, deletions and rollback *)

\* mark_for_deletion (from 0 to 1) and unmark_for_deletion (from 1 to 0) walk
\* alike; an unmark that finds nothing leaves the hashes on its path valid.
RECURSIVE MarkNode(_, _, _)
MarkNode(n, key, to) ==
    LET b == BranchBits(n, key)
        r == MarkNode(n.kids[b], key, to)
        none == [node |-> n, delta |-> NoMeta, found |-> FALSE]
    IN  CASE ~IsPrefix(n.prefix, key) -> none
          [] IsPrefix(n.prefix, key) /\ IsLeaf(n) ->
                IF n.meta.del = to THEN none
                ELSE LET delta == [NoMeta EXCEPT !.del = to - n.meta.del]
                     IN  [node |-> Invalidate(AddMeta(n, delta)), delta |-> delta, found |-> TRUE]
          [] IsPrefix(n.prefix, key) /\ ~IsLeaf(n) ->
                IF b \notin DOMAIN n.kids THEN none
                ELSE LET m == AddMeta(SetKid(n, b, r.node), r.delta)
                     IN  [node |-> IF r.found \/ to = 1 THEN Invalidate(m) ELSE m,
                          delta |-> r.delta, found |-> r.found]

\* perform_marked_deletions and do_rollback remove the leaves whose count
\* `field` is 1: the same walk over the two counters.  gone tells the parent
\* to erase the child.
RECURSIVE RemoveCounted(_, _)
RemoveCounted(n, field) ==
    CASE n.meta[field] = 0 -> [gone |-> FALSE, node |-> n, delta |-> NoMeta]
      [] n.meta[field] # 0 /\ IsLeaf(n) ->
            [gone |-> TRUE, node |-> Invalidate(n), delta |-> Minus(NoMeta, n.meta)]
      [] n.meta[field] # 0 /\ ~IsLeaf(n) ->
            LET r == [b \in DOMAIN n.kids |-> RemoveCounted(n.kids[b], field)]
                left == {b \in DOMAIN r : ~r[b].gone}
                delta == SumOf([b \in DOMAIN r |-> r[b].delta])
            IN  [gone |-> left = {},
                 node |-> BranchNode(n.prefix, [b \in left |-> Contract(r[b].node)],
                                     Plus(n.meta, delta)),
                 delta |-> delta]

\* clear_rollback stops at the nodes that count no rollback leaf
RECURSIVE ClearRollbackNode(_)
ClearRollbackNode(n) ==
    IF n.meta.rb = 0 THEN n
    ELSE [n EXCEPT !.meta.rb = 0, !.kids = [b \in DOMAIN @ |-> ClearRollbackNode(@[b])]]

\* perform_deletion of one key
RECURSIVE DeleteNode(_, _)
DeleteNode(n, key) ==
    LET b == BranchBits(n, key)
        r == DeleteNode(n.kids[b], key)
        none == [gone |-> FALSE, node |-> n, found |-> FALSE, value |-> 0, delta |-> NoMeta]
    IN  CASE ~IsPrefix(n.prefix, key) -> none
          [] IsPrefix(n.prefix, key) /\ IsLeaf(n) ->
                [gone |-> TRUE, node |-> n, found |-> TRUE, value |-> n.value,
                 delta |-> Minus(NoMeta, n.meta)]
          [] IsPrefix(n.prefix, key) /\ ~IsLeaf(n) ->
                IF b \notin DOMAIN n.kids THEN none
                ELSE LET m == AddMeta(IF r.gone THEN DropKid(n, b)
                                      ELSE SetKid(n, b, Contract(r.node)), r.delta)
                     IN  [r EXCEPT !.gone = FALSE,
                                   !.node = IF r.found THEN Invalidate(m) ELSE m]

\* clean_singlechild_nodes: contracts below the nodes of the explored path
RECURSIVE ContractFully(_)
ContractFully(n) == IF SingleChild(n) THEN ContractFully(Contract(n)) ELSE n

RECURSIVE CleanSinglechild(_, _)
CleanSinglechild(n, path) ==
    IF IsLeaf(n) THEN n
    ELSE LET b == BranchBits(n, path)
         IN  [n EXCEPT !.kids = [c \in DOMAIN @ |->
                IF c = b THEN CleanSinglechild(ContractFully(@[c]), path) ELSE ContractFully(@[c])]]

-----------------------------------------------------------------------------
(* The lowest keys worth a given endowment *)

\* TrieNode::endow_split below the root: takes the subtrees, lowest branch
\* first, that the threshold pays for, and splits the first it does not.
RECURSIVE SplitNode(_, _)
SplitNode(n, threshold) ==
    LET Step(s, b) ==
            LET kid == n.kids[b]
                acc == s.acc + kid.meta.endow
                r == SplitNode(kid, threshold - s.acc)
            IN  CASE s.acc >= threshold -> s
                  [] s.acc < threshold /\ acc <= threshold ->
                        [acc |-> acc, out |-> (b :> kid) @@ s.out,
                         node |-> AddMeta(DropKid(s.node, b), Minus(NoMeta, kid.meta))]
                  [] s.acc < threshold /\ acc > threshold ->
                        [acc |-> acc,
                         out |-> IF r.none THEN s.out ELSE (b :> r.taken) @@ s.out,
                         node |-> AddMeta(SetKid(s.node, b, Contract(r.node)),
                                          Minus(NoMeta, r.taken.meta))]
        s == FoldLeft(Step, [acc |-> 0, out |-> <<>>, node |-> Invalidate(n)], Branches(n))
        metas == [b \in DOMAIN s.out |-> s.out[b].meta]
    IN  IF n.kids = <<>> THEN [node |-> n, taken |-> EmptyNode, none |-> TRUE]
        ELSE [node |-> s.node, none |-> s.out = <<>>,
              taken |-> IF s.out = <<>> THEN EmptyNode
                        ELSE BranchNode(n.prefix, s.out, SumOf(metas))]

\* The order of the keys: big-endian bytes, so digit by digit
KeyLess(a, b) ==
    \E i \in 1..Len(a) : a[i] < b[i] /\ \A j \in 1..(i - 1) : a[j] = b[j]

RECURSIVE EndowLtNode(_, _)
EndowLtNode(n, maxKey) ==
    LET cut == SubSeq(maxKey, 1, Len(n.prefix))
        b == BranchBits(n, maxKey)
    IN  CASE KeyLess(n.prefix, cut) -> n.meta.endow
          [] n.prefix = cut /\ ~IsLeaf(n) ->
                FoldFunction(+, 0, [c \in DOMAIN n.kids |->
                    CASE c < b -> n.kids[c].meta.endow
                      [] c = b -> EndowLtNode(n.kids[c], maxKey)
                      [] c > b -> 0])
          [] OTHER -> 0

\* Mutant: the last branch instead of the first.
RECURSIVE HighestKeyNode(_)
HighestKeyNode(n) ==
    IF n.kids = <<>> THEN n.prefix ELSE HighestKeyNode(n.kids[Last(Branches(n))])

RECURSIVE LowestKeyNode(_)
LowestKeyNode(n) ==
    IF n.kids = <<>> THEN n.prefix ELSE LowestKeyNode(n.kids[Branches(n)[1]])

\* accumulate_values, apply: the leaves, as a function from keys to values
RECURSIVE LeafNodes(_)
LeafNodes(n) ==
    IF IsLeaf(n) THEN {n} ELSE UNION {LeafNodes(kid) : kid \in {n.kids[b] : b \in DOMAIN n.kids}}
ValuesOf(leaves) ==
    [k \in {n.prefix : n \in leaves} |-> (CHOOSE n \in leaves : n.prefix = k).value]
LeavesOf(n) == ValuesOf(LeafNodes(n))

-----------------------------------------------------------------------------
(* Hashes *)

\* compute_hash: a branch node hashes the children with something left in
\* them, and takes over the hash of its only one.
RECURSIVE HashNode(_)
HashNode(n) ==
    LET live == {b \in DOMAIN n.kids : n.kids[b].meta.size > n.kids[b].meta.del}
        kids == [b \in DOMAIN n.kids |-> IF b \in live THEN HashNode(n.kids[b]) ELSE n.kids[b]]
    IN  CASE n.hash # NoHash -> n
          [] n.hash = NoHash /\ n.kids = <<>> ->
                [n EXCEPT !.hash = [leaf |-> n.prefix, amount |-> n.value]]
          [] n.hash = NoHash /\ n.kids # <<>> ->
                [n EXCEPT !.kids = kids,
                          !.hash = IF Cardinality(live) = 1
                                   THEN kids[CHOOSE b \in live : TRUE].hash
                                   ELSE [at |-> n.prefix, below |-> [b \in live |-> kids[b].hash]]]

-----------------------------------------------------------------------------
(* The trie: its root, and the hash of the whole while it is valid *)

EmptyTrie == [root |-> EmptyNode, root_hash |-> NoHash]
TrieOf(root) == [root |-> root, root_hash |-> NoHash]
Contents(t) == LeavesOf(t.root)
Size(t) == t.root.meta.size
Endow(t) == t.root.meta.endow

insert(t, leaf) == TrieOf(InsertNode(t.root, leaf).node)

merge_in(t, other) ==
    CASE Size(t) = 0 -> TrieOf(other.root)
      [] Size(t) # 0 /\ Size(other) = 0 -> TrieOf(t.root)
      [] Size(t) # 0 /\ Size(other) # 0 -> TrieOf(MergeNode(t.root, other.root).node)

mark_for_deletion(t, key) ==
    LET r == MarkNode(t.root, key, 1)
    IN  IF r.found THEN TrieOf(r.node) ELSE [t EXCEPT !.root = r.node]

unmark_for_deletion(t, key) ==
    LET r == MarkNode(t.root, key, 0)
    IN  IF r.found THEN TrieOf(r.node) ELSE [t EXCEPT !.root = r.node]

perform_marked_deletions(t) ==
    LET r == RemoveCounted(t.root, "del")
    IN  IF t.root.meta.del = 0 THEN t
        ELSE TrieOf(IF r.gone THEN EmptyNode ELSE Contract(r.node))

\* The leaves that perform_marked_deletions hands to its side effect
MarkedLeaves(n) == ValuesOf({leaf \in LeafNodes(n) : leaf.meta.del = 1})

\* Mutant: the root is not replaced by its only child.
DoRollbackUncompressed(t) == [t EXCEPT !.root = RemoveCounted(@, "rb").node]

\* do_rollback of the trie leaves the cached root hash as it is, and ignores
\* that the root itself should go.
do_rollback(t) == [t EXCEPT !.root = Contract(RemoveCounted(@, "rb").node)]

clear_rollback(t) == [t EXCEPT !.root = ClearRollbackNode(@)]

perform_deletion(t, key) ==
    LET r == DeleteNode(t.root, key)
        root == IF r.gone THEN EmptyNode ELSE Contract(r.node)
    IN  [found |-> r.found, value |-> r.value,
         trie |-> [root |-> IF root.meta.size = 0 THEN EmptyNode ELSE root,
                   root_hash |-> IF r.found THEN NoHash ELSE t.root_hash]]

clean_singlechild_nodes(t, path) == TrieOf(ContractFully(CleanSinglechild(t.root, path)))

endow_split(t, threshold) ==
    LET r == SplitNode(t.root, threshold)
    IN  CASE threshold = 0 -> [rest |-> t, taken |-> EmptyTrie]
          [] threshold # 0 /\ threshold = Endow(t) -> [rest |-> EmptyTrie, taken |-> TrieOf(t.root)]
          [] threshold # 0 /\ threshold < Endow(t) ->
                [rest |-> TrieOf(Contract(r.node)), taken |-> TrieOf(r.taken)]

endow_lt_key(t, key) == EndowLtNode(t.root, key)

freeze_and_hash(t) ==
    LET root == HashNode(t.root)
        count == root.meta.size - root.meta.del
    IN  IF t.root_hash # NoHash THEN t
        ELSE [root |-> root,
              root_hash |-> [count |-> count, top |-> IF count > 0 THEN root.hash ELSE NoHash]]

-----------------------------------------------------------------------------
(* What a well-formed trie is, for the properties of its users *)

\* Every child extends its parent's prefix by its branch, no inner node has a
\* single child, and only an empty root has no children and is no leaf.
RECURSIVE ShapeOK(_)
ShapeOK(n) ==
    \/ IsLeaf(n)
    \/ /\ Cardinality(DOMAIN n.kids) >= 2
       /\ \A b \in DOMAIN n.kids :
            IsPrefix(Append(n.prefix, b), n.kids[b].prefix) /\ ShapeOK(n.kids[b])
WellShaped(t) == t.root.kids = <<>> \/ ShapeOK(t.root)

\* metadata_integrity_check: the metadata of an inner node is the sum of its
\* children's, the metadata of a leaf is that of its value.
RECURSIVE MetadataOK(_)
MetadataOK(n) ==
    IF IsLeaf(n)
    THEN n.meta.size = 1 /\ n.meta.endow = n.value /\ {n.meta.del, n.meta.rb} \subseteq {0, 1}
    ELSE /\ n.meta = SumOf([b \in DOMAIN n.kids |-> n.kids[b].meta])
         /\ \A b \in DOMAIN n.kids : MetadataOK(n.kids[b])
MetadataExact(t) == MetadataOK(t.root)

\* The hash of the trie that holds these leaves and nothing else, built from
\* nothing: what two nodes with the same book must agree on.
ReferenceHash(leaves) ==
    freeze_and_hash(FoldLeft(LAMBDA t, k : insert(t, Leaf(k, leaves[k], 0)), EmptyTrie,
                             SetToSeq(DOMAIN leaves))).root_hash
=============================================================================
