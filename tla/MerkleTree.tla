---------------------------- MODULE MerkleTree ----------------------------
(***************************************************************************)
(* The tree over chunk IDs by which two nodes compare what they hold       *)
(* (BuildMerkleTree and CompareMerkleTrees of pkg/storage/repair.go).  A   *)
(* hash of two strings is their pair: SHA-256 is taken to be injective.    *)
(***************************************************************************)
EXTENDS Naturals, SequencesExt

CONSTANT MaxChunkIds  \* bound: chunk IDs are the numbers up to it
CONSTANT MaxLeaves    \* bound: leaves of a tree

ASSUME MerkleAssumption == MaxChunkIds \in Nat /\ MaxLeaves \in Nat

VARIABLES mine, theirs  \* the chunk IDs of two nodes, in any order

NextLevel(level) ==
  [i \in 1..((Len(level) + 1) \div 2) |->
     IF 2 * i <= Len(level) THEN <<level[2 * i - 1], level[2 * i]>> ELSE level[2 * i - 1]]

(* The levels above the leaves, one for every halving.                     *)
Levels(leaves) ==
  LET level[i \in Nat] == IF i = 0 THEN leaves ELSE NextLevel(level[i - 1])
  IN level

calculateDepth(leafCount) ==
  LET count[i \in Nat] == IF i = 0 THEN leafCount ELSE (count[i - 1] + 1) \div 2
  IN CHOOSE d \in 0..leafCount : count[d] <= 1 /\ \A i \in 0..(d - 1) : count[i] > 1

buildMerkleRoot(leaves) ==
  IF leaves = <<>> THEN <<>> ELSE Levels(leaves)[calculateDepth(Len(leaves))][1]

(* Mutant of BuildMerkleTree: the IDs are not sorted.                      *)
BuildUnsorted(chunkIDs) ==
  LET leaves == [i \in DOMAIN chunkIDs |-> <<chunkIDs[i]>>]
  IN [Root |-> buildMerkleRoot(leaves), Leaves |-> leaves, Depth |-> calculateDepth(Len(leaves))]

BuildMerkleTree(chunkIDs) ==
  LET sorted == SortSeq(chunkIDs, <)
      leaves == [i \in DOMAIN sorted |-> <<sorted[i]>>]
  IN [Root |-> buildMerkleRoot(leaves), Leaves |-> leaves, Depth |-> calculateDepth(Len(leaves))]

CompareMerkleTrees(tree1, tree2) ==
  IF tree1.Root = tree2.Root THEN <<>>
  ELSE LET notIn(leaves, tree) == SelectSeq(leaves, LAMBDA l : l \notin ToSet(tree.Leaves))
       IN notIn(tree1.Leaves, tree2) \o notIn(tree2.Leaves, tree1)

MerkleInit == mine \in SeqOf(1..MaxChunkIds, MaxLeaves) /\ theirs \in SeqOf(1..MaxChunkIds, MaxLeaves)

(* Two trees of the same chunks have the same root in whatever order the   *)
(* IDs were listed, trees with different chunks never do, a comparison     *)
(* names exactly the chunks that one side lacks, and the depth is the least*)
(* that holds the leaves.                                                  *)
TreesTellDifferences ==
  LET t1 == BuildMerkleTree(mine)
      t2 == BuildMerkleTree(theirs)
      lacking(a, b) == {<<c>> : c \in ToSet(a) \ ToSet(b)}
  IN /\ (t1.Root = t2.Root) <=> (ToBag(mine) = ToBag(theirs))
     /\ ToSet(CompareMerkleTrees(t1, t2)) = lacking(mine, theirs) \cup lacking(theirs, mine)
     /\ 2 ^ t1.Depth >= Len(mine) /\ (t1.Depth > 0 => 2 ^ (t1.Depth - 1) < Len(mine))
=============================================================================
