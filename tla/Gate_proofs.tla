---------------------------- MODULE Gate_proofs ----------------------------
(***************************************************************************)
(* What one request gets, for every configuration and every request:        *)
(*   - the bypass rule says what its text says (RequestCondition),          *)
(*   - a redirect_uri is accepted if the list stands for it (RedirectUri),  *)
(*   - the verdict on the claims is what is asked for (Authorization), and  *)
(*   - ServeHTTP answers accordingly (Gate).                                *)
(* The rule is read and evaluated by recursion over its positions.  That    *)
(* the recursive definitions have a solution is proved from the well-       *)
(* foundedness of the natural numbers, and what is said of every position   *)
(* by taking the deepest, or the highest, one of which it does not hold.    *)
(***************************************************************************)
EXTENDS Gate, SequenceTheorems, WellFoundedInduction, TLAPS

-----------------------------------------------------------------------------
(***************************************************************************)
(* Sequences and recursion                                                 *)
(***************************************************************************)
\* Of numbers with a property there is a smallest.
LEMMA SmallestNat ==
  ASSUME NEW S, S \subseteq Nat, S # {}
  PROVE  \E n \in S : \A m \in S : n <= m
  <1>1. IsWellFoundedOn(OpToRel(<, Nat), Nat)
    BY NatLessThanWellFounded
  <1>2. PICK n \in S : \A m \in S : <<m, n>> \notin OpToRel(<, Nat)
    BY <1>1, WFMin
  <1>3. \A m \in S : ~(m < n)
    BY <1>2 DEF OpToRel
  <1>4. QED
    BY <1>3

\* Parts of sequences.
LEMMA SubSeqIs ==
  ASSUME NEW S, NEW s \in Seq(S), NEW m \in Nat \ {0}, NEW n \in 0..Len(s)
  PROVE  /\ SubSeq(s, m, n) \in Seq(S)
         /\ Len(SubSeq(s, m, n)) = IF m <= n THEN n - m + 1 ELSE 0
         /\ \A i \in 1..(n - m + 1) : SubSeq(s, m, n)[i] = s[m + i - 1]
  <1>1. \A i \in m..n : s[i] \in S
    OBVIOUS
  <1>2. m \in Int /\ n \in Int
    OBVIOUS
  <1>3. SubSeq(s, m, n) \in Seq(S)
    BY <1>1, <1>2, SubSeqProperties
  <1>4. Len(SubSeq(s, m, n)) = IF m <= n THEN n - m + 1 ELSE 0
    BY <1>1, <1>2, SubSeqProperties
  <1>5. \A i \in 1..(n - m + 1) : SubSeq(s, m, n)[i] = s[m + i - 1]
    BY <1>1, <1>2, SubSeqProperties
  <1>6. QED
    BY <1>3, <1>4, <1>5

LEMMA FrontAndLast ==
  ASSUME NEW S, NEW p \in Seq(S), p # <<>>
  PROVE  /\ Len(p) \in Nat \ {0} /\ Front(p) \in Seq(S) /\ Last(p) \in S
         /\ Len(Front(p)) = Len(p) - 1 /\ p = Append(Front(p), Last(p))
  <1>1. Len(p) \in Nat \ {0} /\ Len(p) - 1 \in 0..Len(p)
    BY EmptySeq
  <1>2. Last(p) \in S /\ Last(p) = p[Len(p)]
    BY <1>1 DEF Last
  <1>3. 1 \in Nat \ {0} /\ Len(p) - 1 - 1 + 1 = Len(p) - 1
    BY <1>1
  <1>4. Front(p) \in Seq(S)
    BY <1>1, <1>3, SubSeqIs DEF Front
  <1>5. Len(Front(p)) = Len(p) - 1
    BY <1>1, <1>3, SubSeqIs DEF Front
  <1>6. \A i \in 1..(Len(p) - 1) : Front(p)[i] = p[i]
    BY <1>1, <1>3, SubSeqIs DEF Front
  <1>7. /\ Append(Front(p), Last(p)) \in Seq(S) /\ Len(Append(Front(p), Last(p))) = Len(p)
        /\ \A i \in 1..Len(p) : Append(Front(p), Last(p))[i] = p[i]
    BY <1>1, <1>2, <1>4, <1>5, <1>6
  <1>8. p = Append(Front(p), Last(p))
    BY <1>7, SeqEqual
  <1>9. QED
    BY <1>1, <1>2, <1>4, <1>5, <1>8

\* A function can be defined by recursion on a measure h: what it is at x depends on
\* its values at smaller arguments only.
IsRecursion(D, V, N, h, G) ==
  /\ V # {} /\ N \in Nat /\ h \in [D -> 0..N]
  /\ \A x \in D, f \in [D -> V] : G[x][f] \in V
  /\ \A x \in D, f, g \in [D -> V] :
       (\A y \in D : h[y] < h[x] => f[y] = g[y]) => G[x][f] = G[x][g]

LEMMA Recursion ==
  ASSUME NEW D, NEW V, NEW N, NEW h, NEW G, IsRecursion(D, V, N, h, G)
  PROVE  \E f \in [D -> V] : \A x \in D : f[x] = G[x][f]
  <1> USE DEF IsRecursion
  <1> DEFINE Upto(f, n) == \A x \in D : h[x] < n => f[x] = G[x][f]
             Missing == {n \in Nat : ~\E f \in [D -> V] : Upto(f, n)}
  <1>1. SUFFICES ASSUME Missing # {} PROVE FALSE
    <2>1. N + 1 \notin Missing
      BY <1>1
    <2>2. PICK f \in [D -> V] : Upto(f, N + 1)
      BY <2>1
    <2>3. QED
      BY <2>2
  <1>2. PICK n \in Missing : \A m \in Missing : n <= m
    BY <1>1, SmallestNat
  <1>3. n # 0
    <2>1. PICK v : v \in V
      OBVIOUS
    <2>2. [x \in D |-> v] \in [D -> V]
      BY <2>1
    <2>3. Upto([x \in D |-> v], 0)
      OBVIOUS
    <2>4. 0 \notin Missing
      BY <2>2, <2>3
    <2>5. QED
      BY <2>4
  <1>4. n - 1 \in Nat /\ n - 1 \notin Missing
    BY <1>2, <1>3
  <1>5. PICK f \in [D -> V] : Upto(f, n - 1)
    BY <1>4
  <1> DEFINE g == [x \in D |-> IF h[x] < n THEN G[x][f] ELSE f[x]]
  <1>6. g \in [D -> V]
    OBVIOUS
  <1>7. \A y \in D : h[y] < n - 1 => g[y] = f[y]
    <2>1. SUFFICES ASSUME NEW y \in D, h[y] < n - 1 PROVE g[y] = f[y]
      OBVIOUS
    <2>2. f[y] = G[y][f]
      BY <1>5, <2>1
    <2>3. h[y] < n
      BY <2>1, <1>4
    <2>4. QED
      BY <2>2, <2>3
  <1>8. Upto(g, n)
    <2>1. SUFFICES ASSUME NEW x \in D, h[x] < n PROVE g[x] = G[x][g]
      OBVIOUS
    <2>2. g[x] = G[x][f]
      BY <2>1
    <2>3. \A y \in D : h[y] < h[x] => f[y] = g[y]
      BY <1>4, <1>7, <2>1
    <2>4. G[x][f] = G[x][g]
      BY <1>6, <2>3
    <2>5. QED
      BY <2>2, <2>4
  <1>9. QED
    BY <1>2, <1>6, <1>8

-----------------------------------------------------------------------------
(***************************************************************************)
(* The bypass rule: the trees that Parse builds                            *)
(***************************************************************************)
Positions == Seq({1, 2})

\* A tree that addRule can walk: every operator has its operands.
Trees ==
  {t \in UNION {[D -> TreeNode] : D \in SUBSET Positions} :
     /\ <<>> \in DOMAIN t
     /\ \E n \in Nat : \A p \in DOMAIN t : Len(p) <= n
     /\ \A p \in DOMAIN t : t[p].matcher \in DOMAIN Dual => Left(p) \in DOMAIN t /\ Right(p) \in DOMAIN t}

ParseValues == {Error} \cup {Text(s) : s \in Texts} \cup {Builder(t) : t \in Trees}

LEMMA Duals ==
  /\ DOMAIN Dual = {"and", "or"} /\ Dual["and"] = "or" /\ Dual["or"] = "and"
  /\ DOMAIN Dual \cap DOMAIN Matchers = {}
  BY DEF Dual, Matchers

\* What it is to be a tree.
LEMMA TreeTyping ==
  ASSUME NEW t \in Trees
  PROVE  /\ DOMAIN t \subseteq Positions /\ t \in [DOMAIN t -> TreeNode]
         /\ \A p \in DOMAIN t : t[p] \in TreeNode
         /\ <<>> \in DOMAIN t
         /\ \E n \in Nat : \A p \in DOMAIN t : Len(p) <= n
         /\ \A p \in DOMAIN t : t[p].matcher \in DOMAIN Dual =>
                                  Left(p) \in DOMAIN t /\ Right(p) \in DOMAIN t
  BY DEF Trees

LEMMA LeafIsTree ==
  ASSUME NEW name \in DOMAIN Matchers, NEW args \in Seq(Texts)
  PROVE  Leaf(name, args) \in Trees /\ DOMAIN Leaf(name, args) = {<<>>}
         /\ Leaf(name, args)[<<>>] = MatcherNode(name, args)
  <1>1. MatcherNode(name, args) \in TreeNode
    BY DEF MatcherNode, TreeNode
  <1>2. /\ DOMAIN Leaf(name, args) = {<<>>} /\ Leaf(name, args) \in [{<<>>} -> TreeNode]
        /\ Leaf(name, args)[<<>>] = MatcherNode(name, args)
    BY <1>1 DEF Leaf
  <1>3. {<<>>} \subseteq Positions /\ Len(<<>>) <= 0
    BY DEF Positions
  <1>4. MatcherNode(name, args).matcher \notin DOMAIN Dual
    BY Duals DEF MatcherNode
  <1>5. Leaf(name, args) \in UNION {[D -> TreeNode] : D \in SUBSET Positions}
    BY <1>2, <1>3
  <1>6. QED
    BY <1>2, <1>3, <1>4, <1>5 DEF Trees

\* Inverting a node keeps what it matches and makes the dual of an operator.
LEMMA InvertedNode ==
  ASSUME NEW n \in TreeNode
  PROVE  /\ InvertNode(n) \in TreeNode
         /\ InvertNode(n).value = n.value
         /\ n.matcher \in DOMAIN Dual =>
              InvertNode(n).matcher = Dual[n.matcher] /\ InvertNode(n).matcher \in DOMAIN Dual
         /\ n.matcher \notin DOMAIN Dual =>
              /\ InvertNode(n).matcher = n.matcher
              /\ InvertNode(n).not = ~n.not
  BY Duals DEF InvertNode, TreeNode

\* The trees are closed under Leaf, Invert and Branch.
LEMMA InvertedTree ==
  ASSUME NEW t \in Trees
  PROVE  /\ Invert(t) \in Trees /\ DOMAIN Invert(t) = DOMAIN t
         /\ \A p \in DOMAIN t : Invert(t)[p] = InvertNode(t[p])
  <1>1. DOMAIN Invert(t) = DOMAIN t /\ \A p \in DOMAIN t : Invert(t)[p] = InvertNode(t[p])
    BY DEF Invert
  <1>2. \A p \in DOMAIN t : InvertNode(t[p]) \in TreeNode
    BY TreeTyping, InvertedNode
  <1>3. Invert(t) \in [DOMAIN t -> TreeNode]
    BY <1>2 DEF Invert
  <1>4. Invert(t) \in UNION {[D -> TreeNode] : D \in SUBSET Positions}
    BY <1>3, TreeTyping
  <1>5. \A p \in DOMAIN t : InvertNode(t[p]).matcher \in DOMAIN Dual => t[p].matcher \in DOMAIN Dual
    BY TreeTyping, InvertedNode
  <1>6. QED
    BY <1>1, <1>4, <1>5, TreeTyping DEF Trees

\* The positions of the operands, seen from the root.
LEMMA Shifted ==
  ASSUME NEW q \in Positions, NEW i \in {1, 2}
  PROVE  /\ Under(i, q) \in Positions /\ Under(i, q) # <<>> /\ Under(i, q)[1] = i
         /\ Tail(Under(i, q)) = q /\ Len(Under(i, q)) = Len(q) + 1
         /\ Left(q) \in Positions /\ Left(Under(i, q)) = Under(i, Left(q))
         /\ Right(q) \in Positions /\ Right(Under(i, q)) = Under(i, Right(q))
  <1>1. /\ <<i>> \o q \in Positions /\ <<i>> \o q # <<>> /\ (<<i>> \o q)[1] = i
        /\ Len(<<i>> \o q) = Len(q) + 1
    BY DEF Positions
  <1>2. Tail(<<i>> \o q) = q
    BY DEF Positions
  <1>3. ASSUME NEW j \in {1, 2}
        PROVE Append(q, j) \in Positions /\ Append(<<i>> \o q, j) = <<i>> \o Append(q, j)
    BY <1>1 DEF Positions
  <1>4. QED
    BY <1>1, <1>2, <1>3 DEF Under, Left, Right

\* t has l and r below a root with the operator op.
IsBranch(t, op, l, r) ==
  /\ <<>> \in DOMAIN t /\ t[<<>>] = MatcherNode(op, <<>>)
  /\ \A p \in DOMAIN t : p = <<>> \/ (\E q \in DOMAIN l : p = Under(1, q))
                         \/ (\E q \in DOMAIN r : p = Under(2, q))
  /\ \A q \in DOMAIN l : Under(1, q) \in DOMAIN t /\ t[Under(1, q)] = l[q]
  /\ \A q \in DOMAIN r : Under(2, q) \in DOMAIN t /\ t[Under(2, q)] = r[q]

LEMMA BranchDomain ==
  ASSUME NEW op, NEW l \in Trees, NEW r \in Trees, NEW t, t = Branch(op, l, r)
  PROVE  IsBranch(t, op, l, r)
  <1>1. DOMAIN t = {<<>>} \cup {Under(1, q) : q \in DOMAIN l} \cup {Under(2, q) : q \in DOMAIN r}
    BY DEF Branch
  <1>2. \A p \in DOMAIN t : t[p] = IF p = <<>> THEN MatcherNode(op, <<>>)
                                   ELSE IF p[1] = 1 THEN l[Tail(p)] ELSE r[Tail(p)]
    BY DEF Branch
  <1>3. ASSUME NEW q \in DOMAIN l
        PROVE  Under(1, q) \in DOMAIN t /\ t[Under(1, q)] = l[q]
    <2>1. Under(1, q) # <<>> /\ (Under(1, q))[1] = 1 /\ Tail(Under(1, q)) = q
      BY TreeTyping, Shifted
    <2>2. Under(1, q) \in DOMAIN t
      BY <1>1
    <2>3. QED
      BY <1>2, <2>1, <2>2
  <1>4. ASSUME NEW q \in DOMAIN r
        PROVE  Under(2, q) \in DOMAIN t /\ t[Under(2, q)] = r[q]
    <2>1. Under(2, q) # <<>> /\ (Under(2, q))[1] = 2 /\ Tail(Under(2, q)) = q
      BY TreeTyping, Shifted
    <2>2. Under(2, q) \in DOMAIN t
      BY <1>1
    <2>3. (Under(2, q))[1] # 1
      BY <2>1
    <2>4. QED
      BY <1>2, <2>1, <2>2, <2>3, Zenon
  <1>5. <<>> \in DOMAIN t /\ t[<<>>] = MatcherNode(op, <<>>)
    BY <1>1, <1>2
  <1>6. \A p \in DOMAIN t : p = <<>> \/ (\E q \in DOMAIN l : p = Under(1, q))
                               \/ (\E q \in DOMAIN r : p = Under(2, q))
    BY <1>1
  <1>7. QED
    BY <1>3, <1>4, <1>5, <1>6 DEF IsBranch

LEMMA BranchIsTree ==
  ASSUME NEW op \in DOMAIN Dual, NEW l \in Trees, NEW r \in Trees, NEW t, t = Branch(op, l, r)
  PROVE  t \in Trees
  <1>1. MatcherNode(op, <<>>) \in TreeNode /\ MatcherNode(op, <<>>).matcher = op
    BY DEF MatcherNode, TreeNode
  <1>2. t = [p \in DOMAIN t |-> t[p]]
    BY DEF Branch
  <1>3. /\ <<>> \in DOMAIN t /\ t[<<>>] = MatcherNode(op, <<>>)
        /\ \A p \in DOMAIN t : p = <<>> \/ (\E q \in DOMAIN l : p = Under(1, q))
                               \/ (\E q \in DOMAIN r : p = Under(2, q))
        /\ \A q \in DOMAIN l : Under(1, q) \in DOMAIN t /\ t[Under(1, q)] = l[q]
        /\ \A q \in DOMAIN r : Under(2, q) \in DOMAIN t /\ t[Under(2, q)] = r[q]
    <2>1. IsBranch(t, op, l, r)
      BY BranchDomain
    <2>2. QED
      BY <2>1 DEF IsBranch
  <1>4. /\ \A q \in DOMAIN l : q \in Positions /\ l[q] \in TreeNode
        /\ \A q \in DOMAIN r : q \in Positions /\ r[q] \in TreeNode
    BY TreeTyping
  <1>5. \A p \in DOMAIN t : p \in Positions /\ t[p] \in TreeNode
    <2>1. SUFFICES ASSUME NEW p \in DOMAIN t PROVE p \in Positions /\ t[p] \in TreeNode
      OBVIOUS
    <2>2. CASE p = <<>>
      BY <2>2, <1>1, <1>3 DEF Positions
    <2>3. ASSUME NEW q \in DOMAIN l, p = Under(1, q) PROVE p \in Positions /\ t[p] \in TreeNode
      BY <1>3, <1>4, <2>3, Shifted
    <2>4. ASSUME NEW q \in DOMAIN r, p = Under(2, q) PROVE p \in Positions /\ t[p] \in TreeNode
      BY <1>3, <1>4, <2>4, Shifted
    <2>5. QED
      BY <1>3, <2>2, <2>3, <2>4
  <1>6. t \in UNION {[D -> TreeNode] : D \in SUBSET Positions}
    <2>1. DOMAIN t \in SUBSET Positions
      BY <1>5
    <2>2. t \in [DOMAIN t -> TreeNode]
      BY <1>2, <1>5
    <2>3. QED
      BY <2>1, <2>2
  <1>7. \E n \in Nat : \A p \in DOMAIN t : Len(p) <= n
    <2>1. PICK m \in Nat : \A p \in DOMAIN l : Len(p) <= m
      BY TreeTyping
    <2>2. PICK n \in Nat : \A p \in DOMAIN r : Len(p) <= n
      BY TreeTyping
    <2>3. ASSUME NEW p \in DOMAIN t PROVE Len(p) <= m + n + 1
      <3>1. CASE p = <<>>
        BY <3>1
      <3>2. ASSUME NEW q \in DOMAIN l, p = Under(1, q) PROVE Len(p) <= m + n + 1
        <4>1. Len(q) <= m /\ Len(p) = Len(q) + 1 /\ Len(q) \in Nat
          BY <1>4, <2>1, <3>2, Shifted DEF Positions
        <4>2. QED
          BY <4>1
      <3>3. ASSUME NEW q \in DOMAIN r, p = Under(2, q) PROVE Len(p) <= m + n + 1
        <4>1. Len(q) <= n /\ Len(p) = Len(q) + 1 /\ Len(q) \in Nat
          BY <1>4, <2>2, <3>3, Shifted DEF Positions
        <4>2. QED
          BY <4>1
      <3>4. QED
        BY <1>3, <3>1, <3>2, <3>3
    <2>4. m + n + 1 \in Nat
      OBVIOUS
    <2>5. QED
      BY <2>3, <2>4
  <1>8. ASSUME NEW p \in DOMAIN t, t[p].matcher \in DOMAIN Dual
        PROVE  Left(p) \in DOMAIN t /\ Right(p) \in DOMAIN t
    <2>1. CASE p = <<>>
      <3>1. Under(1, <<>>) \in DOMAIN t /\ Under(2, <<>>) \in DOMAIN t
        BY <1>3, TreeTyping
      <3>2. Under(1, <<>>) = Left(<<>>) /\ Under(2, <<>>) = Right(<<>>)
        BY DEF Under, Left, Right
      <3>3. QED
        BY <2>1, <3>1, <3>2
    <2>2. ASSUME NEW q \in DOMAIN l, p = Under(1, q) PROVE Left(p) \in DOMAIN t /\ Right(p) \in DOMAIN t
      <3>1. l[q].matcher \in DOMAIN Dual
        BY <1>3, <1>8, <2>2
      <3>2. q \in Positions /\ Left(q) \in DOMAIN l /\ Right(q) \in DOMAIN l
        BY <1>4, <3>1, TreeTyping
      <3>3. Left(p) = Under(1, Left(q)) /\ Right(p) = Under(1, Right(q))
        BY <2>2, <3>2, Shifted
      <3>4. QED
        BY <1>3, <3>2, <3>3
    <2>3. ASSUME NEW q \in DOMAIN r, p = Under(2, q) PROVE Left(p) \in DOMAIN t /\ Right(p) \in DOMAIN t
      <3>1. r[q].matcher \in DOMAIN Dual
        BY <1>3, <1>8, <2>3
      <3>2. q \in Positions /\ Left(q) \in DOMAIN r /\ Right(q) \in DOMAIN r
        BY <1>4, <3>1, TreeTyping
      <3>3. Left(p) = Under(2, Left(q)) /\ Right(p) = Under(2, Right(q))
        BY <2>3, <3>2, Shifted
      <3>4. QED
        BY <1>3, <3>2, <3>3
    <2>4. QED
      BY <1>3, <2>1, <2>2, <2>3
  <1>9. QED
    BY <1>3, <1>6, <1>7, <1>8, Zenon DEF Trees

\* f says of every node of t whether the request matches what is below it.
Evaluates(t, req, f) ==
  /\ f \in [DOMAIN t -> BOOLEAN]
  /\ \A p \in DOMAIN t :
       /\ t[p].matcher = "or" => (f[p] <=> f[Left(p)] \/ f[Right(p)])
       /\ t[p].matcher = "and" => (f[p] <=> f[Left(p)] /\ f[Right(p)])
       /\ t[p].matcher \notin DOMAIN Dual => (f[p] <=> MatchLeaf(t[p], req))

EvaluationOf(t, req, f) ==
  [p \in DOMAIN t |-> CASE t[p].matcher = "or"  -> f[Left(p)] \/ f[Right(p)]
                        [] t[p].matcher = "and" -> f[Left(p)] /\ f[Right(p)]
                        [] OTHER -> MatchLeaf(t[p], req)]

\* If the equations of Match have a solution, Match is at the root what one of them says ...
LEMMA MatchRecursion ==
  ASSUME NEW t, NEW req, NEW f,
         f = EvaluationOf(t, req, f)
  PROVE  \E g : g = EvaluationOf(t, req, g) /\ Match(t, req) = g[<<>>]
  BY Zenon DEF Match, EvaluationOf

LEMMA MatcherTyping ==
  \A name \in DOMAIN Matchers :
    Matchers[name].by \in {"equal", "prefix", "regexp"} /\ Matchers[name].arity \in {1, 2}
  BY DEF Matchers

LEMMA MatchLeafIsBoolean ==
  ASSUME NEW leaf, NEW req
  PROVE  MatchLeaf(leaf, req) \in BOOLEAN
  BY DEF MatchLeaf

\* ... and on a tree all of them agree at the root.
LEMMA MatchIsTheEvaluation ==
  ASSUME NEW t \in Trees, NEW req, NEW f, Evaluates(t, req, f)
  PROVE  Match(t, req) = f[<<>>]
  <1>1. \A p \in DOMAIN t : f[p] = CASE t[p].matcher = "or"  -> f[Left(p)] \/ f[Right(p)]
                                     [] t[p].matcher = "and" -> f[Left(p)] /\ f[Right(p)]
                                     [] OTHER -> MatchLeaf(t[p], req)
    <2>1. SUFFICES ASSUME NEW p \in DOMAIN t
                   PROVE  f[p] = CASE t[p].matcher = "or"  -> f[Left(p)] \/ f[Right(p)]
                                   [] t[p].matcher = "and" -> f[Left(p)] /\ f[Right(p)]
                                   [] OTHER -> MatchLeaf(t[p], req)
      OBVIOUS
    <2>2. f[p] \in BOOLEAN
      BY DEF Evaluates
    <2>3. CASE t[p].matcher = "or"
      <3>1. f[p] <=> f[Left(p)] \/ f[Right(p)]
        BY <2>3 DEF Evaluates
      <3>2. QED
        BY <2>2, <2>3, <3>1
    <2>4. CASE t[p].matcher = "and"
      <3>1. f[p] <=> f[Left(p)] /\ f[Right(p)]
        BY <2>4 DEF Evaluates
      <3>2. QED
        BY <2>2, <2>4, <3>1
    <2>5. CASE t[p].matcher # "or" /\ t[p].matcher # "and"
      <3>1. f[p] <=> MatchLeaf(t[p], req)
        BY <2>5, Duals DEF Evaluates
      <3>2. QED
        BY <2>2, <2>5, <3>1, MatchLeafIsBoolean
    <2>6. QED
      BY <2>3, <2>4, <2>5
  <1>2. f = EvaluationOf(t, req, f)
    <2>1. f = [p \in DOMAIN t |-> f[p]]
      BY DEF Evaluates
    <2>2. QED
      BY <1>1, <2>1 DEF EvaluationOf
  <1>3. PICK g : g = EvaluationOf(t, req, g) /\ Match(t, req) = g[<<>>]
    BY <1>2, MatchRecursion
  <1>4. \A p \in DOMAIN t : g[p] = CASE t[p].matcher = "or"  -> g[Left(p)] \/ g[Right(p)]
                                     [] t[p].matcher = "and" -> g[Left(p)] /\ g[Right(p)]
                                     [] OTHER -> MatchLeaf(t[p], req)
    BY <1>3, Zenon DEF EvaluationOf
  <1>5. PICK n \in Nat : \A p \in DOMAIN t : Len(p) <= n
    BY TreeTyping
  <1> DEFINE Depths == {n - Len(p) : p \in {p \in DOMAIN t : f[p] # g[p]}}
  <1>6. \A p \in DOMAIN t : Len(p) \in Nat /\ Len(Left(p)) = Len(p) + 1 /\ Len(Right(p)) = Len(p) + 1
    BY TreeTyping DEF Positions, Left, Right
  <1>7. SUFFICES ASSUME NEW q \in DOMAIN t, f[q] # g[q] PROVE FALSE
    BY <1>3, TreeTyping
  <1>8. Depths \subseteq Nat /\ Depths # {}
    BY <1>5, <1>6, <1>7
  <1>9. PICK d \in Depths : \A e \in Depths : d <= e
    BY <1>8, SmallestNat
  <1>10. PICK p \in DOMAIN t : f[p] # g[p] /\ d = n - Len(p)
    BY <1>9
  <1>11. \A c \in DOMAIN t : Len(c) = Len(p) + 1 => f[c] = g[c]
    <2>1. SUFFICES ASSUME NEW c \in DOMAIN t, Len(c) = Len(p) + 1, f[c] # g[c] PROVE FALSE
      OBVIOUS
    <2>2. n - Len(c) \in Depths
      BY <2>1
    <2>3. n - Len(c) < n - Len(p) /\ n - Len(c) \in Nat /\ n - Len(p) \in Nat
      BY <1>5, <1>6, <2>1
    <2>4. n - Len(p) <= n - Len(c)
      BY <1>9, <1>10, <2>2
    <2>5. QED
      BY <2>3, <2>4
  <1>12. t[p].matcher \in DOMAIN Dual => f[Left(p)] = g[Left(p)] /\ f[Right(p)] = g[Right(p)]
    BY <1>6, <1>11, TreeTyping
  <1>13. f[p] = g[p]
    <2>1. CASE t[p].matcher = "or"
      BY <1>1, <1>4, <1>12, <2>1, Duals
    <2>2. CASE t[p].matcher = "and"
      BY <1>1, <1>4, <1>12, <2>2, Duals
    <2>3. CASE t[p].matcher # "or" /\ t[p].matcher # "and"
      BY <1>1, <1>4, <2>3
    <2>4. QED
      BY <2>1, <2>2, <2>3
  <1>14. QED
    BY <1>10, <1>13

LEMMA LeafEvaluation ==
  ASSUME NEW name \in DOMAIN Matchers, NEW args \in Seq(Texts), NEW req
  PROVE  Evaluates(Leaf(name, args), req, [p \in {<<>>} |-> MatchLeaf(MatcherNode(name, args), req)])
  <1>1. MatcherNode(name, args).matcher \notin DOMAIN Dual /\ DOMAIN Dual = {"and", "or"}
    BY Duals DEF MatcherNode
  <1>2. QED
    BY <1>1, LeafIsTree, MatchLeafIsBoolean DEF Evaluates

LEMMA InvertedLeaf ==
  ASSUME NEW n \in TreeNode, n.matcher \notin DOMAIN Dual, NEW req
  PROVE  MatchLeaf(InvertNode(n), req) <=> ~MatchLeaf(n, req)
  <1>1. /\ InvertNode(n).matcher = n.matcher /\ InvertNode(n).value = n.value
        /\ InvertNode(n).not = ~n.not /\ n.not \in BOOLEAN
    BY InvertedNode DEF TreeNode
  <1>2. Actual(InvertNode(n), req) = Actual(n, req)
    BY <1>1 DEF Actual
  <1> DEFINE c == Compare(Matchers[n.matcher].by, Last(n.value), Actual(n, req))
  <1>3. MatchLeaf(InvertNode(n), req) <=> c # ~n.not
    BY <1>1, <1>2 DEF MatchLeaf
  <1>4. MatchLeaf(n, req) <=> c # n.not
    BY DEF MatchLeaf
  <1>5. c \in BOOLEAN
    BY MatcherTyping DEF Compare, IsPrefix, Occurs, TreeNode
  <1>6. QED
    BY <1>1, <1>3, <1>4, <1>5

\* De Morgan.
LEMMA InvertEvaluation ==
  ASSUME NEW t \in Trees, NEW req, NEW f, Evaluates(t, req, f)
  PROVE  Evaluates(Invert(t), req, [p \in DOMAIN t |-> ~f[p]])
  <1> DEFINE g == [p \in DOMAIN t |-> ~f[p]]
  <1>1. g \in [DOMAIN Invert(t) -> BOOLEAN]
    BY InvertedTree
  <1>2. ASSUME NEW p \in DOMAIN t
        PROVE  /\ Invert(t)[p].matcher = "or" => (g[p] <=> g[Left(p)] \/ g[Right(p)])
               /\ Invert(t)[p].matcher = "and" => (g[p] <=> g[Left(p)] /\ g[Right(p)])
               /\ Invert(t)[p].matcher \notin DOMAIN Dual => (g[p] <=> MatchLeaf(Invert(t)[p], req))
    <2>1. t[p] \in TreeNode /\ Invert(t)[p] = InvertNode(t[p])
      BY TreeTyping, InvertedTree
    <2>2. g[p] <=> ~f[p]
      OBVIOUS
    <2>3. CASE t[p].matcher \in DOMAIN Dual
      <3>1. Left(p) \in DOMAIN t /\ Right(p) \in DOMAIN t
        BY <2>3, TreeTyping
      <3>2. (g[Left(p)] <=> ~f[Left(p)]) /\ (g[Right(p)] <=> ~f[Right(p)])
        BY <3>1
      <3>3. \/ t[p].matcher = "or" /\ Invert(t)[p].matcher = "and"
            \/ t[p].matcher = "and" /\ Invert(t)[p].matcher = "or"
        BY <2>1, <2>3, InvertedNode, Duals
      <3>4. CASE t[p].matcher = "or" /\ Invert(t)[p].matcher = "and"
        <4>1. f[p] <=> f[Left(p)] \/ f[Right(p)]
          BY <3>4 DEF Evaluates
        <4>2. "and" \in DOMAIN Dual
          BY Duals
        <4>3. QED
          BY <2>2, <3>2, <3>4, <4>1, <4>2
      <3>5. CASE t[p].matcher = "and" /\ Invert(t)[p].matcher = "or"
        <4>1. f[p] <=> f[Left(p)] /\ f[Right(p)]
          BY <3>5 DEF Evaluates
        <4>2. "or" \in DOMAIN Dual
          BY Duals
        <4>3. QED
          BY <2>2, <3>2, <3>5, <4>1, <4>2
      <3>6. QED
        BY <3>3, <3>4, <3>5
    <2>4. CASE t[p].matcher \notin DOMAIN Dual
      <3>1. Invert(t)[p].matcher \notin DOMAIN Dual
        BY <2>1, <2>4, InvertedNode
      <3>2. f[p] <=> MatchLeaf(t[p], req)
        BY <2>4 DEF Evaluates
      <3>3. MatchLeaf(Invert(t)[p], req) <=> ~MatchLeaf(t[p], req)
        BY <2>1, <2>4, InvertedLeaf
      <3>4. Invert(t)[p].matcher # "or" /\ Invert(t)[p].matcher # "and"
        BY <3>1, Duals
      <3>5. QED
        BY <2>2, <3>1, <3>2, <3>3, <3>4
    <2>5. QED
      BY <2>3, <2>4
  <1>3. QED
    BY <1>1, <1>2, InvertedTree DEF Evaluates

\* A branch is evaluated as its operands are.
LEMMA BranchEvaluation ==
  ASSUME NEW op \in DOMAIN Dual, NEW l \in Trees, NEW r \in Trees, NEW req,
         NEW f, Evaluates(l, req, f), NEW g, Evaluates(r, req, g),
         NEW t, t = Branch(op, l, r)
  PROVE  \E h : /\ Evaluates(t, req, h)
                /\ op = "or" => (h[<<>>] <=> f[<<>>] \/ g[<<>>])
                /\ op = "and" => (h[<<>>] <=> f[<<>>] /\ g[<<>>])
  <1>1. /\ <<>> \in DOMAIN t /\ t[<<>>] = MatcherNode(op, <<>>)
        /\ \A p \in DOMAIN t : p = <<>> \/ (\E q \in DOMAIN l : p = Under(1, q))
                               \/ (\E q \in DOMAIN r : p = Under(2, q))
        /\ \A q \in DOMAIN l : Under(1, q) \in DOMAIN t /\ t[Under(1, q)] = l[q]
        /\ \A q \in DOMAIN r : Under(2, q) \in DOMAIN t /\ t[Under(2, q)] = r[q]
    <2>1. IsBranch(t, op, l, r)
      BY BranchDomain
    <2>2. QED
      BY <2>1 DEF IsBranch
  <1> DEFINE root == IF op = "or" THEN f[<<>>] \/ g[<<>>] ELSE f[<<>>] /\ g[<<>>]
             h == [p \in DOMAIN t |-> IF p = <<>> THEN root
                                      ELSE IF p[1] = 1 THEN f[Tail(p)] ELSE g[Tail(p)]]
  <1>2. h[<<>>] = root /\ root \in BOOLEAN
    BY <1>1
  <1>3. ASSUME NEW q \in DOMAIN l PROVE h[Under(1, q)] = f[q] /\ f[q] \in BOOLEAN
    <2>1. Under(1, q) \in DOMAIN t /\ Under(1, q) # <<>> /\ Under(1, q)[1] = 1 /\ Tail(Under(1, q)) = q
      BY <1>1, TreeTyping, Shifted
    <2>2. QED
      BY <2>1 DEF Evaluates
  <1>4. ASSUME NEW q \in DOMAIN r PROVE h[Under(2, q)] = g[q] /\ g[q] \in BOOLEAN
    <2>1. Under(2, q) \in DOMAIN t /\ Under(2, q) # <<>> /\ Tail(Under(2, q)) = q
          /\ Under(2, q)[1] = 2
      BY <1>1, TreeTyping, Shifted
    <2>2. Under(2, q)[1] # 1
      BY <2>1
    <2>3. h[Under(2, q)] = g[q]
      BY <2>1, <2>2
    <2>4. QED
      BY <2>3 DEF Evaluates
  <1>5. h \in [DOMAIN t -> BOOLEAN]
    <2>1. ASSUME NEW p \in DOMAIN t PROVE h[p] \in BOOLEAN
      <3> HIDE DEF h, root
      <3>1. QED
        BY <1>1, <1>2, <1>3, <1>4
    <2>2. QED
      BY <2>1
  <1>6. /\ <<>> \in DOMAIN l /\ <<>> \in DOMAIN r
        /\ Left(<<>>) = Under(1, <<>>) /\ Right(<<>>) = Under(2, <<>>)
    BY TreeTyping DEF Left, Right, Under
  <1>7. /\ op = "or" => (h[<<>>] <=> f[<<>>] \/ g[<<>>])
        /\ op = "and" => (h[<<>>] <=> f[<<>>] /\ g[<<>>])
    BY <1>2
  <1>8. h[Left(<<>>)] = f[<<>>] /\ h[Right(<<>>)] = g[<<>>]
    BY <1>3, <1>4, <1>6
  <1> HIDE DEF h, root
  <1>9. ASSUME NEW p \in DOMAIN t
        PROVE  /\ t[p].matcher = "or" => (h[p] <=> h[Left(p)] \/ h[Right(p)])
               /\ t[p].matcher = "and" => (h[p] <=> h[Left(p)] /\ h[Right(p)])
               /\ t[p].matcher \notin DOMAIN Dual => (h[p] <=> MatchLeaf(t[p], req))
    <2>1. CASE p = <<>>
      <3>1. t[p].matcher = op /\ op \in DOMAIN Dual
        BY <1>1, <2>1 DEF MatcherNode
      <3>2. QED
        BY <1>7, <1>8, <2>1, <3>1
    <2>2. ASSUME NEW q \in DOMAIN l, p = Under(1, q)
          PROVE  /\ t[p].matcher = "or" => (h[p] <=> h[Left(p)] \/ h[Right(p)])
                 /\ t[p].matcher = "and" => (h[p] <=> h[Left(p)] /\ h[Right(p)])
                 /\ t[p].matcher \notin DOMAIN Dual => (h[p] <=> MatchLeaf(t[p], req))
      <3>1. t[p] = l[q] /\ h[p] = f[q]
        BY <1>1, <1>3, <2>2
      <3>2. l[q].matcher \in DOMAIN Dual => h[Left(p)] = f[Left(q)] /\ h[Right(p)] = f[Right(q)]
        BY <1>3, <2>2, TreeTyping, Shifted
      <3>3. QED
        BY <3>1, <3>2, Duals DEF Evaluates
    <2>3. ASSUME NEW q \in DOMAIN r, p = Under(2, q)
          PROVE  /\ t[p].matcher = "or" => (h[p] <=> h[Left(p)] \/ h[Right(p)])
                 /\ t[p].matcher = "and" => (h[p] <=> h[Left(p)] /\ h[Right(p)])
                 /\ t[p].matcher \notin DOMAIN Dual => (h[p] <=> MatchLeaf(t[p], req))
      <3>1. t[p] = r[q] /\ h[p] = g[q]
        BY <1>1, <1>4, <2>3
      <3>2. r[q].matcher \in DOMAIN Dual => h[Left(p)] = g[Left(q)] /\ h[Right(p)] = g[Right(q)]
        BY <1>4, <2>3, TreeTyping, Shifted
      <3>3. QED
        BY <3>1, <3>2, Duals DEF Evaluates
    <2>4. QED
      BY <1>1, <2>1, <2>2, <2>3
  <1>10. QED
    BY <1>5, <1>7, <1>9 DEF Evaluates

\* What the checks of addRule say of composite trees.
LEMMA AddLeaf ==
  ASSUME NEW name \in DOMAIN Matchers, NEW args \in Seq(Texts)
  PROVE  AddRule(Leaf(name, args)) <=> Compiles(MatcherNode(name, args))
  <1>1. MatcherNode(name, args).matcher \notin DOMAIN Dual
    BY Duals DEF MatcherNode
  <1>2. QED
    BY <1>1, LeafIsTree DEF AddRule

\* addRule accepts an inverted tree if it accepts the tree, ...
LEMMA AddInverted ==
  ASSUME NEW t \in Trees
  PROVE  AddRule(Invert(t)) <=> AddRule(t)
  <1>1. ASSUME NEW p \in DOMAIN t
        PROVE  (Invert(t)[p].matcher \in DOMAIN Dual \/ Compiles(Invert(t)[p]))
                 <=> (t[p].matcher \in DOMAIN Dual \/ Compiles(t[p]))
    <2>1. t[p] \in TreeNode /\ Invert(t)[p] = InvertNode(t[p])
      BY TreeTyping, InvertedTree
    <2>2. CASE t[p].matcher \in DOMAIN Dual
      BY <2>1, <2>2, InvertedNode
    <2>3. CASE t[p].matcher \notin DOMAIN Dual
      <3>1. Invert(t)[p].matcher = t[p].matcher /\ Invert(t)[p].value = t[p].value
        BY <2>1, <2>3, InvertedNode
      <3>2. QED
        BY <3>1 DEF Compiles, CheckRule
    <2>4. QED
      BY <2>2, <2>3
  <1>2. QED
    BY <1>1, InvertedTree DEF AddRule

\* ... and a branch if it accepts both sides.
LEMMA AddBranch ==
  ASSUME NEW op \in DOMAIN Dual, NEW l \in Trees, NEW r \in Trees
  PROVE  AddRule(Branch(op, l, r)) <=> AddRule(l) /\ AddRule(r)
  <1>1. PICK t : t = Branch(op, l, r)
    OBVIOUS
  <1>2. /\ <<>> \in DOMAIN t /\ t[<<>>] = MatcherNode(op, <<>>)
        /\ \A p \in DOMAIN t : p = <<>> \/ (\E q \in DOMAIN l : p = Under(1, q))
                               \/ (\E q \in DOMAIN r : p = Under(2, q))
        /\ \A q \in DOMAIN l : Under(1, q) \in DOMAIN t /\ t[Under(1, q)] = l[q]
        /\ \A q \in DOMAIN r : Under(2, q) \in DOMAIN t /\ t[Under(2, q)] = r[q]
    <2>1. IsBranch(t, op, l, r)
      BY <1>1, BranchDomain
    <2>2. QED
      BY <2>1 DEF IsBranch
  <1>3. MatcherNode(op, <<>>).matcher \in DOMAIN Dual
    BY DEF MatcherNode
  <1>4. AddRule(t) <=> AddRule(l) /\ AddRule(r)
    BY <1>2, <1>3 DEF AddRule
  <1>5. QED
    BY <1>1, <1>4

-----------------------------------------------------------------------------
(***************************************************************************)
(* The bypass rule: what Parse builds of an expression                     *)
(***************************************************************************)
LEMMA ExpressionTyping ==
  ASSUME NEW e, IsExpression(e)
  PROVE  /\ <<>> \in DOMAIN e
         /\ \E n \in Nat : \A p \in DOMAIN e : Len(p) <= n
         /\ \A p \in DOMAIN e :
              /\ p \in Positions /\ Len(p) \in Nat /\ e[p] \in ExpressionNode
              /\ p # <<>> => Front(p) \in DOMAIN e /\ Last(p) \in Operands(e[Front(p)])
              /\ \A i \in Operands(e[p]) : Append(p, i) \in DOMAIN e
              /\ Operands(e[p]) \subseteq {1, 2}
  <1>1. \A n : Operands(n) \subseteq {1, 2}
    BY DEF Operands
  <1>2. \A p \in DOMAIN e : p \in Seq({1, 2})
    BY DEF IsExpression
  <1>3. \E n \in Nat : \A p \in DOMAIN e : Len(p) <= n
    <2>1. PICK d \in DOMAIN e : \A p \in DOMAIN e : Len(p) <= Len(d)
      BY DEF IsExpression
    <2>2. Len(d) \in Nat
      BY <1>2
    <2>3. QED
      BY <2>1, <2>2
  <1>4. \A p \in DOMAIN e : Len(p) \in Nat
    BY <1>2
  <1>5. QED
    BY <1>1, <1>2, <1>3, <1>4, Zenon DEF IsExpression, Positions

\* Induction over the positions of an expression, from the leaves up.
LEMMA FromTheLeaves ==
  ASSUME NEW e, IsExpression(e), NEW S,
         \A p \in DOMAIN e : (\A i \in Operands(e[p]) : Append(p, i) \in S) => p \in S
  PROVE  DOMAIN e \subseteq S
  <1>1. PICK n \in Nat : \A p \in DOMAIN e : Len(p) <= n
    BY ExpressionTyping
  <1> DEFINE Missing == {n - Len(p) : p \in DOMAIN e \ S}
  <1>2. SUFFICES ASSUME NEW q \in DOMAIN e, q \notin S PROVE FALSE
    OBVIOUS
  <1>3. Missing \subseteq Nat /\ Missing # {}
    <2>1. n - Len(q) \in Missing
      BY <1>2
    <2>2. ASSUME NEW p \in DOMAIN e PROVE n - Len(p) \in Nat
      BY <1>1, ExpressionTyping
    <2>3. QED
      BY <2>1, <2>2
  <1>4. PICK d \in Missing : \A m \in Missing : d <= m
    BY <1>3, SmallestNat
  <1>5. PICK p \in DOMAIN e \ S : d = n - Len(p)
    BY <1>4
  <1>6. ASSUME NEW i \in Operands(e[p]), Append(p, i) \notin S PROVE FALSE
    <2>1. Append(p, i) \in DOMAIN e
      BY <1>5, ExpressionTyping
    <2>2. Len(Append(p, i)) = Len(p) + 1
      BY <1>5, ExpressionTyping DEF Positions
    <2>3. Len(p) \in Nat
      BY <1>5, ExpressionTyping
    <2>4. n - Len(p) <= n - Len(Append(p, i))
      BY <1>4, <1>5, <1>6, <2>1
    <2>5. QED
      BY <2>2, <2>3, <2>4
  <1>7. QED
    BY <1>5, <1>6

\* And from the root down.
LEMMA FromTheRoot ==
  ASSUME NEW e, IsExpression(e), NEW S, <<>> \in S,
         \A p \in DOMAIN e : p \in S => \A i \in Operands(e[p]) : Append(p, i) \in S
  PROVE  DOMAIN e \subseteq S
  <1> DEFINE Missing == {Len(p) : p \in DOMAIN e \ S}
  <1>1. SUFFICES ASSUME NEW q \in DOMAIN e, q \notin S PROVE FALSE
    OBVIOUS
  <1>2. Missing \subseteq Nat /\ Missing # {}
    BY <1>1, ExpressionTyping
  <1>3. PICK d \in Missing : \A m \in Missing : d <= m
    BY <1>2, SmallestNat
  <1>4. PICK p \in DOMAIN e \ S : d = Len(p)
    BY <1>3
  <1>5. p # <<>> /\ p \in Positions
    BY <1>4, ExpressionTyping
  <1>6. Front(p) \in DOMAIN e /\ Last(p) \in Operands(e[Front(p)])
    BY <1>4, <1>5, ExpressionTyping
  <1>7. p = Append(Front(p), Last(p)) /\ Len(Front(p)) = Len(p) - 1 /\ Len(p) \in Nat
    BY <1>5, FrontAndLast DEF Positions
  <1>8. Front(p) \in S
    <2>1. SUFFICES ASSUME Front(p) \notin S PROVE FALSE
      OBVIOUS
    <2>2. Len(p) <= Len(Front(p))
      BY <1>3, <1>4, <1>6, <2>1
    <2>3. QED
      BY <1>7, <2>2
  <1>9. QED
    BY <1>4, <1>6, <1>7, <1>8

\* What Parse makes of the node at p, from what f says its operands are.
ParsedNode(e, f, p) ==
  CASE e[p].op \in {"call", "lit", "ident"} -> Evaluate(e[p])
    [] e[p].op = "paren" -> f[Left(p)]
    [] e[p].op = "!" -> Negate(f[Left(p)])
    [] OTHER -> Join(e[p].op, f[Left(p)], f[Right(p)])

\* All of it.
Parsed(e, f) == \A p \in DOMAIN e : f[p] = ParsedNode(e, f, p)

\* The operands of each kind of node.
LEMMA OperandsOf ==
  ASSUME NEW e, IsExpression(e), NEW p \in DOMAIN e
  PROVE  /\ e[p].op \in {"call", "lit", "ident"} => Operands(e[p]) = {}
         /\ e[p].op \in {"paren", "!"} => Operands(e[p]) = {1} /\ Left(p) \in DOMAIN e
         /\ e[p].op \notin {"call", "lit", "ident", "paren", "!"} =>
              Operands(e[p]) = {1, 2} /\ Left(p) \in DOMAIN e /\ Right(p) \in DOMAIN e
  <1>1. /\ e[p].op \in {"call", "lit", "ident"} => Operands(e[p]) = {}
        /\ e[p].op \in {"paren", "!"} => Operands(e[p]) = {1}
        /\ e[p].op \notin {"call", "lit", "ident", "paren", "!"} => Operands(e[p]) = {1, 2}
    BY DEF Operands
  <1>2. \A i \in Operands(e[p]) : Append(p, i) \in DOMAIN e
    BY ExpressionTyping
  <1>3. QED
    BY <1>1, <1>2 DEF Left, Right

\* The value of a leaf.
LEMMA Evaluated ==
  ASSUME NEW n \in ExpressionNode
  PROVE  /\ Evaluate(n) \in ParseValues
         /\ n.op = "call" => IF n.name \in DOMAIN Matchers /\ \A i \in DOMAIN n.args : n.args[i].op = "lit"
                             THEN /\ [i \in DOMAIN n.args |-> n.args[i].value] \in Seq(Texts)
                                  /\ Evaluate(n) = Builder(Leaf(n.name, [i \in DOMAIN n.args |-> n.args[i].value]))
                             ELSE Evaluate(n) = Error
         /\ n.op \in {"lit", "ident"} => Evaluate(n).sort # "builder"
  <1>1. CASE n.op = "call"
    <2>1. n.args \in Seq(Argument)
      BY <1>1 DEF ExpressionNode, Argument
    <2>2. CASE n.name \in DOMAIN Matchers /\ \A i \in DOMAIN n.args : n.args[i].op = "lit"
      <3> DEFINE args == [i \in DOMAIN n.args |-> n.args[i].value]
      <3>1. \A i \in DOMAIN n.args : n.args[i].value \in Texts
        BY <2>1, <2>2 DEF Argument
      <3>2. args \in Seq(Texts)
        BY <2>1, <3>1
      <3>3. Leaf(n.name, args) \in Trees
        BY <2>2, <3>2, LeafIsTree
      <3>4. Evaluate(n) = Builder(Leaf(n.name, args))
        BY <1>1, <2>2 DEF Evaluate
      <3>5. Evaluate(n) \in ParseValues
        BY <3>3, <3>4 DEF ParseValues
      <3>6. QED
        BY <1>1, <2>2, <3>2, <3>4, <3>5
    <2>3. CASE ~(n.name \in DOMAIN Matchers /\ \A i \in DOMAIN n.args : n.args[i].op = "lit")
      <3>1. Evaluate(n) = Error
        BY <1>1, <2>3 DEF Evaluate
      <3>2. QED
        BY <1>1, <2>3, <3>1 DEF ParseValues
    <2>4. QED
      BY <2>2, <2>3
  <1>2. CASE n.op = "lit"
    <2>1. n.value \in Texts /\ Evaluate(n) = Text(n.value)
      BY <1>2 DEF ExpressionNode, Argument, Evaluate
    <2>2. QED
      BY <1>2, <2>1 DEF ParseValues, Text
  <1>3. CASE n.op \notin {"lit", "call"}
    <2>1. Evaluate(n) = Error
      BY <1>3 DEF Evaluate
    <2>2. QED
      BY <1>3, <2>1 DEF ParseValues, Error
  <1>4. QED
    BY <1>1, <1>2, <1>3

LEMMA NegatedValue ==
  ASSUME NEW x \in ParseValues
  PROVE  Negate(x) \in ParseValues
  <1>1. CASE x.sort = "builder"
    <2>1. x.tree \in Trees
      BY <1>1 DEF ParseValues, Error, Text, Builder
    <2>2. Negate(x) = Builder(Invert(x.tree)) /\ Invert(x.tree) \in Trees
      BY <1>1, <2>1, InvertedTree DEF Negate
    <2>3. QED
      BY <2>2 DEF ParseValues
  <1>2. CASE x.sort # "builder"
    BY <1>2 DEF Negate, ParseValues
  <1>3. QED
    BY <1>1, <1>2

LEMMA Joins ==
  /\ DOMAIN JoinFunctions = {"&&", "||"}
  /\ JoinFunctions["&&"] = "and" /\ JoinFunctions["||"] = "or"
  BY DEF JoinFunctions

LEMMA JoinedValue ==
  ASSUME NEW op, NEW x \in ParseValues, NEW y \in ParseValues
  PROVE  Join(op, x, y) \in ParseValues
  <1>1. CASE op \in DOMAIN JoinFunctions /\ x.sort = "builder" /\ y.sort = "builder"
    <2>1. x.tree \in Trees /\ y.tree \in Trees
      BY <1>1 DEF ParseValues, Error, Text, Builder
    <2>2. JoinFunctions[op] \in DOMAIN Dual
      BY <1>1, Joins, Duals
    <2>3. Branch(JoinFunctions[op], x.tree, y.tree) \in Trees
      BY <2>1, <2>2, BranchIsTree
    <2>4. Join(op, x, y) = Builder(Branch(JoinFunctions[op], x.tree, y.tree))
      BY <1>1 DEF Join
    <2>5. QED
      BY <2>3, <2>4 DEF ParseValues
  <1>2. CASE ~(op \in DOMAIN JoinFunctions /\ x.sort = "builder" /\ y.sort = "builder")
    <2>1. Join(op, x, y) = Error
      BY <1>2 DEF Join
    <2>2. QED
      BY <2>1 DEF ParseValues
  <1>3. QED
    BY <1>1, <1>2

\* Parse gives values only.
LEMMA ParsedNodeIsValue ==
  ASSUME NEW e, IsExpression(e), NEW f, NEW p \in DOMAIN e,
         \A i \in Operands(e[p]) : f[Append(p, i)] \in ParseValues
  PROVE  ParsedNode(e, f, p) \in ParseValues
  <1>1. CASE e[p].op \in {"call", "lit", "ident"}
    BY <1>1, ExpressionTyping, Evaluated DEF ParsedNode
  <1>2. CASE e[p].op \in {"paren", "!"}
    <2>1. f[Left(p)] \in ParseValues
      BY <1>2, OperandsOf DEF Left
    <2>2. QED
      BY <1>2, <2>1, NegatedValue DEF ParsedNode
  <1>3. CASE e[p].op \notin {"call", "lit", "ident", "paren", "!"}
    <2>1. f[Left(p)] \in ParseValues /\ f[Right(p)] \in ParseValues
      BY <1>3, OperandsOf DEF Left, Right
    <2>2. ParsedNode(e, f, p) = Join(e[p].op, f[Left(p)], f[Right(p)])
      BY <1>3 DEF ParsedNode
    <2>3. QED
      BY <2>1, <2>2, JoinedValue
  <1>4. QED
    BY <1>1, <1>2, <1>3

\* A measure of positions: the deeper, the smaller.
LEMMA Depth ==
  ASSUME NEW e, IsExpression(e)
  PROVE  \E n \in Nat : \E h \in [DOMAIN e -> 0..n] :
           \A p \in DOMAIN e : \A i \in Operands(e[p]) : h[Append(p, i)] < h[p]
  <1>1. PICK n \in Nat : \A p \in DOMAIN e : Len(p) <= n
    BY ExpressionTyping
  <1> DEFINE h == [p \in DOMAIN e |-> n - Len(p)]
  <1>2. h \in [DOMAIN e -> 0..n]
    BY <1>1, ExpressionTyping
  <1>3. ASSUME NEW p \in DOMAIN e, NEW i \in Operands(e[p]) PROVE h[Append(p, i)] < h[p]
    <2>1. Append(p, i) \in DOMAIN e /\ Len(p) \in Nat
      BY ExpressionTyping
    <2>2. Len(Append(p, i)) = Len(p) + 1
      BY ExpressionTyping DEF Positions
    <2>3. QED
      BY <2>1, <2>2
  <1>4. QED
    BY <1>2, <1>3

\* A function on the positions may be defined by what it is at the operands.
IsFold(e, V, G) ==
  /\ V # {}
  /\ \A p \in DOMAIN e, f \in [DOMAIN e -> V] : G[p][f] \in V
  /\ \A p \in DOMAIN e, f, g \in [DOMAIN e -> V] :
       (\A i \in Operands(e[p]) : f[Append(p, i)] = g[Append(p, i)]) => G[p][f] = G[p][g]

LEMMA ExpressionRecursion ==
  ASSUME NEW e, IsExpression(e), NEW V, NEW G, IsFold(e, V, G)
  PROVE  \E f \in [DOMAIN e -> V] : \A p \in DOMAIN e : f[p] = G[p][f]
  <1>1. PICK n \in Nat : \E h \in [DOMAIN e -> 0..n] :
               \A p \in DOMAIN e : \A i \in Operands(e[p]) : h[Append(p, i)] < h[p]
    BY Depth
  <1>2. PICK h \in [DOMAIN e -> 0..n] :
               \A p \in DOMAIN e : \A i \in Operands(e[p]) : h[Append(p, i)] < h[p]
    BY <1>1
  <1>3. ASSUME NEW p \in DOMAIN e, NEW f \in [DOMAIN e -> V], NEW g \in [DOMAIN e -> V],
               \A q \in DOMAIN e : h[q] < h[p] => f[q] = g[q]
        PROVE  G[p][f] = G[p][g]
    <2>1. \A i \in Operands(e[p]) : Append(p, i) \in DOMAIN e
      BY ExpressionTyping
    <2>2. \A i \in Operands(e[p]) : f[Append(p, i)] = g[Append(p, i)]
      BY <1>2, <1>3, <2>1
    <2>3. QED
      BY <2>2 DEF IsFold
  <1>4. IsRecursion(DOMAIN e, V, n, h, G)
    BY <1>3 DEF IsRecursion, IsFold
  <1>5. QED
    BY <1>4, Recursion

\* So the equations of Parse have a solution, ...
LEMMA ParseExists ==
  ASSUME NEW e, IsExpression(e)
  PROVE  \E f \in [DOMAIN e -> ParseValues] : Parsed(e, f)
  <1> DEFINE F == [DOMAIN e -> ParseValues]
             G == [p \in DOMAIN e |-> [f \in F |-> ParsedNode(e, f, p)]]
  <1>1. \A p \in DOMAIN e, f \in F : G[p][f] = ParsedNode(e, f, p)
    BY Zenon
  <1>2. ParseValues # {}
    BY DEF ParseValues
  <1>3. ASSUME NEW p \in DOMAIN e, NEW f \in F PROVE G[p][f] \in ParseValues
    <2>1. \A i \in Operands(e[p]) : f[Append(p, i)] \in ParseValues
      BY ExpressionTyping
    <2>2. ParsedNode(e, f, p) \in ParseValues
      BY <2>1, ParsedNodeIsValue
    <2>3. QED
      BY <1>1, <2>2, Zenon
  <1>4. ASSUME NEW p \in DOMAIN e, NEW f \in F, NEW g \in F,
               \A i \in Operands(e[p]) : f[Append(p, i)] = g[Append(p, i)]
        PROVE  G[p][f] = G[p][g]
    <2>1. ParsedNode(e, f, p) = ParsedNode(e, g, p)
      <3>1. CASE e[p].op \in {"call", "lit", "ident"}
        BY <3>1 DEF ParsedNode
      <3>2. CASE e[p].op \in {"paren", "!"}
        <4>1. f[Left(p)] = g[Left(p)]
          BY <1>4, <3>2, OperandsOf DEF Left
        <4>2. QED
          BY <3>2, <4>1 DEF ParsedNode
      <3>3. CASE e[p].op \notin {"call", "lit", "ident", "paren", "!"}
        <4>1. f[Left(p)] = g[Left(p)] /\ f[Right(p)] = g[Right(p)]
          BY <1>4, <3>3, OperandsOf DEF Left, Right
        <4>2. QED
          BY <3>3, <4>1 DEF ParsedNode
      <3>4. QED
        BY <3>1, <3>2, <3>3
    <2>2. QED
      BY <1>1, <2>1, Zenon
  <1>5. IsFold(e, ParseValues, G)
    <2> HIDE DEF G
    <2>1. QED
      BY <1>2, <1>3, <1>4 DEF IsFold
  <1>6. PICK f \in F : \A p \in DOMAIN e : f[p] = G[p][f]
    <2> HIDE DEF G
    <2>1. QED
      BY <1>5, ExpressionRecursion
  <1>7. \A p \in DOMAIN e : f[p] = ParsedNode(e, f, p)
    BY <1>1, <1>6, Zenon
  <1>8. QED
    BY <1>6, <1>7 DEF Parsed

\* ... and Parse is what one of them says of the root.
LEMMA ParseRecursion ==
  ASSUME NEW e, NEW f, f = [p \in DOMAIN e |-> ParsedNode(e, f, p)]
  PROVE  \E g : g = [p \in DOMAIN e |-> ParsedNode(e, g, p)] /\ Parse(e) = g[<<>>]
  BY Zenon DEF Parse, ParsedNode

\* Parse gives the root the value of some f with all of these.
LEMMA ParseIsParsed ==
  ASSUME NEW e, IsExpression(e)
  PROVE  \E g : Parsed(e, g) /\ Parse(e) = g[<<>>] /\ \A p \in DOMAIN e : g[p] \in ParseValues
  <1>1. PICK f \in [DOMAIN e -> ParseValues] : Parsed(e, f)
    BY ParseExists
  <1>2. f = [p \in DOMAIN e |-> ParsedNode(e, f, p)]
    BY <1>1 DEF Parsed
  <1>3. PICK g : g = [p \in DOMAIN e |-> ParsedNode(e, g, p)] /\ Parse(e) = g[<<>>]
    BY <1>2, ParseRecursion
  <1>4. Parsed(e, g)
    BY <1>3, Zenon DEF Parsed
  <1> DEFINE S == {p \in DOMAIN e : g[p] \in ParseValues}
  <1>5. ASSUME NEW p \in DOMAIN e, \A i \in Operands(e[p]) : Append(p, i) \in S PROVE p \in S
    BY <1>4, <1>5, ParsedNodeIsValue DEF Parsed
  <1>6. DOMAIN e \subseteq S
    <2> HIDE DEF S
    <2>1. QED
      BY <1>5, FromTheLeaves
  <1>7. QED
    BY <1>3, <1>4, <1>6

ConditionNode(n) == IsCall(n) \/ n.op \in {"paren", "!", "&&", "||"}

\* A value of Parse that addRule accepts, ...
Accepted(x) == x.sort = "builder" /\ AddRule(x.tree)

\* ... and one whose tree says of the request what b does.
Means(x, req, b) ==
  /\ Accepted(x) /\ x.tree \in Trees /\ b \in BOOLEAN
  /\ \E f : Evaluates(x.tree, req, f) /\ (f[<<>>] <=> b)

LEMMA BuilderIs ==
  ASSUME NEW t
  PROVE  Builder(t).sort = "builder" /\ Builder(t).tree = t
  BY DEF Builder

LEMMA ValueIs ==
  ASSUME NEW x \in ParseValues, x.sort = "builder"
  PROVE  x.tree \in Trees /\ x = Builder(x.tree)
  BY DEF ParseValues, Error, Text, Builder

LEMMA ArgumentsOf ==
  ASSUME NEW n \in ExpressionNode, n.op = "call", \A i \in DOMAIN n.args : n.args[i].op = "lit",
         NEW args, args = [i \in DOMAIN n.args |-> n.args[i].value]
  PROVE  /\ args \in Seq(Texts) /\ Len(args) = Len(n.args) /\ DOMAIN args = DOMAIN n.args
         /\ \A i \in DOMAIN args : args[i] = n.args[i].value
         /\ args # <<>> => Last(args) = Last(n.args).value
  <1>1. n.args \in Seq(Argument)
    BY DEF ExpressionNode, Argument
  <1>2. \A i \in DOMAIN n.args : n.args[i].value \in Texts
    BY <1>1 DEF Argument
  <1>3. /\ args \in Seq(Texts) /\ Len(args) = Len(n.args) /\ DOMAIN args = DOMAIN n.args
        /\ \A i \in DOMAIN args : args[i] = n.args[i].value
    BY <1>1, <1>2
  <1>4. ASSUME args # <<>> PROVE Last(args) = Last(n.args).value
    <2>1. Len(args) \in DOMAIN args
      BY <1>3, <1>4
    <2>2. QED
      BY <1>3, <2>1 DEF Last
  <1>5. QED
    BY <1>3, <1>4

\* addRule accepts the calls it should.
LEMMA CallCompiles ==
  ASSUME NEW n \in ExpressionNode, n.op = "call", n.name \in DOMAIN Matchers,
         \A i \in DOMAIN n.args : n.args[i].op = "lit",
         NEW args, args = [i \in DOMAIN n.args |-> n.args[i].value]
  PROVE  Compiles(MatcherNode(n.name, args)) <=> IsCall(n)
  <1>1. /\ args \in Seq(Texts) /\ Len(args) = Len(n.args) /\ DOMAIN args = DOMAIN n.args
        /\ \A i \in DOMAIN args : args[i] = n.args[i].value
        /\ args # <<>> => Last(args) = Last(n.args).value
    <2>1. \A i \in DOMAIN n.args : n.args[i].op = "lit"
      OBVIOUS
    <2>2. QED
      BY <2>1, ArgumentsOf
  <1>2. Matchers[n.name].arity \in {1, 2}
    BY MatcherTyping
  <1>3. MatcherNode(n.name, args).matcher = n.name /\ MatcherNode(n.name, args).value = args
    BY DEF MatcherNode
  <1>4. Len(args) = Matchers[n.name].arity => args # <<>>
    BY <1>1, <1>2
  <1>5. CheckRule(MatcherNode(n.name, args)) <=> args # <<>> /\ \A i \in DOMAIN n.args : n.args[i].value # Empty
    BY <1>1, <1>3 DEF CheckRule
  <1>6. QED
    BY <1>1, <1>3, <1>4, <1>5 DEF Compiles, IsCall

LEMMA CompareIsBoolean ==
  ASSUME NEW name \in DOMAIN Matchers, NEW expected, NEW actual
  PROVE  Compare(Matchers[name].by, expected, actual) \in BOOLEAN
  BY MatcherTyping DEF Compare, IsPrefix, Occurs

\* Parse makes a matcher of a well-formed call, and addRule accepts no other.
LEMMA CallValue ==
  ASSUME NEW n \in ExpressionNode, n.op = "call", NEW req
  PROVE  /\ Accepted(Evaluate(n)) <=> IsCall(n)
         /\ IsCall(n) => Means(Evaluate(n), req, CallHolds(n, req))
  <1>1. CASE n.name \in DOMAIN Matchers /\ \A i \in DOMAIN n.args : n.args[i].op = "lit"
    <2>1. PICK args : args = [i \in DOMAIN n.args |-> n.args[i].value]
      OBVIOUS
    <2>2. args \in Seq(Texts) /\ Evaluate(n) = Builder(Leaf(n.name, args))
      BY <1>1, <2>1, Evaluated
    <2>3. Compiles(MatcherNode(n.name, args)) <=> IsCall(n)
      BY <1>1, <2>1, CallCompiles
    <2>4. Accepted(Evaluate(n)) <=> IsCall(n)
      BY <1>1, <2>2, <2>3, AddLeaf, BuilderIs DEF Accepted
    <2>5. ASSUME IsCall(n) PROVE Means(Evaluate(n), req, CallHolds(n, req))
      <3>1. Leaf(n.name, args) \in Trees
        BY <1>1, <2>2, LeafIsTree
      <3>2. CallHolds(n, req) = Compare(Matchers[n.name].by, Last(args), Actual(MatcherNode(n.name, args), req))
        BY <2>1, Zenon DEF CallHolds
      <3>3. CallHolds(n, req) \in BOOLEAN
        BY <1>1, <3>2, CompareIsBoolean
      <3>4. MatchLeaf(MatcherNode(n.name, args), req) <=> CallHolds(n, req)
        <4>1. /\ MatcherNode(n.name, args).matcher = n.name /\ MatcherNode(n.name, args).value = args
              /\ MatcherNode(n.name, args).not = FALSE
          BY DEF MatcherNode
        <4>2. QED
          BY <3>2, <3>3, <4>1 DEF MatchLeaf
      <3>5. PICK f : f = [p \in {<<>>} |-> MatchLeaf(MatcherNode(n.name, args), req)]
        OBVIOUS
      <3>6. Evaluates(Leaf(n.name, args), req, f)
        BY <1>1, <2>2, <3>5, LeafEvaluation
      <3>7. f[<<>>] <=> CallHolds(n, req)
        BY <3>4, <3>5
      <3>8. QED
        BY <2>2, <2>4, <2>5, <3>1, <3>3, <3>6, <3>7, BuilderIs DEF Means
    <2>6. QED
      BY <2>4, <2>5
  <1>2. CASE ~(n.name \in DOMAIN Matchers /\ \A i \in DOMAIN n.args : n.args[i].op = "lit")
    <2>1. Evaluate(n) = Error
      BY <1>2, Evaluated
    <2>2. Error.sort # "builder"
      BY DEF Error
    <2>3. QED
      BY <1>2, <2>1, <2>2 DEF Accepted, IsCall
  <1>3. QED
    BY <1>1, <1>2

\* A negation and an operator are accepted if their operands are, and mean what they say.
LEMMA NegationAccepted ==
  ASSUME NEW x \in ParseValues, NEW req, NEW b
  PROVE  /\ Accepted(Negate(x)) => Accepted(x)
         /\ Means(x, req, b) => Means(Negate(x), req, ~b)
  <1>1. CASE x.sort = "builder"
    <2>1. x.tree \in Trees
      BY <1>1, ValueIs
    <2>2. Negate(x).sort = "builder" /\ Negate(x).tree = Invert(x.tree)
      BY <1>1, BuilderIs DEF Negate
    <2>3. Accepted(Negate(x)) <=> Accepted(x)
      BY <1>1, <2>1, <2>2, AddInverted DEF Accepted
    <2>4. ASSUME Means(x, req, b) PROVE Means(Negate(x), req, ~b)
      <3>1. PICK f : Evaluates(x.tree, req, f) /\ (f[<<>>] <=> b)
        BY <2>4 DEF Means
      <3>2. PICK g : g = [p \in DOMAIN x.tree |-> ~f[p]]
        OBVIOUS
      <3>3. Evaluates(Invert(x.tree), req, g)
        BY <2>1, <3>1, <3>2, InvertEvaluation
      <3>4. g[<<>>] <=> ~b
        BY <2>1, <3>1, <3>2, TreeTyping
      <3>5. Invert(x.tree) \in Trees
        BY <2>1, InvertedTree
      <3>6. QED
        BY <2>2, <2>3, <2>4, <3>3, <3>4, <3>5 DEF Means
    <2>5. QED
      BY <2>3, <2>4
  <1>2. CASE x.sort # "builder"
    <2>1. Negate(x) = Error /\ Error.sort # "builder"
      BY <1>2 DEF Negate, Error
    <2>2. QED
      BY <1>2, <2>1 DEF Accepted, Means
  <1>3. QED
    BY <1>1, <1>2

LEMMA JoinAccepted ==
  ASSUME NEW op, NEW x \in ParseValues, NEW y \in ParseValues
  PROVE  Accepted(Join(op, x, y)) <=> op \in {"&&", "||"} /\ Accepted(x) /\ Accepted(y)
  <1>1. CASE op \in DOMAIN JoinFunctions /\ x.sort = "builder" /\ y.sort = "builder"
    <2>1. x.tree \in Trees /\ y.tree \in Trees
      BY <1>1, ValueIs
    <2>2. JoinFunctions[op] \in DOMAIN Dual
      BY <1>1, Joins, Duals
    <2>3. AddRule(Branch(JoinFunctions[op], x.tree, y.tree)) <=> AddRule(x.tree) /\ AddRule(y.tree)
      BY <2>1, <2>2, AddBranch
    <2>4. Join(op, x, y).sort = "builder" /\ Join(op, x, y).tree = Branch(JoinFunctions[op], x.tree, y.tree)
      BY <1>1, BuilderIs DEF Join
    <2>5. QED
      BY <1>1, <2>3, <2>4, Joins DEF Accepted
  <1>2. CASE ~(op \in DOMAIN JoinFunctions /\ x.sort = "builder" /\ y.sort = "builder")
    <2>1. Join(op, x, y) = Error /\ Error.sort # "builder"
      BY <1>2 DEF Join, Error
    <2>2. QED
      BY <1>2, <2>1, Joins DEF Accepted
  <1>3. QED
    BY <1>1, <1>2

LEMMA JoinMeans ==
  ASSUME NEW op \in {"&&", "||"}, NEW x \in ParseValues, NEW y \in ParseValues, NEW req,
         NEW b, NEW c, Means(x, req, b), Means(y, req, c)
  PROVE  /\ op = "&&" => Means(Join(op, x, y), req, b /\ c)
         /\ op = "||" => Means(Join(op, x, y), req, b \/ c)
  <1>1. x.sort = "builder" /\ y.sort = "builder" /\ x.tree \in Trees /\ y.tree \in Trees
    BY ValueIs DEF Means, Accepted
  <1>2. JoinFunctions[op] \in DOMAIN Dual
    BY Joins, Duals
  <1>3. PICK t : t = Branch(JoinFunctions[op], x.tree, y.tree)
    OBVIOUS
  <1>4. Join(op, x, y).sort = "builder" /\ Join(op, x, y).tree = t
    BY <1>1, <1>3, Joins, BuilderIs DEF Join
  <1>5. t \in Trees
    BY <1>1, <1>2, <1>3, BranchIsTree
  <1>6. Accepted(Join(op, x, y))
    BY JoinAccepted DEF Means
  <1>7. PICK f : Evaluates(x.tree, req, f) /\ (f[<<>>] <=> b)
    BY DEF Means
  <1>8. PICK g : Evaluates(y.tree, req, g) /\ (g[<<>>] <=> c)
    BY DEF Means
  <1>9. PICK h : /\ Evaluates(t, req, h)
                 /\ JoinFunctions[op] = "or" => (h[<<>>] <=> f[<<>>] \/ g[<<>>])
                 /\ JoinFunctions[op] = "and" => (h[<<>>] <=> f[<<>>] /\ g[<<>>])
    BY <1>1, <1>2, <1>3, <1>7, <1>8, BranchEvaluation
  <1>10. CASE op = "&&"
    <2>1. h[<<>>] <=> b /\ c
      BY <1>7, <1>8, <1>9, <1>10, Joins
    <2>2. QED
      BY <1>4, <1>5, <1>6, <1>9, <1>10, <2>1 DEF Means
  <1>11. CASE op = "||"
    <2>1. h[<<>>] <=> b \/ c
      BY <1>7, <1>8, <1>9, <1>11, Joins
    <2>2. QED
      BY <1>4, <1>5, <1>6, <1>9, <1>11, <2>1 DEF Means
  <1>12. QED
    BY <1>10, <1>11

\* The value that Parse gives to a node says what the node does, and the operands, ...
LEMMA NodeAccepted ==
  ASSUME NEW e, IsExpression(e), NEW g, Parsed(e, g), \A p \in DOMAIN e : g[p] \in ParseValues,
         NEW p \in DOMAIN e, Accepted(g[p])
  PROVE  ConditionNode(e[p]) /\ \A i \in Operands(e[p]) : Accepted(g[Append(p, i)])
  <1>1. g[p] = ParsedNode(e, g, p) /\ e[p] \in ExpressionNode
    BY ExpressionTyping DEF Parsed
  <1>2. CASE e[p].op \in {"call", "lit", "ident"}
    <2>1. g[p] = Evaluate(e[p]) /\ Operands(e[p]) = {}
      BY <1>1, <1>2, OperandsOf DEF ParsedNode
    <2>2. e[p].op = "call"
      BY <1>1, <1>2, <2>1, Evaluated DEF Accepted
    <2>3. QED
      BY <1>1, <2>1, <2>2, CallValue DEF ConditionNode
  <1>3. CASE e[p].op \in {"paren", "!"}
    <2>1. Left(p) \in DOMAIN e /\ Operands(e[p]) = {1}
      BY <1>3, OperandsOf
    <2>2. g[p] = g[Left(p)] \/ g[p] = Negate(g[Left(p)])
      BY <1>1, <1>3 DEF ParsedNode
    <2>3. Accepted(g[Left(p)])
      BY <2>1, <2>2, NegationAccepted
    <2>4. QED
      BY <1>3, <2>1, <2>3 DEF ConditionNode, Left
  <1>4. CASE e[p].op \notin {"call", "lit", "ident", "paren", "!"}
    <2>1. Left(p) \in DOMAIN e /\ Right(p) \in DOMAIN e /\ Operands(e[p]) = {1, 2}
      BY <1>4, OperandsOf
    <2>2. g[p] = Join(e[p].op, g[Left(p)], g[Right(p)])
      BY <1>1, <1>4 DEF ParsedNode
    <2>3. e[p].op \in {"&&", "||"} /\ Accepted(g[Left(p)]) /\ Accepted(g[Right(p)])
      BY <2>1, <2>2, JoinAccepted
    <2>4. QED
      BY <2>1, <2>3 DEF ConditionNode, Left, Right
  <1>5. QED
    BY <1>2, <1>3, <1>4

\* What a condition says at the node p, from what f says its operands say.
HoldsNode(e, req, f, p) ==
  CASE e[p].op = "call"  -> CallHolds(e[p], req)
    [] e[p].op = "paren" -> f[Left(p)]
    [] e[p].op = "!"     -> ~f[Left(p)]
    [] e[p].op = "&&"    -> f[Left(p)] /\ f[Right(p)]
    [] OTHER             -> f[Left(p)] \/ f[Right(p)]

\* ... and, of a condition, the same as the node.
LEMMA NodeMeans ==
  ASSUME NEW e, IsExpression(e), NEW g, Parsed(e, g), \A p \in DOMAIN e : g[p] \in ParseValues,
         NEW p \in DOMAIN e, ConditionNode(e[p]), NEW req, NEW f,
         \A i \in Operands(e[p]) : Means(g[Append(p, i)], req, f[Append(p, i)])
  PROVE  Means(g[p], req, HoldsNode(e, req, f, p))
  <1>1. g[p] = ParsedNode(e, g, p) /\ e[p] \in ExpressionNode
    BY ExpressionTyping DEF Parsed
  <1>2. CASE IsCall(e[p])
    <2>1. e[p].op = "call"
      BY <1>2 DEF IsCall
    <2>2. g[p] = Evaluate(e[p])
      BY <1>1, <2>1 DEF ParsedNode
    <2>3. HoldsNode(e, req, f, p) = CallHolds(e[p], req)
      BY <2>1 DEF HoldsNode
    <2>4. QED
      BY <1>1, <1>2, <2>1, <2>2, <2>3, CallValue
  <1>3. CASE e[p].op = "paren"
    <2>1. Means(g[Left(p)], req, f[Left(p)])
      BY <1>3, OperandsOf DEF Left
    <2>2. g[p] = g[Left(p)] /\ HoldsNode(e, req, f, p) = f[Left(p)]
      BY <1>1, <1>3 DEF ParsedNode, HoldsNode
    <2>3. QED
      BY <2>1, <2>2
  <1>4. CASE e[p].op = "!"
    <2>1. Left(p) \in DOMAIN e /\ Means(g[Left(p)], req, f[Left(p)])
      BY <1>4, OperandsOf DEF Left
    <2>2. g[p] = Negate(g[Left(p)])
      BY <1>1, <1>4 DEF ParsedNode
    <2>3. HoldsNode(e, req, f, p) = ~f[Left(p)]
      BY <1>4 DEF HoldsNode
    <2>4. Means(Negate(g[Left(p)]), req, ~f[Left(p)])
      BY <2>1, NegationAccepted
    <2>5. QED
      BY <2>2, <2>3, <2>4
  <1>5. CASE e[p].op \in {"&&", "||"}
    <2>1. /\ Left(p) \in DOMAIN e /\ Means(g[Left(p)], req, f[Left(p)])
          /\ Right(p) \in DOMAIN e /\ Means(g[Right(p)], req, f[Right(p)])
      BY <1>5, OperandsOf DEF Left, Right
    <2>2. g[p] = Join(e[p].op, g[Left(p)], g[Right(p)])
      BY <1>1, <1>5 DEF ParsedNode
    <2>3. /\ e[p].op = "&&" => Means(g[p], req, f[Left(p)] /\ f[Right(p)])
          /\ e[p].op = "||" => Means(g[p], req, f[Left(p)] \/ f[Right(p)])
      BY <1>5, <2>1, <2>2, JoinMeans
    <2>4. /\ e[p].op = "&&" => HoldsNode(e, req, f, p) = (f[Left(p)] /\ f[Right(p)])
          /\ e[p].op = "||" => HoldsNode(e, req, f, p) = (f[Left(p)] \/ f[Right(p)])
      BY DEF HoldsNode
    <2>5. QED
      BY <1>5, <2>3, <2>4
  <1>6. QED
    BY <1>2, <1>3, <1>4, <1>5 DEF ConditionNode

LEMMA ConditionTyping ==
  ASSUME NEW e, IsExpression(e), IsCondition(e), NEW p \in DOMAIN e
  PROVE  /\ e[p] \in ExpressionNode /\ ConditionNode(e[p])
         /\ e[p].op \in {"call", "paren", "!", "&&", "||"}
         /\ e[p].op = "call" => e[p].name \in DOMAIN Matchers
  <1>1. ConditionNode(e[p])
    BY DEF IsCondition, ConditionNode
  <1>2. QED
    BY <1>1, ExpressionTyping DEF ConditionNode, IsCall

LEMMA HoldsNodeIsBoolean ==
  ASSUME NEW e, IsExpression(e), IsCondition(e), NEW req, NEW f, NEW p \in DOMAIN e,
         \A i \in Operands(e[p]) : f[Append(p, i)] \in BOOLEAN
  PROVE  HoldsNode(e, req, f, p) \in BOOLEAN
  <1>1. e[p].op \in {"call", "paren", "!", "&&", "||"}
    BY ConditionTyping
  <1>2. CASE e[p].op = "call"
    <2>1. e[p].name \in DOMAIN Matchers
      BY <1>2, ConditionTyping
    <2>2. CallHolds(e[p], req) \in BOOLEAN
      BY <2>1, CompareIsBoolean, Zenon DEF CallHolds
    <2>3. HoldsNode(e, req, f, p) = CallHolds(e[p], req)
      BY <1>2 DEF HoldsNode
    <2>4. QED
      BY <2>2, <2>3
  <1>3. CASE e[p].op = "paren"
    <2>1. f[Left(p)] \in BOOLEAN
      BY <1>3, OperandsOf DEF Left
    <2>2. HoldsNode(e, req, f, p) = f[Left(p)]
      BY <1>3 DEF HoldsNode
    <2>3. QED
      BY <2>1, <2>2
  <1>4. CASE e[p].op = "!"
    BY <1>4 DEF HoldsNode
  <1>5. CASE e[p].op = "&&"
    BY <1>5 DEF HoldsNode
  <1>6. CASE e[p].op = "||"
    BY <1>6 DEF HoldsNode
  <1>7. QED
    BY <1>1, <1>2, <1>3, <1>4, <1>5, <1>6

\* The equations of Holds have a solution, too, ...
LEMMA HoldsExists ==
  ASSUME NEW e, IsExpression(e), IsCondition(e), NEW req
  PROVE  \E f : f = [p \in DOMAIN e |-> HoldsNode(e, req, f, p)]
  <1> DEFINE F == [DOMAIN e -> BOOLEAN]
             G == [p \in DOMAIN e |-> [f \in F |-> HoldsNode(e, req, f, p)]]
  <1>1. \A p \in DOMAIN e, f \in F : G[p][f] = HoldsNode(e, req, f, p)
    BY Zenon
  <1>2. BOOLEAN # {}
    OBVIOUS
  <1>3. ASSUME NEW p \in DOMAIN e, NEW f \in F PROVE G[p][f] \in BOOLEAN
    <2>1. \A i \in Operands(e[p]) : f[Append(p, i)] \in BOOLEAN
      BY ExpressionTyping
    <2>2. HoldsNode(e, req, f, p) \in BOOLEAN
      BY <2>1, HoldsNodeIsBoolean
    <2>3. QED
      BY <1>1, <2>2, Zenon
  <1>4. ASSUME NEW p \in DOMAIN e, NEW f \in F, NEW g \in F,
               \A i \in Operands(e[p]) : f[Append(p, i)] = g[Append(p, i)]
        PROVE  G[p][f] = G[p][g]
    <2>1. HoldsNode(e, req, f, p) = HoldsNode(e, req, g, p)
      <3>1. e[p].op \in {"call", "paren", "!", "&&", "||"}
        BY ConditionTyping
      <3>2. CASE e[p].op = "call"
        BY <3>2 DEF HoldsNode
      <3>3. CASE e[p].op \in {"paren", "!"}
        <4>1. f[Left(p)] = g[Left(p)]
          BY <1>4, <3>3, OperandsOf DEF Left
        <4>2. QED
          BY <3>3, <4>1 DEF HoldsNode
      <3>4. CASE e[p].op \in {"&&", "||"}
        <4>1. f[Left(p)] = g[Left(p)] /\ f[Right(p)] = g[Right(p)]
          BY <1>4, <3>4, OperandsOf DEF Left, Right
        <4>2. QED
          BY <3>4, <4>1 DEF HoldsNode
      <3>5. QED
        BY <3>1, <3>2, <3>3, <3>4
    <2>2. QED
      BY <1>1, <2>1, Zenon
  <1>5. IsFold(e, BOOLEAN, G)
    <2> HIDE DEF G
    <2>1. QED
      BY <1>2, <1>3, <1>4 DEF IsFold
  <1>6. PICK f \in F : \A p \in DOMAIN e : f[p] = G[p][f]
    <2> HIDE DEF G
    <2>1. QED
      BY <1>5, ExpressionRecursion
  <1>7. \A p \in DOMAIN e : f[p] = HoldsNode(e, req, f, p)
    BY <1>1, <1>6, Zenon
  <1>8. f = [p \in DOMAIN e |-> f[p]]
    OBVIOUS
  <1>9. f = [p \in DOMAIN e |-> HoldsNode(e, req, f, p)]
    BY <1>7, <1>8, Zenon
  <1>10. QED
    BY <1>9, Zenon

\* ... and Holds is what one of them says of the root.
LEMMA HoldsRecursion ==
  ASSUME NEW e, NEW req, NEW f, f = [p \in DOMAIN e |-> HoldsNode(e, req, f, p)]
  PROVE  \E g : g = [p \in DOMAIN e |-> HoldsNode(e, req, g, p)] /\ Holds(e, req) = g[<<>>]
  BY Zenon DEF Holds, HoldsNode

\* What addRule accepts is a condition, ...
LEMMA AcceptedIsCondition ==
  ASSUME NEW e, IsExpression(e), Accepted(Parse(e))
  PROVE  IsCondition(e)
  <1>1. PICK g : Parsed(e, g) /\ Parse(e) = g[<<>>] /\ \A p \in DOMAIN e : g[p] \in ParseValues
    BY ParseIsParsed
  <1> DEFINE S == {p \in DOMAIN e : Accepted(g[p])}
  <1>2. <<>> \in S
    BY <1>1, ExpressionTyping
  <1>3. ASSUME NEW p \in DOMAIN e, p \in S
        PROVE  \A i \in Operands(e[p]) : Append(p, i) \in S
    <2>1. \A i \in Operands(e[p]) : Accepted(g[Append(p, i)])
      BY <1>1, <1>3, NodeAccepted
    <2>2. QED
      BY <2>1, ExpressionTyping
  <1>4. DOMAIN e \subseteq S
    <2> HIDE DEF S
    <2>1. QED
      BY <1>2, <1>3, FromTheRoot
  <1>5. \A p \in DOMAIN e : ConditionNode(e[p])
    BY <1>1, <1>4, NodeAccepted
  <1>6. QED
    BY <1>5 DEF IsCondition, ConditionNode

\* ... and it accepts every condition, as what it says.
LEMMA ConditionMeans ==
  ASSUME NEW e, IsExpression(e), IsCondition(e), NEW req
  PROVE  Means(Parse(e), req, Holds(e, req))
  <1>1. PICK g : Parsed(e, g) /\ Parse(e) = g[<<>>] /\ \A p \in DOMAIN e : g[p] \in ParseValues
    BY ParseIsParsed
  <1>2. PICK f : f = [p \in DOMAIN e |-> HoldsNode(e, req, f, p)]
    BY HoldsExists
  <1>3. PICK h : h = [p \in DOMAIN e |-> HoldsNode(e, req, h, p)] /\ Holds(e, req) = h[<<>>]
    BY <1>2, HoldsRecursion
  <1>4. \A p \in DOMAIN e : h[p] = HoldsNode(e, req, h, p)
    BY <1>3, Zenon
  <1> DEFINE S == {p \in DOMAIN e : Means(g[p], req, h[p])}
  <1>5. ASSUME NEW p \in DOMAIN e, \A i \in Operands(e[p]) : Append(p, i) \in S PROVE p \in S
    <2>1. \A i \in Operands(e[p]) : Means(g[Append(p, i)], req, h[Append(p, i)])
      BY <1>5
    <2>2. ConditionNode(e[p])
      BY ConditionTyping
    <2>3. Means(g[p], req, HoldsNode(e, req, h, p))
      BY <1>1, <2>1, <2>2, NodeMeans
    <2>4. QED
      BY <1>4, <2>3
  <1>6. DOMAIN e \subseteq S
    <2> HIDE DEF S
    <2>1. QED
      BY <1>5, FromTheLeaves
  <1>7. QED
    BY <1>1, <1>3, <1>6, ExpressionTyping

\* ParseRequestCondition reads exactly the rules that are Boolean expressions of
\* well-formed matchers (parse.go, parser.go, addRule), ...
THEOREM RuleIsRead ==
  ASSUME NEW e, IsExpression(e)
  PROVE  /\ ParseRequestCondition(e).sort \in {"builder", "error"}
         /\ ParseRequestCondition(e) = Error <=> ~IsCondition(e)
         /\ ParseRequestCondition(e).sort = "builder" <=> IsCondition(e)
  <1>1. Error.sort = "error"
    BY DEF Error
  <1>2. CASE Accepted(Parse(e))
    <2>1. IsCondition(e)
      BY <1>2, AcceptedIsCondition
    <2>2. ParseRequestCondition(e) = Parse(e)
      BY <1>2 DEF ParseRequestCondition, Accepted
    <2>3. QED
      BY <1>1, <1>2, <2>1, <2>2 DEF Accepted
  <1>3. CASE ~Accepted(Parse(e))
    <2>1. ~IsCondition(e)
      BY <1>3, ConditionMeans DEF Means
    <2>2. ParseRequestCondition(e) = Error
      BY <1>3 DEF ParseRequestCondition, Accepted
    <2>3. QED
      BY <1>1, <2>1, <2>2
  <1>4. QED
    BY <1>2, <1>3

\* ... and the matcher it returns matches the requests that the expression holds
\* for, however deep it is and wherever it is negated.
THEOREM RuleMatches ==
  ASSUME NEW e, IsExpression(e), IsCondition(e), NEW req
  PROVE  Match(ParseRequestCondition(e).tree, req) = Holds(e, req)
  <1>1. Means(Parse(e), req, Holds(e, req))
    BY ConditionMeans
  <1>2. ParseRequestCondition(e) = Parse(e)
    BY <1>1 DEF ParseRequestCondition, Means, Accepted
  <1>3. PICK f : Evaluates(Parse(e).tree, req, f) /\ (f[<<>>] <=> Holds(e, req))
    BY <1>1 DEF Means
  <1>4. Parse(e).tree \in Trees /\ Holds(e, req) \in BOOLEAN
    BY <1>1 DEF Means
  <1>5. Match(Parse(e).tree, req) = f[<<>>]
    BY <1>3, <1>4, MatchIsTheEvaluation
  <1>6. f[<<>>] \in BOOLEAN
    BY <1>3, <1>4, TreeTyping DEF Evaluates
  <1>7. QED
    BY <1>2, <1>3, <1>4, <1>5, <1>6

-----------------------------------------------------------------------------
(***************************************************************************)
(* The redirect_uri                                                        *)
(***************************************************************************)
Tokens == Words \cup Punctuation

\* IndexAny finds the first of the tokens.
LEMMA IndexAnyIs ==
  ASSUME NEW s \in Uri, NEW tokens
  PROVE  /\ IndexAny(s, tokens) \in 0..Len(s)
         /\ IndexAny(s, tokens) = 0 => \A i \in 1..Len(s) : s[i] \notin tokens
         /\ IndexAny(s, tokens) # 0 =>
              /\ s[IndexAny(s, tokens)] \in tokens
              /\ \A i \in 1..(IndexAny(s, tokens) - 1) : s[i] \notin tokens
  <1> DEFINE I == {i \in 1..Len(s) : s[i] \in tokens}
  <1>1. IndexAny(s, tokens) = IF I # {} THEN Min(I) ELSE 0
    BY DEF IndexAny, SelectInSeq
  <1>2. Len(s) \in Nat /\ I \subseteq Nat
    BY DEF Uri
  <1>3. CASE I = {}
    BY <1>1, <1>2, <1>3
  <1>4. CASE I # {}
    <2>1. \E n \in I : \A m \in I : n <= m
      BY <1>2, <1>4, SmallestNat
    <2>2. Min(I) \in I /\ \A m \in I : Min(I) <= m
      BY <2>1 DEF Min
    <2>3. PICK n : n = IndexAny(s, tokens)
      OBVIOUS
    <2>4. n \in I /\ \A m \in I : n <= m
      BY <1>1, <1>4, <2>2, <2>3
    <2>5. n \in 1..Len(s) /\ s[n] \in tokens
      BY <2>4
    <2>6. ASSUME NEW i \in 1..(n - 1) PROVE s[i] \notin tokens
      <3>1. i \in 1..Len(s) /\ ~(n <= i)
        BY <1>2, <2>5, <2>6
      <3>2. QED
        BY <2>4, <3>1
    <2>7. QED
      BY <1>2, <2>3, <2>5, <2>6
  <1>5. QED
    BY <1>3, <1>4

LEMMA IndexAnyFirst ==
  ASSUME NEW s \in Uri, NEW tokens, NEW n \in 1..Len(s), s[n] \in tokens,
         \A i \in 1..(n - 1) : s[i] \notin tokens
  PROVE  IndexAny(s, tokens) = n
  <1>1. Len(s) \in Nat
    BY DEF Uri
  <1>2. IndexAny(s, tokens) # 0
    BY IndexAnyIs
  <1>3. ~(IndexAny(s, tokens) < n)
    BY <1>1, <1>2, IndexAnyIs
  <1>4. ~(n < IndexAny(s, tokens))
    BY <1>1, <1>2, IndexAnyIs
  <1>5. QED
    BY <1>1, <1>3, <1>4, IndexAnyIs

LEMMA IndexAnyNone ==
  ASSUME NEW s \in Uri, NEW tokens, \A i \in 1..Len(s) : s[i] \notin tokens
  PROVE  IndexAny(s, tokens) = 0
  <1>1. Len(s) \in Nat
    BY DEF Uri
  <1>2. QED
    BY <1>1, IndexAnyIs

LEMMA FromIs ==
  ASSUME NEW s \in Uri, NEW n \in 1..(Len(s) + 1)
  PROVE  /\ From(s, n) \in Uri /\ Len(From(s, n)) = Len(s) - n + 1
         /\ \A i \in 1..(Len(s) - n + 1) : From(s, n)[i] = s[n + i - 1]
  <1>1. Len(s) \in Nat /\ s \in Seq(Tokens)
    BY DEF Uri, Tokens
  <1>2. n \in Nat \ {0} /\ Len(s) \in 0..Len(s)
    BY <1>1
  <1>3. /\ From(s, n) \in Seq(Tokens)
        /\ Len(From(s, n)) = IF n <= Len(s) THEN Len(s) - n + 1 ELSE 0
        /\ \A i \in 1..(Len(s) - n + 1) : From(s, n)[i] = s[n + i - 1]
    BY <1>1, <1>2, SubSeqIs DEF From
  <1>4. QED
    BY <1>1, <1>3 DEF Uri, Tokens

\* Where :// occurs.
LEMMA SeparatorAt ==
  ASSUME NEW uri \in Uri, NEW i \in Nat
  PROVE  i \in SchemeSeparators(uri) <=>
           i \in 1..(Len(uri) - 2) /\ uri[i] = ":" /\ uri[i + 1] = "/" /\ uri[i + 2] = "/"
  <1>1. Len(uri) \in Nat /\ uri \in Seq(Tokens)
    BY DEF Uri, Tokens
  <1>2. SUFFICES ASSUME i \in 1..(Len(uri) - 2)
                 PROVE  SubSeq(uri, i, i + 2) = <<":", "/", "/">> <=>
                          uri[i] = ":" /\ uri[i + 1] = "/" /\ uri[i + 2] = "/"
    BY DEF SchemeSeparators
  <1>3. i \in Nat \ {0} /\ i + 2 \in 0..Len(uri) /\ i + 2 - i + 1 = 3
    BY <1>1, <1>2
  <1>4. PICK s : s = SubSeq(uri, i, i + 2)
    OBVIOUS
  <1>5. s \in Seq(Tokens) /\ Len(s) = 3 /\ \A j \in 1..3 : s[j] = uri[i + j - 1]
    BY <1>1, <1>3, <1>4, SubSeqIs
  <1>6. s[1] = uri[i] /\ s[2] = uri[i + 1] /\ s[3] = uri[i + 2]
    BY <1>3, <1>5
  <1> DEFINE w == <<":", "/", "/">>
  <1>7. w \in Seq({":", "/"}) /\ Len(w) = 3 /\ w[1] = ":" /\ w[2] = "/" /\ w[3] = "/"
    <2>1. \A a, b, c : Len(<<a, b, c>>) = 3
      OBVIOUS
    <2>2. \A a, b, c : <<a, b, c>>[1] = a /\ <<a, b, c>>[2] = b /\ <<a, b, c>>[3] = c
      OBVIOUS
    <2>3. w \in Seq({":", "/"})
      OBVIOUS
    <2>4. Len(w) = 3
      BY <2>1, Zenon
    <2>5. w[1] = ":" /\ w[2] = "/" /\ w[3] = "/"
      BY <2>2, Zenon
    <2>6. QED
      BY <2>3, <2>4, <2>5
  <1> HIDE DEF w
  <1>8. ASSUME s[1] = ":", s[2] = "/", s[3] = "/" PROVE s = w
    <2>1. \A j \in 1..3 : s[j] = w[j]
      BY <1>7, <1>8
    <2>2. w = [j \in 1..3 |-> w[j]] /\ s = [j \in 1..3 |-> s[j]]
      BY <1>5, <1>7
    <2>3. QED
      BY <2>1, <2>2
  <1>9. s = w <=> s[1] = ":" /\ s[2] = "/" /\ s[3] = "/"
    BY <1>7, <1>8
  <1>10. QED
    BY <1>4, <1>6, <1>9 DEF w

\* A separator takes part of the URI; where it is the first, it is where the code
\* divides the URI.
LEMMA FirstSeparator ==
  ASSUME NEW uri \in Uri, SchemeSeparators(uri) # {}
  PROVE  /\ Min(SchemeSeparators(uri)) \in SchemeSeparators(uri)
         /\ \A i \in SchemeSeparators(uri) : Min(SchemeSeparators(uri)) <= i
  <1>1. SchemeSeparators(uri) \subseteq Nat
    BY DEF SchemeSeparators, Uri
  <1>2. QED
    BY <1>1, SmallestNat DEF Min

\* The code takes the authority to reach to the first reserved token, or to the end.
LEMMA SplitAbsolute ==
  ASSUME NEW uri \in Uri, NEW sep \in SchemeSeparators(uri),
         \A i \in SchemeSeparators(uri) : sep <= i
  PROVE  \E end \in Nat :
           /\ SplitSchemeAuthorityPath(uri) = Absolute(uri, sep, end)
           /\ sep + 2 <= end /\ end <= Len(uri)
           /\ \A i \in (sep + 3)..end : uri[i] \notin Reserved
           /\ end < Len(uri) => uri[end + 1] \in Reserved
  <1>1. Len(uri) \in Nat /\ sep \in Nat /\ sep \in 1..(Len(uri) - 2)
    BY DEF SchemeSeparators, Uri
  <1>2. Min(SchemeSeparators(uri)) = sep
    <2>1. /\ Min(SchemeSeparators(uri)) \in SchemeSeparators(uri)
          /\ \A i \in SchemeSeparators(uri) : Min(SchemeSeparators(uri)) <= i
      BY FirstSeparator
    <2>2. Min(SchemeSeparators(uri)) <= sep /\ sep <= Min(SchemeSeparators(uri))
      BY <2>1
    <2>3. Min(SchemeSeparators(uri)) \in Nat
      BY <2>1, <1>1 DEF SchemeSeparators
    <2>4. QED
      BY <1>1, <2>2, <2>3
  <1> DEFINE rest == From(uri, sep + 3)
             cut == IndexAny(rest, Reserved)
             end == IF cut = 0 THEN Len(uri) ELSE sep + 1 + cut
  <1>3. /\ rest \in Uri /\ Len(rest) = Len(uri) - sep - 2
        /\ \A i \in 1..(Len(uri) - sep - 2) : rest[i] = uri[sep + 2 + i]
    BY <1>1, FromIs
  <1>4. SplitSchemeAuthorityPath(uri) = Absolute(uri, sep, end)
    <2>1. SchemeSeparators(uri) # {}
      OBVIOUS
    <2>2. SplitSchemeAuthorityPath(uri) =
            LET c == IndexAny(From(uri, sep + 3), Reserved)
            IN  Absolute(uri, sep, IF c = 0 THEN Len(uri) ELSE sep + 1 + c)
      BY <1>2, <2>1, Zenon DEF SplitSchemeAuthorityPath
    <2>3. QED
      BY <2>2, Zenon
  <1>5. /\ cut \in 0..Len(rest)
        /\ cut = 0 => \A i \in 1..Len(rest) : rest[i] \notin Reserved
        /\ cut # 0 => rest[cut] \in Reserved /\ \A i \in 1..(cut - 1) : rest[i] \notin Reserved
    BY <1>3, IndexAnyIs
  <1> HIDE DEF cut, rest
  <1>6. end \in Nat /\ sep + 2 <= end /\ end <= Len(uri)
    BY <1>1, <1>3, <1>5
  <1>7. ASSUME NEW i \in (sep + 3)..end PROVE uri[i] \notin Reserved
    <2>1. i - sep - 2 \in 1..(Len(uri) - sep - 2) /\ sep + 2 + (i - sep - 2) = i
      BY <1>1, <1>6
    <2>2. rest[i - sep - 2] = uri[i]
      BY <1>3, <2>1
    <2>3. cut # 0 => i - sep - 2 \in 1..(cut - 1)
      BY <1>1, <1>3, <1>5, <2>1
    <2>4. QED
      BY <1>3, <1>5, <2>1, <2>2, <2>3
  <1>8. ASSUME end < Len(uri) PROVE uri[end + 1] \in Reserved
    <2>1. cut # 0
      BY <1>1, <1>8
    <2>2. cut \in 1..(Len(uri) - sep - 2) /\ sep + 2 + cut = end + 1
      BY <1>1, <1>3, <1>5, <2>1
    <2>3. QED
      BY <1>3, <1>5, <2>1, <2>2
  <1>9. QED
    BY <1>4, <1>6, <1>7, <1>8

LEMMA ColonNotReserved == ":" \notin Reserved /\ "/" \in Reserved
  BY DEF Reserved

LEMMA PartsIs ==
  ASSUME NEW uri \in Uri, NEW sep \in SchemeSeparators(uri), NEW end \in Nat,
         sep + 2 <= end, end <= Len(uri), Divides(uri, sep, end)
  PROVE  Absolute(uri, sep, end) \in Parts(uri)
  <1>1. Len(uri) \in Nat
    BY DEF Uri
  <1>2. <<sep, end>> \in {d \in SchemeSeparators(uri) \X (0..Len(uri)) :
                         d[1] + 2 <= d[2] /\ Divides(uri, d[1], d[2])}
    BY <1>1
  <1>3. <<sep, end>>[1] = sep /\ <<sep, end>>[2] = end
    OBVIOUS
  <1>4. QED
    BY <1>2, <1>3, Zenon DEF Parts

LEMMA PartsAre ==
  ASSUME NEW uri, NEW r \in Parts(uri)
  PROVE  \E sep \in SchemeSeparators(uri), end \in 0..Len(uri) :
           r = Absolute(uri, sep, end) /\ sep + 2 <= end /\ Divides(uri, sep, end)
  BY DEF Parts

\* If nothing is reserved before the first separator, the code takes the URI apart
\* as Parts does.
LEMMA SplitIsPart ==
  ASSUME NEW uri \in Uri, NEW sep \in SchemeSeparators(uri),
         \A i \in SchemeSeparators(uri) : sep <= i,
         \A i \in 1..(sep - 1) : uri[i] \notin Reserved
  PROVE  SplitSchemeAuthorityPath(uri) \in Parts(uri)
  <1>1. Len(uri) \in Nat /\ sep \in Nat /\ sep \in 1..(Len(uri) - 2) /\ uri[sep] = ":"
    BY SeparatorAt DEF SchemeSeparators, Uri
  <1>2. PICK end \in Nat :
           /\ SplitSchemeAuthorityPath(uri) = Absolute(uri, sep, end)
           /\ sep + 2 <= end /\ end <= Len(uri)
           /\ \A i \in (sep + 3)..end : uri[i] \notin Reserved
           /\ end < Len(uri) => uri[end + 1] \in Reserved
    BY SplitAbsolute
  <1>3. ASSUME NEW i \in 1..end, uri[i] \in Reserved PROVE i \in {sep + 1, sep + 2}
    <2>1. i # sep
      BY <1>1, <1>3, ColonNotReserved
    <2>2. i \notin 1..(sep - 1) /\ i \notin (sep + 3)..end
      BY <1>2, <1>3
    <2>3. QED
      BY <1>1, <1>2, <2>1, <2>2
  <1>4. Divides(uri, sep, end)
    BY <1>2, <1>3 DEF Divides
  <1>5. QED
    BY <1>2, <1>4, PartsIs

\* And Parts knows no other way.
LEMMA PartIsSplit ==
  ASSUME NEW uri \in Uri, NEW r \in Parts(uri)
  PROVE  SchemeSeparators(uri) # {} /\ r = SplitSchemeAuthorityPath(uri)
  <1>1. PICK sep \in SchemeSeparators(uri), end \in 0..Len(uri) :
           r = Absolute(uri, sep, end) /\ sep + 2 <= end /\ Divides(uri, sep, end)
    BY PartsAre
  <1>2. Len(uri) \in Nat /\ sep \in Nat /\ end \in Nat /\ sep \in 1..(Len(uri) - 2)
    BY DEF SchemeSeparators, Uri
  <1>3. ASSUME NEW i \in SchemeSeparators(uri), i < sep PROVE FALSE
    <2>1. i \in Nat /\ uri[i + 1] = "/"
      BY <1>2, SeparatorAt DEF SchemeSeparators
    <2>2. i + 1 \in 1..end
      BY <1>1, <1>2, <1>3, <2>1
    <2>3. i + 1 \in {sep + 1, sep + 2}
      BY <1>1, <2>1, <2>2, ColonNotReserved DEF Divides
    <2>4. QED
      BY <1>2, <1>3, <2>1, <2>3
  <1>4. \A i \in SchemeSeparators(uri) : sep <= i
    <2>1. \A i \in SchemeSeparators(uri) : i \in Nat
      BY <1>2 DEF SchemeSeparators
    <2>2. QED
      BY <1>2, <1>3, <2>1
  <1>5. PICK last \in Nat :
           /\ SplitSchemeAuthorityPath(uri) = Absolute(uri, sep, last)
           /\ sep + 2 <= last /\ last <= Len(uri)
           /\ \A i \in (sep + 3)..last : uri[i] \notin Reserved
           /\ last < Len(uri) => uri[last + 1] \in Reserved
    BY <1>4, SplitAbsolute
  <1>6. ASSUME end < last PROVE FALSE
    <2>1. uri[end + 1] \in Reserved
      BY <1>1, <1>2, <1>5, <1>6 DEF Divides
    <2>2. end + 1 \in (sep + 3)..last
      BY <1>1, <1>2, <1>6
    <2>3. QED
      BY <1>5, <2>1, <2>2
  <1>7. ASSUME last < end PROVE FALSE
    <2>1. uri[last + 1] \in Reserved
      BY <1>2, <1>5, <1>7
    <2>2. last + 1 \in 1..end
      BY <1>2, <1>7
    <2>3. last + 1 \in {sep + 1, sep + 2}
      BY <1>1, <2>1, <2>2 DEF Divides
    <2>4. QED
      BY <1>2, <1>5, <2>3
  <1>8. end = last
    BY <1>2, <1>6, <1>7
  <1>9. QED
    BY <1>1, <1>5, <1>8

\* A path without its query and its fragment has neither.
LEMMA StripIs ==
  ASSUME NEW path \in Uri
  PROVE  /\ StripQueryAndFragment(path) \in Uri
         /\ \A i \in 1..Len(StripQueryAndFragment(path)) : StripQueryAndFragment(path)[i] \notin {"?", "#"}
  <1>1. path \in Seq(Tokens) /\ Uri = Seq(Tokens) /\ Len(path) \in Nat
    BY DEF Uri, Tokens
  <1>2. PICK cut : cut = IndexAny(path, {"?", "#"})
    OBVIOUS
  <1>3. /\ cut \in 0..Len(path)
        /\ cut = 0 => \A i \in 1..Len(path) : path[i] \notin {"?", "#"}
        /\ cut # 0 => \A i \in 1..(cut - 1) : path[i] \notin {"?", "#"}
    BY <1>2, IndexAnyIs
  <1>4. CASE cut = 0
    <2>1. StripQueryAndFragment(path) = path
      BY <1>2, <1>4 DEF StripQueryAndFragment
    <2>2. QED
      BY <1>3, <1>4, <2>1
  <1>5. CASE cut # 0
    <2>1. PICK page : page = SubSeq(path, 1, cut - 1)
      OBVIOUS
    <2>2. StripQueryAndFragment(path) = page
      BY <1>2, <1>5, <2>1 DEF StripQueryAndFragment
    <2>3. 1 \in Nat \ {0} /\ cut - 1 \in 0..Len(path) /\ cut - 1 - 1 + 1 = cut - 1
      BY <1>1, <1>3, <1>5
    <2>4. /\ page \in Seq(Tokens) /\ Len(page) = cut - 1
          /\ \A i \in 1..(cut - 1) : page[i] = path[1 + i - 1]
      BY <1>1, <2>1, <2>3, SubSeqIs
    <2>5. \A i \in 1..(cut - 1) : page[i] = path[i]
      BY <1>3, <2>4
    <2>6. QED
      BY <1>1, <1>3, <1>5, <2>2, <2>4, <2>5
  <1>6. QED
    BY <1>4, <1>5

\* A template that ends with "*".
LEMMA WildcardIs ==
  ASSUME NEW template \in Uri, HasSuffix(template, "*")
  PROVE  /\ TrimSuffix(template, "*") \in Uri
         /\ template = TrimSuffix(template, "*") \o <<"*">>
  <1>1. template \in Seq(Tokens) /\ Uri = Seq(Tokens) /\ template # <<>> /\ Last(template) = "*"
    BY DEF Uri, Tokens, HasSuffix
  <1>2. TrimSuffix(template, "*") = Front(template)
    BY <1>1 DEF TrimSuffix
  <1>3. Front(template) \in Seq(Tokens) /\ template = Append(Front(template), "*")
    BY <1>1, FrontAndLast
  <1>4. \A p \in Seq(Tokens) : Append(p, "*") = p \o <<"*">>
    OBVIOUS
  <1>5. QED
    BY <1>1, <1>2, <1>3, <1>4

LEMMA Appended ==
  ASSUME NEW p \in Uri, NEW c \in Tokens
  PROVE  /\ p \o <<c>> \in Uri /\ p \o <<c>> # <<>> /\ Len(p \o <<c>>) = Len(p) + 1
         /\ Last(p \o <<c>>) = c /\ Front(p \o <<c>>) = p
         /\ \A i \in 1..Len(p) : (p \o <<c>>)[i] = p[i]
  <1>1. p \in Seq(Tokens) /\ Uri = Seq(Tokens) /\ Len(p) \in Nat
    BY DEF Uri, Tokens
  <1>2. PICK q : q = p \o <<c>>
    OBVIOUS
  <1>3. /\ q \in Seq(Tokens) /\ Len(q) = Len(p) + 1 /\ q[Len(p) + 1] = c
        /\ \A i \in 1..Len(p) : q[i] = p[i]
    BY <1>1, <1>2
  <1>4. q # <<>> /\ Last(q) = c
    BY <1>1, <1>3 DEF Last
  <1>5. Front(q) = p
    <2>1. /\ Front(q) \in Seq(Tokens) /\ Len(Front(q)) = Len(p) /\ q = Append(Front(q), Last(q))
      BY <1>1, <1>3, <1>4, FrontAndLast
    <2>2. \A i \in 1..Len(p) : Front(q)[i] = q[i]
      BY <1>1, <1>3, <1>4, <2>1
    <2>3. \A i \in 1..Len(p) : Front(q)[i] = p[i]
      BY <1>3, <2>2
    <2>4. QED
      BY <1>1, <2>1, <2>3, SeqEqual
  <1>6. QED
    BY <1>1, <1>2, <1>3, <1>4, <1>5

LEMMA StarAndSlash == "*" \in Tokens /\ "/" \in Tokens /\ "*" \notin {"?", "#"} /\ "/" \notin {"?", "#"}
  BY DEF Tokens, Punctuation, Enders, Separators

\* A pattern that ends with "*", and what comes before it.
LEMMA WildcardOf ==
  ASSUME NEW p \in Uri
  PROVE  /\ HasSuffix(p \o <<"*">>, "*") /\ TrimSuffix(p \o <<"*">>, "*") = p
         /\ TrimSuffix(p \o <<"/">>, "/") = p
         /\ (\A i \in 1..Len(p) : p[i] \notin {"?", "#"}) => IndexAny(p \o <<"*">>, {"?", "#"}) = 0
  <1>1. \A c \in {"*", "/"} : /\ p \o <<c>> \in Uri /\ p \o <<c>> # <<>> /\ Len(p \o <<c>>) = Len(p) + 1
                              /\ Last(p \o <<c>>) = c /\ Front(p \o <<c>>) = p
                              /\ \A i \in 1..Len(p) : (p \o <<c>>)[i] = p[i]
    BY Appended, StarAndSlash
  <1>2. HasSuffix(p \o <<"*">>, "*") /\ TrimSuffix(p \o <<"*">>, "*") = p
    BY <1>1 DEF HasSuffix, TrimSuffix
  <1>3. TrimSuffix(p \o <<"/">>, "/") = p
    BY <1>1 DEF TrimSuffix
  <1>4. ASSUME \A i \in 1..Len(p) : p[i] \notin {"?", "#"}
        PROVE  IndexAny(p \o <<"*">>, {"?", "#"}) = 0
    <2>1. PICK q : q = p \o <<"*">>
      OBVIOUS
    <2>2. Len(p) \in Nat
      BY DEF Uri
    <2>3. /\ q \in Uri /\ Len(q) = Len(p) + 1 /\ q[Len(q)] = "*"
          /\ \A i \in 1..Len(p) : q[i] = p[i]
      BY <1>1, <2>1 DEF Last
    <2>4. \A i \in 1..Len(q) : q[i] \notin {"?", "#"}
      BY <1>4, <2>2, <2>3, StarAndSlash
    <2>5. QED
      BY <2>1, <2>3, <2>4, IndexAnyNone
  <1>5. QED
    BY <1>2, <1>3, <1>4

LEMMA PrefixIs ==
  ASSUME NEW p \in Uri, NEW q \in Uri
  PROVE  IsPrefix(p, q) <=> \E n \in 0..Len(q) : p = SubSeq(q, 1, n)
  <1>1. p \in Seq(Tokens) /\ q \in Seq(Tokens) /\ Len(p) \in Nat /\ Len(q) \in Nat
    BY DEF Uri, Tokens
  <1>2. SubSeq(p, 1, Len(p)) = p
    <2>1. PICK s : s = SubSeq(p, 1, Len(p))
      OBVIOUS
    <2>2. 1 \in Nat \ {0} /\ Len(p) \in 0..Len(p) /\ Len(p) - 1 + 1 = Len(p)
      BY <1>1
    <2>3. s \in Seq(Tokens) /\ Len(s) = Len(p) /\ \A i \in 1..Len(p) : s[i] = p[1 + i - 1]
      BY <1>1, <2>1, <2>2, SubSeqIs
    <2>4. \A i \in 1..Len(p) : s[i] = p[i]
      BY <2>3
    <2>5. QED
      BY <1>1, <2>1, <2>3, <2>4, SeqEqual
  <1>3. \A n \in 0..Len(q) : Len(SubSeq(q, 1, n)) = n
    <2>1. ASSUME NEW n \in 0..Len(q) PROVE Len(SubSeq(q, 1, n)) = n
      <3>1. Len(SubSeq(q, 1, n)) = IF 1 <= n THEN n - 1 + 1 ELSE 0
        BY <1>1, SubSeqIs
      <3>2. QED
        BY <3>1
    <2>2. QED
      BY <2>1
  <1>4. IsPrefix(p, q) <=> Len(p) <= Len(q) /\ p = SubSeq(q, 1, Len(p))
    BY <1>2 DEF IsPrefix
  <1>5. QED
    BY <1>1, <1>3, <1>4

\* matchPathTemplate accepts what the wildcard at the end of the path stands for.
LEMMA PathIsBelow ==
  ASSUME NEW path \in Uri, NEW template \in Uri
  PROVE  MatchPathTemplate(path, template) <=> Below(path, template)
  <1>1. PICK page : page = StripQueryAndFragment(path)
    OBVIOUS
  <1>2. page \in Uri /\ \A i \in 1..Len(page) : page[i] \notin {"?", "#"}
    BY <1>1, StripIs
  <1>3. PICK prefix : prefix = TrimSuffix(template, "*")
    OBVIOUS
  <1>4. MatchPathTemplate(path, template) <=>
          \/ path = template
          \/ /\ HasSuffix(template, "*") /\ IndexAny(template, {"?", "#"}) = 0
             /\ IsPrefix(prefix, page) \/ page = TrimSuffix(prefix, "/")
    BY <1>1, <1>3 DEF MatchPathTemplate
  <1>5. Below(path, template) <=>
          \/ path = template
          \/ template = page \o <<"/", "*">>
          \/ \E n \in 0..Len(page) : template = SubSeq(page, 1, n) \o <<"*">>
    BY <1>1 DEF Below
  <1>6. page \o <<"/", "*">> = (page \o <<"/">>) \o <<"*">>
    BY <1>2 DEF Uri
  <1>7. page \o <<"/">> \in Uri /\ \A i \in 1..Len(page \o <<"/">>) : (page \o <<"/">>)[i] \notin {"?", "#"}
    <2>1. PICK q : q = page \o <<"/">>
      OBVIOUS
    <2>2. /\ q \in Uri /\ Len(q) = Len(page) + 1 /\ q[Len(q)] = "/" /\ Len(page) \in Nat
          /\ \A i \in 1..Len(page) : q[i] = page[i]
      BY <1>2, <2>1, Appended, StarAndSlash DEF Last, Uri
    <2>3. \A i \in 1..Len(q) : q[i] \notin {"?", "#"}
      BY <1>2, <2>2, StarAndSlash
    <2>4. QED
      BY <2>1, <2>2, <2>3
  <1>8. \A n \in 0..Len(page) : /\ SubSeq(page, 1, n) \in Uri
                                /\ \A i \in 1..Len(SubSeq(page, 1, n)) : SubSeq(page, 1, n)[i] \notin {"?", "#"}
    <2>1. SUFFICES ASSUME NEW n \in 0..Len(page)
                   PROVE  /\ SubSeq(page, 1, n) \in Uri
                          /\ \A i \in 1..Len(SubSeq(page, 1, n)) : SubSeq(page, 1, n)[i] \notin {"?", "#"}
      OBVIOUS
    <2>2. page \in Seq(Tokens) /\ Uri = Seq(Tokens) /\ Len(page) \in Nat
      BY <1>2 DEF Uri, Tokens
    <2>3. PICK s : s = SubSeq(page, 1, n)
      OBVIOUS
    <2>4. 1 \in Nat \ {0} /\ n - 1 + 1 = n
      BY <2>2
    <2>5. s \in Seq(Tokens) /\ Len(s) = n /\ \A i \in 1..n : s[i] = page[1 + i - 1]
      BY <2>2, <2>3, <2>4, SubSeqIs
    <2>6. \A i \in 1..n : s[i] = page[i]
      BY <2>5
    <2>7. QED
      BY <1>2, <2>2, <2>3, <2>5, <2>6
  <1>9. ASSUME HasSuffix(template, "*"), IndexAny(template, {"?", "#"}) = 0,
               IsPrefix(prefix, page) \/ page = TrimSuffix(prefix, "/")
        PROVE  Below(path, template)
    <2>1. prefix \in Uri /\ template = prefix \o <<"*">>
      BY <1>3, <1>9, WildcardIs
    <2>2. CASE IsPrefix(prefix, page)
      BY <1>2, <1>5, <2>1, <2>2, PrefixIs
    <2>3. CASE page = TrimSuffix(prefix, "/") /\ prefix # <<>> /\ Last(prefix) = "/"
      <3>1. page = Front(prefix)
        BY <2>3 DEF TrimSuffix
      <3>2. prefix \in Seq(Tokens)
        BY <2>1 DEF Uri, Tokens
      <3>3. prefix = Append(page, "/")
        BY <2>3, <3>1, <3>2, FrontAndLast
      <3>4. prefix = page \o <<"/">>
        BY <1>2, <3>3 DEF Uri
      <3>5. QED
        BY <1>5, <1>6, <2>1, <3>4
    <2>4. CASE page = TrimSuffix(prefix, "/") /\ ~(prefix # <<>> /\ Last(prefix) = "/")
      <3>1. page = prefix
        BY <2>4 DEF TrimSuffix
      <3>2. IsPrefix(prefix, page)
        BY <3>1, <2>1 DEF IsPrefix, Uri
      <3>3. QED
        BY <1>2, <1>5, <2>1, <3>2, PrefixIs
    <2>5. QED
      BY <1>9, <2>2, <2>3, <2>4
  <1>10. ASSUME template = page \o <<"/", "*">> PROVE MatchPathTemplate(path, template)
    <2>1. template = (page \o <<"/">>) \o <<"*">>
      BY <1>6, <1>10
    <2>2. prefix = page \o <<"/">> /\ HasSuffix(template, "*") /\ IndexAny(template, {"?", "#"}) = 0
      BY <1>3, <1>7, <2>1, WildcardOf
    <2>3. page = TrimSuffix(prefix, "/")
      BY <1>2, <2>2, WildcardOf
    <2>4. QED
      BY <1>4, <2>2, <2>3
  <1>11. ASSUME NEW n \in 0..Len(page), template = SubSeq(page, 1, n) \o <<"*">>
         PROVE  MatchPathTemplate(path, template)
    <2>1. PICK s : s = SubSeq(page, 1, n)
      OBVIOUS
    <2>2. s \in Uri /\ \A i \in 1..Len(s) : s[i] \notin {"?", "#"}
      BY <1>8, <2>1
    <2>3. prefix = s /\ HasSuffix(template, "*") /\ IndexAny(template, {"?", "#"}) = 0
      BY <1>3, <1>11, <2>1, <2>2, WildcardOf
    <2>4. IsPrefix(prefix, page)
      BY <1>2, <2>1, <2>2, <2>3, PrefixIs
    <2>5. QED
      BY <1>4, <2>3, <2>4
  <1>12. QED
    BY <1>4, <1>5, <1>9, <1>10, <1>11

LEMMA AbsoluteIs ==
  ASSUME NEW uri, NEW sep, NEW end
  PROVE  /\ Absolute(uri, sep, end).absolute = TRUE /\ Absolute(uri, sep, end).path = From(uri, end + 1)
         /\ Absolute(uri, sep, end).scheme = SubSeq(uri, 1, sep - 1)
  BY DEF Absolute

\* What splitSchemeAuthorityPath makes of any URI.
LEMMA SplitIs ==
  ASSUME NEW uri \in Uri
  PROVE  /\ SplitSchemeAuthorityPath(uri).path \in Uri
         /\ SplitSchemeAuthorityPath(uri).absolute = (SchemeSeparators(uri) # {})
         /\ SchemeSeparators(uri) = {} => SplitSchemeAuthorityPath(uri).path = uri
  <1>1. CASE SchemeSeparators(uri) = {}
    <2>1. SplitSchemeAuthorityPath(uri) = Relative(uri)
      BY <1>1, Zenon DEF SplitSchemeAuthorityPath
    <2>2. Relative(uri).path = uri /\ Relative(uri).absolute = FALSE
      BY DEF Relative
    <2>3. (SchemeSeparators(uri) # {}) = FALSE
      BY <1>1
    <2>4. QED
      BY <1>1, <2>1, <2>2, <2>3
  <1>2. CASE SchemeSeparators(uri) # {}
    <2>1. PICK sep \in SchemeSeparators(uri) : \A i \in SchemeSeparators(uri) : sep <= i
      BY <1>2, FirstSeparator
    <2>2. PICK end \in Nat : /\ SplitSchemeAuthorityPath(uri) = Absolute(uri, sep, end)
                             /\ end <= Len(uri)
      BY <2>1, SplitAbsolute
    <2>3. end + 1 \in 1..(Len(uri) + 1)
      BY <2>2 DEF Uri
    <2>4. From(uri, end + 1) \in Uri
      BY <2>3, FromIs
    <2>5. QED
      BY <1>2, <2>2, <2>4, AbsoluteIs
  <1>3. QED
    BY <1>1, <1>2

\* Where the scheme of a URI is the scheme of one that Parts takes apart, Parts takes
\* it apart, too.
LEMMA SameScheme ==
  ASSUME NEW uri \in Uri, SchemeSeparators(uri) # {}, NEW entry \in Uri, NEW e \in Parts(entry),
         SplitSchemeAuthorityPath(uri).scheme = e.scheme
  PROVE  SplitSchemeAuthorityPath(uri) \in Parts(uri)
  <1>1. PICK sep \in SchemeSeparators(uri) : \A i \in SchemeSeparators(uri) : sep <= i
    BY FirstSeparator
  <1>2. PICK end \in Nat : SplitSchemeAuthorityPath(uri) = Absolute(uri, sep, end)
    BY <1>1, SplitAbsolute
  <1>3. PICK esep \in SchemeSeparators(entry), eend \in 0..Len(entry) :
           e = Absolute(entry, esep, eend) /\ esep + 2 <= eend /\ Divides(entry, esep, eend)
    BY PartsAre
  <1>4. /\ Len(uri) \in Nat /\ sep \in Nat \ {0} /\ sep - 1 \in 0..Len(uri) /\ uri \in Seq(Tokens)
        /\ Len(entry) \in Nat /\ esep \in Nat \ {0} /\ esep - 1 \in 0..Len(entry) /\ entry \in Seq(Tokens)
    BY DEF SchemeSeparators, Uri, Tokens
  <1>5. PICK s, t : s = SubSeq(uri, 1, sep - 1) /\ t = SubSeq(entry, 1, esep - 1)
    OBVIOUS
  <1>6. s = t
    BY <1>2, <1>3, <1>5, AbsoluteIs
  <1>7. 1 \in Nat \ {0} /\ sep - 1 - 1 + 1 = sep - 1 /\ esep - 1 - 1 + 1 = esep - 1
    BY <1>4
  <1>8. Len(s) = sep - 1 /\ \A i \in 1..(sep - 1) : s[i] = uri[1 + i - 1]
    BY <1>4, <1>5, <1>7, SubSeqIs
  <1>9. Len(t) = esep - 1 /\ \A i \in 1..(esep - 1) : t[i] = entry[1 + i - 1]
    BY <1>4, <1>5, <1>7, SubSeqIs
  <1>10. sep = esep
    BY <1>4, <1>6, <1>8, <1>9
  <1>11. ASSUME NEW i \in 1..(sep - 1) PROVE uri[i] \notin Reserved
    <2>1. uri[i] = entry[i]
      <3>1. 1 + i - 1 = i
        BY <1>4
      <3>2. QED
        BY <1>6, <1>8, <1>9, <1>10, <3>1
    <2>2. i \in 1..eend /\ i \notin {esep + 1, esep + 2}
      BY <1>3, <1>4, <1>10
    <2>3. QED
      BY <1>3, <2>1, <2>2 DEF Divides
  <1>12. QED
    BY <1>1, <1>11, SplitIsPart

\* matchUriTemplate accepts nothing but what the entry stands for, unless the
\* entry hides a scheme, ...
THEOREM MatchedIsRegistered ==
  ASSUME NEW uri \in Uri, NEW entry \in Uri, ~HidesScheme(entry), MatchUriTemplate(uri, entry)
  PROVE  Registered(uri, entry, TRUE)
  <1>1. CASE entry = <<"*">>
    BY <1>1 DEF Registered
  <1>2. CASE entry # <<"*">>
    <2>1. PICK v, t : v = SplitSchemeAuthorityPath(uri) /\ t = SplitSchemeAuthorityPath(entry)
      OBVIOUS
    <2>2. /\ ~IsPrefix(<<"/", "/">>, uri) /\ ~UnsafePath(v.path)
          /\ t.absolute = v.absolute
          /\ t.absolute => /\ t.scheme = v.scheme /\ ~Glued(t)
                           /\ MatchAuthorityTemplate(v.authority, t.authority)
          /\ MatchPathTemplate(v.path, t.path)
      BY <1>2, <2>1, Zenon DEF MatchUriTemplate
    <2>3. Below(v.path, t.path)
      BY <2>1, <2>2, SplitIs, PathIsBelow
    <2>4. CASE Parts(entry) = {}
      <3>1. SchemeSeparators(entry) = {}
        BY <2>4 DEF HidesScheme
      <3>2. SchemeSeparators(uri) = {}
        BY <2>1, <2>2, <3>1, SplitIs
      <3>3. v.path = uri /\ t.path = entry
        BY <2>1, <3>1, <3>2, SplitIs
      <3>4. Parts(uri) = {}
        BY <3>2, PartIsSplit
      <3>5. StandsFor(entry, uri)
        BY <2>2, <2>3, <2>4, <3>3, <3>4 DEF StandsFor
      <3>6. QED
        BY <2>2, <3>5 DEF Registered
    <2>5. CASE Parts(entry) # {}
      <3>1. t \in Parts(entry) /\ SchemeSeparators(entry) # {}
        BY <2>1, <2>5, PartIsSplit
      <3>2. SchemeSeparators(uri) # {} /\ t.absolute
        BY <2>1, <2>2, <3>1, SplitIs
      <3>3. v \in Parts(uri)
        BY <2>1, <2>2, <3>1, <3>2, SameScheme
      <3>4. v.authority = t.authority \/ Fits(t.authority, v.authority)
        BY <2>2, <3>2 DEF MatchAuthorityTemplate
      <3>5. v.scheme = t.scheme /\ ~Glued(t) /\ ~UnsafePath(v.path)
        BY <2>2, <3>2
      <3>6. StandsFor(entry, uri)
        BY <2>3, <2>5, <3>1, <3>3, <3>4, <3>5, Zenon DEF StandsFor
      <3>7. QED
        BY <2>2, <3>6 DEF Registered
    <2>6. QED
      BY <2>4, <2>5
  <1>3. QED
    BY <1>1, <1>2

\* Of an entry that hides a scheme nothing matches but what begins like it.
LEMMA MatchedIsMisread ==
  ASSUME NEW uri \in Uri, NEW entry \in Uri, HidesScheme(entry), MatchUriTemplate(uri, entry)
  PROVE  Registered(uri, entry, TRUE) \/ Misread(uri, entry)
  <1>1. CASE entry = <<"*">>
    BY <1>1 DEF Registered
  <1>2. CASE entry # <<"*">>
    <2>1. PICK v, t : v = SplitSchemeAuthorityPath(uri) /\ t = SplitSchemeAuthorityPath(entry)
      OBVIOUS
    <2>2. t.absolute = v.absolute /\ (t.absolute => t.scheme = v.scheme)
      BY <1>2, <2>1, Zenon DEF MatchUriTemplate
    <2>3. SchemeSeparators(entry) # {}
      BY DEF HidesScheme
    <2>4. SchemeSeparators(uri) # {} /\ t.scheme = v.scheme
      BY <2>1, <2>2, <2>3, SplitIs
    <2>5. PICK sep \in SchemeSeparators(uri), esep \in SchemeSeparators(entry) :
            /\ \A i \in SchemeSeparators(uri) : sep <= i
            /\ esep = Min(SchemeSeparators(entry)) /\ \A i \in SchemeSeparators(entry) : esep <= i
      BY <2>3, <2>4, FirstSeparator
    <2>6. v.scheme = SubSeq(uri, 1, sep - 1) /\ t.scheme = SubSeq(entry, 1, esep - 1)
      <3>1. PICK end : v = Absolute(uri, sep, end)
        BY <2>1, <2>5, SplitAbsolute
      <3>2. PICK eend : t = Absolute(entry, esep, eend)
        BY <2>1, <2>5, SplitAbsolute
      <3>3. QED
        BY <3>1, <3>2, AbsoluteIs
    <2>7. /\ Len(uri) \in Nat /\ sep \in 1..(Len(uri) - 2) /\ sep - 1 \in 0..Len(uri) /\ uri \in Seq(Tokens)
          /\ Len(entry) \in Nat /\ esep \in 1..(Len(entry) - 2) /\ esep - 1 \in 0..Len(entry)
          /\ entry \in Seq(Tokens)
      BY DEF SchemeSeparators, Uri, Tokens
    <2>8. PICK s : s = SubSeq(uri, 1, sep - 1)
      OBVIOUS
    <2>9. 1 \in Nat \ {0} /\ sep - 1 - 1 + 1 = sep - 1 /\ esep - 1 - 1 + 1 = esep - 1
      BY <2>7
    <2>10. Len(s) = sep - 1 /\ \A i \in 1..(sep - 1) : s[i] = uri[1 + i - 1]
      BY <2>7, <2>8, <2>9, SubSeqIs
    <2>11. Len(s) = esep - 1 /\ \A i \in 1..(esep - 1) : s[i] = entry[1 + i - 1]
      BY <2>4, <2>6, <2>7, <2>8, <2>9, SubSeqIs
    <2>12. sep = esep
      BY <2>7, <2>10, <2>11
    <2>13. ASSUME NEW i \in 1..(sep + 2) PROVE uri[i] = entry[i]
      <3>1. CASE i \in 1..(sep - 1)
        <4>1. 1 + i - 1 = i
          BY <2>7
        <4>2. QED
          BY <2>10, <2>11, <2>12, <3>1, <4>1
      <3>2. CASE i \notin 1..(sep - 1)
        <4>1. i \in {sep, sep + 1, sep + 2} /\ sep \in Nat
          BY <2>7, <3>2
        <4>2. /\ uri[sep] = ":" /\ uri[sep + 1] = "/" /\ uri[sep + 2] = "/"
              /\ entry[sep] = ":" /\ entry[sep + 1] = "/" /\ entry[sep + 2] = "/"
          BY <2>5, <2>12, <4>1, SeparatorAt
        <4>3. QED
          BY <4>1, <4>2
      <3>3. QED
        BY <3>1, <3>2
    <2>14. PICK p, q : p = SubSeq(entry, 1, sep + 2) /\ q = SubSeq(uri, 1, sep + 2)
      OBVIOUS
    <2>15. sep + 2 \in 0..Len(uri) /\ sep + 2 \in 0..Len(entry) /\ sep + 2 - 1 + 1 = sep + 2 /\ 1 <= sep + 2
      BY <2>7, <2>12
    <2>16. q \in Seq(Tokens) /\ Len(q) = sep + 2 /\ \A i \in 1..(sep + 2) : q[i] = uri[1 + i - 1]
      BY <2>7, <2>9, <2>14, <2>15, SubSeqIs
    <2>17. p \in Seq(Tokens) /\ Len(p) = sep + 2 /\ \A i \in 1..(sep + 2) : p[i] = entry[1 + i - 1]
      BY <2>7, <2>9, <2>14, <2>15, SubSeqIs
    <2>18. p = q
      <3>1. \A i \in 1..(sep + 2) : p[i] = q[i]
        <4>1. \A i \in 1..(sep + 2) : 1 + i - 1 = i
          BY <2>7
        <4>2. QED
          BY <2>13, <2>16, <2>17, <4>1
      <3>2. QED
        BY <2>16, <2>17, <3>1, SeqEqual
    <2>19. p \in Uri
      BY <2>17 DEF Uri, Tokens
    <2>20. IsPrefix(p, uri)
      BY <2>14, <2>15, <2>18, <2>19, PrefixIs
    <2>21. QED
      BY <2>5, <2>12, <2>14, <2>20 DEF Misread
  <1>3. QED
    BY <1>1, <1>2

\* ... and all of that, unless one of the two hides a scheme.
THEOREM RegisteredIsMatched ==
  ASSUME NEW uri \in Uri, NEW entry \in Uri, NEW wildcards \in BOOLEAN, Registered(uri, entry, wildcards),
         HidesScheme(uri) \/ HidesScheme(entry) => entry \in {uri, <<"*">>}
  PROVE  uri = entry \/ (wildcards /\ MatchUriTemplate(uri, entry))
  <1>1. CASE uri = entry
    BY <1>1
  <1>2. CASE wildcards /\ entry = <<"*">>
    BY <1>2 DEF MatchUriTemplate
  <1>3. CASE uri # entry /\ entry # <<"*">>
    <2>1. wildcards /\ ~IsPrefix(<<"/", "/">>, uri) /\ StandsFor(entry, uri)
      BY <1>3 DEF Registered
    <2>2. ~HidesScheme(uri) /\ ~HidesScheme(entry)
      BY <1>3
    <2>3. PICK v, t : v = SplitSchemeAuthorityPath(uri) /\ t = SplitSchemeAuthorityPath(entry)
      OBVIOUS
    <2>4. CASE Parts(entry) = {}
      <3>1. Parts(uri) = {} /\ ~UnsafePath(uri) /\ Below(uri, entry)
        BY <2>1, <2>4 DEF StandsFor
      <3>2. SchemeSeparators(entry) = {} /\ SchemeSeparators(uri) = {}
        BY <2>2, <2>4, <3>1 DEF HidesScheme
      <3>3. v.path = uri /\ t.path = entry /\ v.absolute = FALSE /\ t.absolute = FALSE
        BY <2>3, <3>2, SplitIs
      <3>4. MatchPathTemplate(v.path, t.path)
        BY <3>1, <3>3, PathIsBelow
      <3>5. QED
        BY <2>1, <2>3, <3>1, <3>3, <3>4, Zenon DEF MatchUriTemplate
    <2>5. CASE Parts(entry) # {}
      <3>1. PICK e \in Parts(entry), u \in Parts(uri) :
               /\ u.scheme = e.scheme /\ ~Glued(e)
               /\ u.authority = e.authority \/ Fits(e.authority, u.authority)
               /\ ~UnsafePath(u.path) /\ Below(u.path, e.path)
        BY <2>1, <2>5, Zenon DEF StandsFor
      <3>2. e = t /\ u = v /\ SchemeSeparators(entry) # {} /\ SchemeSeparators(uri) # {}
        BY <2>3, PartIsSplit
      <3>3. t.absolute = TRUE /\ v.absolute = TRUE /\ v.path \in Uri /\ t.path \in Uri
        BY <2>3, <3>2, SplitIs
      <3>4. MatchPathTemplate(v.path, t.path)
        BY <3>1, <3>2, <3>3, PathIsBelow
      <3>5. MatchAuthorityTemplate(v.authority, t.authority)
        BY <3>1, <3>2 DEF MatchAuthorityTemplate
      <3>6. QED
        BY <2>1, <2>3, <3>1, <3>2, <3>3, <3>4, <3>5, Zenon DEF MatchUriTemplate
    <2>6. QED
      BY <2>4, <2>5
  <1>4. QED
    BY <1>1, <1>2, <1>3 DEF Registered

-----------------------------------------------------------------------------
(***************************************************************************)
(* The loop over the assertions                                            *)
(***************************************************************************)
\* A node that has been passed: an array did not decide the assertion, and what
\* a scalar matches has been noted.
Accounted(as, s, all, any) ==
  IF s.array THEN ~Covers(as, s.values)
  ELSE \A v \in s.values : /\ v \in as.anyOf => any
                           /\ \A i \in DOMAIN as.allOf : as.allOf[i] = v => i \in all

\* What the loop knows of assertion b before it looks at node n: every match it
\* has noted is one of a scalar; and unless something is hidden, it has passed over
\* nothing that counts.
Collecting(b, n, all, any) ==
  LET as == assertions[b]
      ns == claims[as.name]
  IN  /\ n > 0 => ns # <<>> /\ (as.allOf # <<>> \/ as.anyOf # {})
      /\ \A i \in all : i \in DOMAIN as.allOf /\ as.allOf[i] \in Scalars(as)
      /\ any => as.anyOf \cap Scalars(as) # {}
      /\ ~Hidden(as) /\ ~Repeats(as) =>
           \A m \in DOMAIN ns : m < n => Accounted(as, ns[m], all, any)

LoopInv ==
  /\ AuthorizationTypeOK
  /\ current >= 1
  /\ \A b \in DOMAIN assertions : b < current => Satisfied(assertions[b])
  /\ current \in DOMAIN assertions => Collecting(current, node, allMatches, anyMatch)
  /\ verdict = "authorized" => current > Len(assertions)
  /\ RefusedIsUnsatisfied

LEMMA AssertionTyping ==
  ASSUME AuthorizationTypeOK, NEW b \in DOMAIN assertions
  PROVE  /\ assertions[b] \in Assertion
         /\ assertions[b].allOf \in Seq(Values) /\ assertions[b].anyOf \subseteq Values
         /\ claims[assertions[b].name] \in Seq(Node)
         /\ \A m \in DOMAIN claims[assertions[b].name] : claims[assertions[b].name][m] \in Node
  <1>1. assertions[b] \in Assertion
    BY DEF AuthorizationTypeOK
  <1>2. /\ assertions[b].allOf \in Seq(Values) /\ assertions[b].anyOf \subseteq Values
        /\ assertions[b].name \in Names
    BY <1>1 DEF Assertion
  <1>3. claims[assertions[b].name] \in Seq(Node)
    BY <1>2 DEF AuthorizationTypeOK
  <1>4. QED
    BY <1>1, <1>2, <1>3

\* Nor does what the loop knows depend on more than its variables.
LEMMA SameCollecting ==
  ASSUME UNCHANGED <<assertions, claims>>,
         current' \in DOMAIN assertions => Collecting(current', node', allMatches', anyMatch')
  PROVE  (current \in DOMAIN assertions => Collecting(current, node, allMatches, anyMatch))'
  BY DEF Collecting, Accounted, Hidden, Repeats, Scalars, Selected, Covers

LEMMA NoneHasBeenSeen ==
  ASSUME AuthorizationTypeOK, NEW b \in DOMAIN assertions
  PROVE  Collecting(b, 0, {}, FALSE)
  <1>1. \A m \in DOMAIN claims[assertions[b].name] : ~(m < 0)
    BY AssertionTyping
  <1>2. ~(0 > 0)
    OBVIOUS
  <1>3. QED
    BY <1>1, <1>2, Zenon DEF Collecting

LEMMA InitLoopInv ==
  ASSUME NEW as \in Seq(Assertion), NEW cs \in [Names -> Seq(Node)], AuthorizationInit(as, cs)
  PROVE  LoopInv
  <1>1. AuthorizationTypeOK
    BY DEF AuthorizationInit, AuthorizationTypeOK
  <1>2. current = 1 /\ node = 0 /\ allMatches = {} /\ anyMatch = FALSE /\ verdict = "none"
    BY DEF AuthorizationInit
  <1>3. \A b \in DOMAIN assertions : ~(b < current)
    BY <1>1, <1>2 DEF AuthorizationTypeOK
  <1>4. current \in DOMAIN assertions => Collecting(current, node, allMatches, anyMatch)
    BY <1>1, <1>2, NoneHasBeenSeen
  <1>5. QED
    BY <1>1, <1>2, <1>3, <1>4 DEF LoopInv, RefusedIsUnsatisfied

\* What is said of an assertion does not change with the loop's own variables.
LEMMA SameClaims ==
  ASSUME UNCHANGED <<assertions, claims>>
  PROVE  /\ \A b \in DOMAIN assertions : Satisfied(assertions[b])' <=> Satisfied(assertions[b])
         /\ \A b \in DOMAIN assertions : Hidden(assertions[b])' <=> Hidden(assertions[b])
         /\ \A b \in DOMAIN assertions : Repeats(assertions[b])' <=> Repeats(assertions[b])
         /\ \A b \in DOMAIN assertions : Scalars(assertions[b])' = Scalars(assertions[b])
  BY DEF Satisfied, Hidden, Repeats, Scalars, Selected, Covers

\* The loop goes on to the next assertion once this one is satisfied.
LEMMA NextAssertionStep ==
  ASSUME LoopInv, Open, NextAssertion, UNCHANGED <<assertions, claims>>, Satisfied(assertion)
  PROVE  LoopInv'
  <1>1. current \in DOMAIN assertions /\ current \in Nat /\ verdict = "none"
    BY DEF LoopInv, Open, AuthorizationTypeOK
  <1>2. AuthorizationTypeOK'
    <2>1. current + 1 \in Nat /\ 0 \in Nat /\ {} \subseteq Nat
      BY <1>1
    <2>2. /\ assertions' \in Seq(Assertion) /\ claims' \in [Names -> Seq(Node)]
          /\ verdict' \in {"none", "authorized", "refused"}
      BY <1>1 DEF LoopInv, AuthorizationTypeOK, NextAssertion
    <2>3. QED
      BY <2>1, <2>2 DEF AuthorizationTypeOK, NextAssertion
  <1>3. (current >= 1)' /\ verdict' = "none"
    BY <1>1 DEF LoopInv, NextAssertion
  <1>4. \A b \in DOMAIN assertions : b < current' => Satisfied(assertions[b])
    <2>1. SUFFICES ASSUME NEW b \in DOMAIN assertions, b < current + 1
                   PROVE  Satisfied(assertions[b])
      BY DEF NextAssertion
    <2>2. b \in Nat
      BY DEF LoopInv, AuthorizationTypeOK
    <2>3. b < current \/ b = current
      BY <1>1, <2>1, <2>2
    <2>4. QED
      BY <2>3 DEF LoopInv, assertion
  <1>5. (\A b \in DOMAIN assertions : b < current => Satisfied(assertions[b]))'
    BY <1>4, SameClaims
  <1>6. current' \in DOMAIN assertions => Collecting(current', node', allMatches', anyMatch')
    <2>1. AuthorizationTypeOK
      BY DEF LoopInv
    <2>2. QED
      BY <2>1, NoneHasBeenSeen DEF NextAssertion
  <1>7. (current \in DOMAIN assertions => Collecting(current, node, allMatches, anyMatch))'
    BY <1>6, SameCollecting
  <1>8. QED
    BY <1>2, <1>3, <1>5, <1>7 DEF LoopInv, RefusedIsUnsatisfied

\* The loop goes on within an assertion.
LEMMA NodeStep ==
  ASSUME LoopInv, Open, UNCHANGED <<assertions, claims, current, verdict>>,
         node' \in Nat, allMatches' \subseteq Nat, anyMatch' \in BOOLEAN,
         Collecting(current, node', allMatches', anyMatch')
  PROVE  LoopInv'
  <1>1. AuthorizationTypeOK'
    BY DEF LoopInv, AuthorizationTypeOK
  <1>2. (current >= 1)' /\ verdict' = "none"
    BY DEF LoopInv, Open
  <1>3. (\A b \in DOMAIN assertions : b < current => Satisfied(assertions[b]))'
    BY SameClaims DEF LoopInv
  <1>4. (current \in DOMAIN assertions => Collecting(current, node, allMatches, anyMatch))'
    BY SameCollecting
  <1>5. QED
    BY <1>1, <1>2, <1>3, <1>4 DEF LoopInv, RefusedIsUnsatisfied

\* isAuthorized returns false.
LEMMA RefuseStep ==
  ASSUME LoopInv, Open, Refuse, UNCHANGED <<assertions, claims>>,
         ~Satisfied(assertion) \/ Hidden(assertion) \/ Repeats(assertion)
  PROVE  LoopInv'
  <1>1. AuthorizationTypeOK'
    BY DEF LoopInv, AuthorizationTypeOK, Refuse
  <1>2. (current >= 1)' /\ verdict' = "refused"
    BY DEF LoopInv, Refuse
  <1>3. (\A b \in DOMAIN assertions : b < current => Satisfied(assertions[b]))'
    BY SameClaims DEF LoopInv, Refuse
  <1>4. (current \in DOMAIN assertions => Collecting(current, node, allMatches, anyMatch))'
    BY SameCollecting DEF LoopInv, Refuse
  <1>5. RefusedIsUnsatisfied'
    <2>1. /\ current \in DOMAIN assertions
          /\ ~Satisfied(assertions[current]) \/ Hidden(assertions[current])
             \/ Repeats(assertions[current])
      BY DEF Open, assertion
    <2>2. (\E b \in DOMAIN assertions :
             ~Satisfied(assertions[b]) \/ Hidden(assertions[b]) \/ Repeats(assertions[b]))'
      BY <2>1, SameClaims
    <2>3. QED
      BY <2>2 DEF RefusedIsUnsatisfied
  <1>6. QED
    BY <1>1, <1>2, <1>3, <1>4, <1>5 DEF LoopInv

\* Every step of the loop keeps its invariant.
LEMMA BeginAssertionStep == LoopInv /\ BeginAssertion => LoopInv'
  <1> SUFFICES ASSUME LoopInv, BeginAssertion
               PROVE  LoopInv'
    OBVIOUS
  <1> DEFINE as == assertions[current]
             ns == claims[as.name]
  <1>1. /\ Open /\ node = 0 /\ current \in DOMAIN assertions /\ AuthorizationTypeOK
        /\ UNCHANGED <<assertions, claims>>
    BY DEF BeginAssertion, Open, LoopInv
  <1>2. ns \in Seq(Node)
    BY <1>1, AssertionTyping
  <1>3. CASE nodes = <<>>
    <2>1. Selected(assertion) = {}
      BY <1>3 DEF Selected, nodes
    <2>2. ~Satisfied(assertion)
      BY <2>1 DEF Satisfied
    <2>3. QED
      BY <1>1, <1>3, <2>2, RefuseStep DEF BeginAssertion
  <1>4. CASE nodes # <<>> /\ assertion.allOf = <<>> /\ assertion.anyOf = {}
    <2>1. Len(ns) # 0
      BY <1>2, <1>4, EmptySeq DEF nodes, assertion
    <2>2. 1 \in DOMAIN ns
      BY <1>2, <2>1
    <2>3. Selected(assertion) # {}
      BY <2>2 DEF Selected, assertion
    <2>4. Satisfied(assertion)
      BY <1>4, <2>3 DEF Satisfied
    <2>5. QED
      BY <1>1, <1>4, <2>4, NextAssertionStep DEF BeginAssertion
  <1>5. CASE nodes # <<>> /\ ~(assertion.allOf = <<>> /\ assertion.anyOf = {})
    <2>1. /\ node' = 1 /\ allMatches' = allMatches /\ anyMatch' = anyMatch
          /\ UNCHANGED <<current, verdict>>
      BY <1>1, <1>5 DEF BeginAssertion, NextNode
    <2>2. \A m \in DOMAIN ns : ~(m < 1)
      BY <1>2
    <2>3. Collecting(current, node, allMatches, anyMatch)
      BY <1>1 DEF LoopInv
    <2>4. Collecting(current, 1, allMatches, anyMatch)
      BY <1>5, <2>2, <2>3, Zenon DEF Collecting, nodes, assertion
    <2>5. QED
      BY <1>1, <2>1, <2>4, NodeStep DEF LoopInv, AuthorizationTypeOK
  <1>6. QED
    BY <1>3, <1>4, <1>5

\* One more node is accounted for.
LEMMA Passed ==
  ASSUME NEW b, NEW n \in Nat, NEW all, NEW any, NEW seen, NEW found,
         LET as == assertions[b]
             ns == claims[as.name]
         IN  /\ ns \in Seq(Node) /\ ns # <<>> /\ (as.allOf # <<>> \/ as.anyOf # {})
             /\ Collecting(b, n, seen, found)
             /\ seen \subseteq all /\ (found => any)
             /\ \A i \in all : i \in DOMAIN as.allOf /\ as.allOf[i] \in Scalars(as)
             /\ any => as.anyOf \cap Scalars(as) # {}
             /\ ~Repeats(as) => Accounted(as, ns[n], all, any)
  PROVE  Collecting(b, n + 1, all, any)
  <1> DEFINE as == assertions[b]
             ns == claims[as.name]
  <1>1. ASSUME ~Hidden(as), ~Repeats(as), NEW m \in DOMAIN ns, m < n + 1
        PROVE  Accounted(as, ns[m], all, any)
    <2>1. m \in Nat /\ (m < n \/ m = n)
      BY <1>1
    <2>2. CASE m < n
      <3>1. Accounted(as, ns[m], seen, found)
        BY <1>1, <2>2, Zenon DEF Collecting
      <3>2. QED
        BY <3>1, Zenon DEF Accounted
    <2>3. CASE m = n
      BY <1>1, <2>3
    <2>4. QED
      BY <2>1, <2>2, <2>3
  <1>2. QED
    BY <1>1, Zenon DEF Collecting

LEMMA CheckArrayStep == LoopInv /\ CheckArray => LoopInv'
  <1> SUFFICES ASSUME LoopInv, CheckArray
               PROVE  LoopInv'
    OBVIOUS
  <1> DEFINE ns == claims[assertions[current].name]
             values == nodes[node].values
  <1>1. /\ Open /\ current \in DOMAIN assertions /\ AuthorizationTypeOK
        /\ UNCHANGED <<assertions, claims>>
        /\ node \in DOMAIN nodes /\ nodes[node].array
    BY DEF CheckArray, Open, LoopInv
  <1>2. ns \in Seq(Node) /\ node \in Nat /\ node \in DOMAIN ns
    BY <1>1, AssertionTyping DEF AuthorizationTypeOK, nodes, assertion
  <1>3. nodes[node] \in Selected(assertion)
    BY <1>1 DEF Selected, nodes
  <1>4. Collecting(current, node, allMatches, anyMatch)
    BY <1>1 DEF LoopInv
  <1>5. nodes # <<>> /\ (assertion.allOf # <<>> \/ assertion.anyOf # {})
    <2>1. node > 0
      BY <1>2
    <2>2. QED
      BY <1>4, <2>1 DEF Collecting, nodes, assertion
  <1>6. CASE ~(AllOf \subseteq values)
    <2>1. /\ node' = Len(nodes) + 1 /\ allMatches' = allMatches /\ anyMatch' = anyMatch
          /\ UNCHANGED <<current, verdict>>
      BY <1>6 DEF CheckArray, LeaveNodes
    <2>2. node' \in Nat
      BY <1>2, <2>1 DEF nodes, assertion
    <2>3. Hidden(assertions[current])
      BY <1>1, <1>3, <1>6 DEF Hidden, AllOf, assertion
    <2>4. Collecting(current, node', allMatches, anyMatch)
      BY <1>4, <1>5, <2>3, Zenon DEF Collecting, nodes, assertion
    <2>5. QED
      BY <1>1, <2>1, <2>2, <2>4, NodeStep DEF LoopInv, AuthorizationTypeOK
  <1>7. CASE AllOf \subseteq values /\ assertion.anyOf # {} /\ assertion.anyOf \cap values = {}
    <2>1. /\ node' = node + 1 /\ allMatches' = allMatches /\ anyMatch' = anyMatch
          /\ UNCHANGED <<current, verdict>>
      BY <1>7 DEF CheckArray, NextNode
    <2>2. node' \in Nat
      BY <1>2, <2>1
    <2>3. ~Covers(assertion, values)
      BY <1>7 DEF Covers
    <2>4. Accounted(assertion, nodes[node], allMatches, anyMatch)
      BY <1>1, <2>3, Zenon DEF Accounted
    <2>5. Collecting(current, node + 1, allMatches, anyMatch)
      BY <1>2, <1>4, <1>5, <2>4, Passed DEF nodes, assertion, Collecting
    <2>6. QED
      BY <1>1, <2>1, <2>2, <2>5, NodeStep DEF LoopInv, AuthorizationTypeOK
  <1>8. CASE AllOf \subseteq values /\ ~(assertion.anyOf # {} /\ assertion.anyOf \cap values = {})
    <2>1. NextAssertion
      BY <1>8 DEF CheckArray
    <2>2. Covers(assertion, values)
      BY <1>8 DEF Covers, AllOf
    <2>3. Satisfied(assertion)
      BY <1>1, <1>3, <2>2 DEF Satisfied
    <2>4. QED
      BY <1>1, <2>1, <2>3, NextAssertionStep
  <1>9. QED
    BY <1>6, <1>7, <1>8

LEMMA CheckScalarStep == LoopInv /\ CheckScalar => LoopInv'
  <1> SUFFICES ASSUME LoopInv, CheckScalar
               PROVE  LoopInv'
    OBVIOUS
  <1> DEFINE as == assertions[current]
             ns == claims[as.name]
             values == ns[node].values
  <1>1. /\ Open /\ current \in DOMAIN assertions /\ AuthorizationTypeOK
        /\ UNCHANGED <<assertions, claims, current, verdict>>
        /\ node \in DOMAIN ns /\ ~ns[node].array
        /\ node' = node + 1
        /\ anyMatch' = (anyMatch \/ as.anyOf \cap values # {})
        /\ allMatches' = allMatches \cup FirstMatch(values)
    BY DEF CheckScalar, Open, LoopInv, NextNode, nodes, assertion
  <1>2. ns \in Seq(Node) /\ node \in Nat /\ ns[node] \in Node /\ as.allOf \in Seq(Values)
    BY <1>1, AssertionTyping DEF AuthorizationTypeOK
  <1>3. Collecting(current, node, allMatches, anyMatch)
    BY <1>1 DEF LoopInv
  <1>4. ns # <<>> /\ (as.allOf # <<>> \/ as.anyOf # {})
    <2>1. node > 0
      BY <1>1, <1>2
    <2>2. QED
      BY <1>3, <2>1 DEF Collecting
  <1>5. PICK v : values = {v}
    BY <1>1, <1>2 DEF Node
  <1>6. v \in Scalars(as)
    <2>1. ns[node] \in {s \in Selected(as) : ~s.array}
      BY <1>1 DEF Selected
    <2>2. QED
      BY <1>5, <2>1 DEF Scalars
  <1>7. \A i \in FirstMatch(values) : i \in DOMAIN as.allOf /\ as.allOf[i] = v
    BY <1>5 DEF FirstMatch, assertion
  <1>8. \A i \in allMatches' : i \in DOMAIN as.allOf /\ as.allOf[i] \in Scalars(as)
    <2>1. \A i \in allMatches : i \in DOMAIN as.allOf /\ as.allOf[i] \in Scalars(as)
      BY <1>3, Zenon DEF Collecting
    <2>2. QED
      BY <1>1, <1>6, <1>7, <2>1
  <1>9. anyMatch' => as.anyOf \cap Scalars(as) # {}
    <2>1. anyMatch => as.anyOf \cap Scalars(as) # {}
      BY <1>3, Zenon DEF Collecting
    <2>2. as.anyOf \cap values # {} => as.anyOf \cap Scalars(as) # {}
      BY <1>5, <1>6
    <2>3. QED
      BY <1>1, <2>1, <2>2, Zenon
  <1>10. ~Repeats(as) => Accounted(as, ns[node], allMatches', anyMatch')
    <2>1. SUFFICES ASSUME ~Repeats(as)
                   PROVE  Accounted(as, ns[node], allMatches', anyMatch')
      OBVIOUS
    <2>2. v \in as.anyOf => anyMatch'
      <3>1. v \in as.anyOf => as.anyOf \cap values # {}
        BY <1>5
      <3>2. QED
        BY <1>1, <3>1, Zenon
    <2>3. ASSUME NEW i \in DOMAIN as.allOf, as.allOf[i] = v
          PROVE  i \in allMatches'
      <3>1. \A j \in DOMAIN as.allOf : j # i => as.allOf[j] # v
        BY <2>1, <2>3 DEF Repeats
      <3>2. \A j \in 1..(i - 1) : j \in DOMAIN as.allOf /\ j # i
        BY <1>2
      <3>3. i \in FirstMatch(values)
        BY <1>5, <2>3, <3>1, <3>2 DEF FirstMatch, assertion
      <3>4. QED
        BY <1>1, <3>3
    <2>4. QED
      BY <1>1, <1>5, <2>2, <2>3, Zenon DEF Accounted
  <1>11. Collecting(current, node', allMatches', anyMatch')
    <2>1. allMatches \subseteq allMatches' /\ (anyMatch => anyMatch')
      BY <1>1, Zenon
    <2>2. QED
      BY <1>1, <1>2, <1>3, <1>4, <1>8, <1>9, <1>10, <2>1, Passed
  <1>12. node' \in Nat /\ allMatches' \subseteq Nat
    BY <1>1, <1>2, <1>8
  <1>13. anyMatch' \in BOOLEAN
    <2>1. anyMatch \in BOOLEAN
      BY <1>1 DEF AuthorizationTypeOK
    <2>2. QED
      BY <1>1, <2>1, Zenon
  <1>14. QED
    BY <1>1, <1>11, <1>12, <1>13, NodeStep

LEMMA EndAssertionStep == LoopInv /\ EndAssertion => LoopInv'
  <1> SUFFICES ASSUME LoopInv, EndAssertion
               PROVE  LoopInv'
    OBVIOUS
  <1> DEFINE as == assertions[current]
             ns == claims[as.name]
  <1>1. /\ Open /\ current \in DOMAIN assertions /\ AuthorizationTypeOK
        /\ UNCHANGED <<assertions, claims>> /\ node > Len(ns)
    BY DEF EndAssertion, Open, LoopInv, nodes, assertion
  <1>2. ns \in Seq(Node) /\ node \in Nat /\ as.allOf \in Seq(Values)
    BY <1>1, AssertionTyping DEF AuthorizationTypeOK
  <1>3. /\ ns # <<>> /\ (as.allOf # <<>> \/ as.anyOf # {})
        /\ \A i \in allMatches : i \in DOMAIN as.allOf /\ as.allOf[i] \in Scalars(as)
        /\ anyMatch => as.anyOf \cap Scalars(as) # {}
        /\ ~Hidden(as) /\ ~Repeats(as) =>
             \A m \in DOMAIN ns : m < node => Accounted(as, ns[m], allMatches, anyMatch)
    <2>1. Collecting(current, node, allMatches, anyMatch) /\ node > 0
      BY <1>1, <1>2 DEF LoopInv
    <2>2. QED
      BY <2>1, Zenon DEF Collecting
  <1>4. CASE Collected
    <2>1. NextAssertion
      BY <1>4 DEF EndAssertion
    <2>2. as.anyOf # {} => as.anyOf \cap Scalars(as) # {}
      BY <1>3, <1>4, Zenon DEF Collected, assertion
    <2>3. {as.allOf[i] : i \in DOMAIN as.allOf} \subseteq Scalars(as)
      BY <1>2, <1>3, <1>4, EmptySeq DEF Collected, assertion
    <2>4. Covers(as, Scalars(as))
      BY <2>2, <2>3, Zenon DEF Covers
    <2>5. Selected(as) # {}
      <3>1. 1 \in DOMAIN ns
        BY <1>2, <1>3, EmptySeq
      <3>2. QED
        BY <3>1 DEF Selected
    <2>6. Satisfied(assertion)
      BY <2>4, <2>5, Zenon DEF Satisfied, assertion
    <2>7. QED
      BY <1>1, <2>1, <2>6, NextAssertionStep
  <1>5. CASE ~Collected
    <2>1. Refuse
      BY <1>5 DEF EndAssertion
    <2>2. ASSUME ~Hidden(as), ~Repeats(as), Satisfied(as)
          PROVE  FALSE
      <3>1. \A m \in DOMAIN ns : m < node
        BY <1>1, <1>2
      <3>2. \A m \in DOMAIN ns : Accounted(as, ns[m], allMatches, anyMatch)
        BY <1>3, <2>2, <3>1, Zenon
      <3>3. \A s \in Selected(as) : Accounted(as, s, allMatches, anyMatch)
        BY <3>2, Zenon DEF Selected
      <3>4. Covers(as, Scalars(as))
        BY <1>3, <2>2, <3>3, Zenon DEF Satisfied, Accounted
      <3>5. \A v \in Scalars(as) : /\ v \in as.anyOf => anyMatch
                                   /\ \A i \in DOMAIN as.allOf : as.allOf[i] = v => i \in allMatches
        <4>1. ASSUME NEW v \in Scalars(as)
              PROVE  \E s \in Selected(as) : ~s.array /\ v \in s.values
          BY DEF Scalars
        <4>2. QED
          BY <3>3, <4>1, Zenon DEF Accounted
      <3>6. as.anyOf # {} => anyMatch
        BY <3>4, <3>5, Zenon DEF Covers
      <3>7. allMatches = DOMAIN as.allOf
        BY <1>3, <3>4, <3>5 DEF Covers
      <3>8. QED
        BY <1>5, <3>6, <3>7, Zenon DEF Collected, assertion
    <2>3. QED
      BY <1>1, <2>1, <2>2, RefuseStep DEF assertion
  <1>6. QED
    BY <1>4, <1>5

LEMMA AuthorizedStep == LoopInv /\ Authorized => LoopInv'
  <1> SUFFICES ASSUME LoopInv, Authorized
               PROVE  LoopInv'
    OBVIOUS
  <1>1. /\ UNCHANGED <<assertions, claims, current, node, allMatches, anyMatch>>
        /\ verdict' = "authorized" /\ current > Len(assertions)
    BY DEF Authorized
  <1>2. AuthorizationTypeOK'
    BY <1>1 DEF LoopInv, AuthorizationTypeOK
  <1>3. (\A b \in DOMAIN assertions : b < current => Satisfied(assertions[b]))'
    BY <1>1, SameClaims DEF LoopInv
  <1>4. (current \in DOMAIN assertions => Collecting(current, node, allMatches, anyMatch))'
    BY <1>1, SameCollecting DEF LoopInv
  <1>5. QED
    BY <1>1, <1>2, <1>3, <1>4 DEF LoopInv, RefusedIsUnsatisfied

LEMMA StepLoopInv == LoopInv /\ [AuthorizationNext]_authorization => LoopInv'
  <1>1. LoopInv /\ UNCHANGED authorization => LoopInv'
    <2>1. SUFFICES ASSUME LoopInv, UNCHANGED authorization
                   PROVE  LoopInv'
      OBVIOUS
    <2>2. UNCHANGED <<assertions, claims, current, node, allMatches, anyMatch, verdict>>
      BY <2>1 DEF authorization
    <2>3. AuthorizationTypeOK'
      BY <2>1, <2>2 DEF LoopInv, AuthorizationTypeOK
    <2>4. (\A b \in DOMAIN assertions : b < current => Satisfied(assertions[b]))'
      BY <2>1, <2>2, SameClaims DEF LoopInv
    <2>5. (current \in DOMAIN assertions => Collecting(current, node, allMatches, anyMatch))'
      BY <2>1, <2>2, SameCollecting DEF LoopInv
    <2>6. RefusedIsUnsatisfied'
      BY <2>1, <2>2, SameClaims DEF LoopInv, RefusedIsUnsatisfied
    <2>7. QED
      BY <2>1, <2>2, <2>3, <2>4, <2>5, <2>6 DEF LoopInv
  <1>2. QED
    BY <1>1, BeginAssertionStep, CheckArrayStep, CheckScalarStep, EndAssertionStep,
       AuthorizedStep DEF AuthorizationNext

LEMMA LoopInvariance == AuthorizationSpec => []LoopInv
  <1>1. (\E as \in Seq(Assertion), cs \in [Names -> Seq(Node)] : AuthorizationInit(as, cs)) => LoopInv
    BY InitLoopInv
  <1>2. QED
    BY <1>1, StepLoopInv, PTL DEF AuthorizationSpec

\* The loop's variables always have their types (isAuthorized).
THEOREM LoopTypeCorrect == AuthorizationSpec => []AuthorizationTypeOK
  <1>1. LoopInv => AuthorizationTypeOK
    BY DEF LoopInv
  <1>2. QED
    BY <1>1, LoopInvariance, PTL

LEMMA LoopVerdict == LoopInv => VerdictMeetsAssertions
  <1>1. SUFFICES ASSUME LoopInv, verdict = "authorized", NEW b \in DOMAIN assertions
                 PROVE  Satisfied(assertions[b])
    BY DEF LoopInv, VerdictMeetsAssertions, AuthorizedIsSatisfied
  <1>2. current > Len(assertions) /\ b \in 1..Len(assertions) /\ current \in Nat
    BY <1>1 DEF LoopInv, AuthorizationTypeOK
  <1>3. b < current
    BY <1>2
  <1>4. QED
    BY <1>1, <1>3 DEF LoopInv

\* isAuthorized authorizes only who satisfies every assertion, and refuses only who
\* misses one, save where its loop hides a node or a value.
THEOREM VerdictIsRight == AuthorizationSpec => []VerdictMeetsAssertions
  <1>1. QED
    BY LoopVerdict, LoopInvariance, PTL

-----------------------------------------------------------------------------
(***************************************************************************)
(* ServeHTTP                                                               *)
(***************************************************************************)
\* What has become of the rule.
RuleKnown ==
  /\ pc = "create" => condition = [sort |-> "none"]
  /\ pc # "create" => condition = IF config.rule = NoRule THEN [sort |-> "none"]
                                  ELSE ParseRequestCondition(config.rule)
  /\ outcome = "misconfigured" <=> pc # "create" /\ condition = Error
  /\ pc \notin {"create", "arrive"} /\ outcome # "misconfigured" => public = Bypassed

\* What has become of the session.
SessionKnown ==
  /\ pc \in {"authorize", "decide"} => request.to = "page" /\ request.session.kind # "none"
  /\ pc \in {"create", "arrive", "route", "authorize"} => verdict = "none"
  /\ pc = "authorize" => Checked
  /\ pc = "decide" => (Checked => verdict # "none")

\* What the answer says of both.
AnswerGiven ==
  /\ outcome = "forwarded" =>
       IF request.session.kind = "none" THEN Bypassed \/ config.unauthenticated = "Forward"
       ELSE IsAuthorized \/ config.unauthorized = "Forward"
  /\ pc = "done" /\ request.to = "page" /\ outcome # "misconfigured" =>
       IF request.session.kind = "none" THEN Bypassed => outcome = "forwarded"
       ELSE (IsAuthorized => outcome = "forwarded") /\ (Checked => verdict # "none")

IInv ==
  /\ TypeOK /\ LoopInv
  /\ RuleKnown /\ SessionKnown /\ AnswerGiven
  /\ TargetsAreRegistered /\ RegisteredIsFollowed

\* A request and its configuration do not change.
LEMMA SameRequest ==
  ASSUME UNCHANGED <<config, request>>
  PROVE  /\ Bypassed' <=> Bypassed
         /\ Checked' <=> Checked
         /\ OwnTargets' = OwnTargets /\ Entries' = Entries
  BY DEF Bypassed, Checked, OwnTargets, Entries

\* What is used of the types of a request and its configuration.
LEMMA RequestTyping ==
  ASSUME TypeOK
  PROVE  /\ request.redirectUri \in Uri /\ request.origin \in Uri /\ request.uri \in Uri
         /\ config.postLogin \in Uri /\ config.postLogout \in Uri
         /\ config.validUris \in Seq(Uri) /\ config.wildcards \in BOOLEAN
         /\ config.rule # NoRule => IsExpression(config.rule)
         /\ Entries \subseteq Uri
  <1>1. /\ request.redirectUri \in Uri /\ request.origin \in Uri /\ request.uri \in Uri
        /\ config.postLogin \in Uri /\ config.postLogout \in Uri
        /\ config.validUris \in Seq(Uri) /\ config.wildcards \in BOOLEAN
        /\ config.rule # NoRule => IsExpression(config.rule)
    BY DEF TypeOK, IsConfig, IsRequest
  <1>2. Entries \subseteq Uri
    BY <1>1 DEF Entries
  <1>3. QED
    BY <1>1, <1>2

LEMMA Ensured ==
  ASSUME NEW host \in Uri, NEW uri \in Uri
  PROVE  EnsureAbsoluteUrl(host, uri) \in Uri
  <1>1. "/" \in Words \cup Punctuation
    BY DEF Punctuation, Reserved
  <1>2. \A u, v \in Uri : u \o v \in Uri
    BY DEF Uri
  <1>3. <<"/">> \in Uri
    BY <1>1 DEF Uri
  <1>4. host \o uri \in Uri /\ host \o (<<"/">> \o uri) \in Uri
    BY <1>2, <1>3
  <1>5. QED
    BY <1>4 DEF EnsureAbsoluteUrl

LEMMA OwnTargetsTyping == TypeOK => OwnTargets \subseteq Uri
  <1>1. \A u, v \in Uri : u \o v \in Uri
    BY DEF Uri
  <1>2. ASSUME TypeOK PROVE OwnTargets \subseteq Uri
    <2>1. \A uri \in {config.postLogin, config.postLogout} : EnsureAbsoluteUrl(request.origin, uri) \in Uri
      BY <1>2, RequestTyping, Ensured
    <2>2. request.origin \in Uri /\ request.origin \o request.uri \in Uri
      BY <1>1, <1>2, RequestTyping
    <2>3. QED
      BY <2>1, <2>2 DEF OwnTargets
  <1>3. QED
    BY <1>2

(***************************************************************************)
(* The redirect_uri                                                         *)
(***************************************************************************)
Valid == ValidRedirectUri(request.redirectUri, config.validUris, config.wildcards)

\* What ValidateRedirectUri accepts, an entry stands for, and the other way round.
LEMMA ValidIsRegistered ==
  ASSUME TypeOK, Valid, request.redirectUri # <<>>
  PROVE  \E entry \in Entries : \/ Registered(request.redirectUri, entry, config.wildcards)
                                \/ config.wildcards /\ Misread(request.redirectUri, entry)
  <1>1. PICK i \in DOMAIN config.validUris :
          \/ request.redirectUri = config.validUris[i]
          \/ config.wildcards /\ MatchUriTemplate(request.redirectUri, config.validUris[i])
    BY DEF Valid, ValidRedirectUri
  <1>2. PICK entry \in Entries : entry = config.validUris[i]
    BY DEF Entries
  <1>3. entry \in Uri /\ request.redirectUri \in Uri /\ config.wildcards \in BOOLEAN
    BY RequestTyping
  <1>4. CASE request.redirectUri = entry
    BY <1>4 DEF Registered
  <1>5. CASE config.wildcards /\ MatchUriTemplate(request.redirectUri, entry)
    <2>1. Misread(request.redirectUri, entry) \/ Registered(request.redirectUri, entry, TRUE)
      BY <1>3, <1>5, MatchedIsRegistered, MatchedIsMisread
    <2>2. config.wildcards = TRUE
      BY <1>3, <1>5
    <2>3. QED
      BY <2>1, <2>2
  <1>6. QED
    BY <1>1, <1>2, <1>4, <1>5

LEMMA RegisteredIsValid ==
  ASSUME TypeOK, NEW entry \in Entries, Registered(request.redirectUri, entry, config.wildcards),
         HidesScheme(request.redirectUri) \/ HidesScheme(entry) => entry \in {request.redirectUri, <<"*">>}
  PROVE  Valid
  <1>1. entry \in Uri /\ request.redirectUri \in Uri /\ config.wildcards \in BOOLEAN
    BY RequestTyping
  <1>2. \/ request.redirectUri = entry
        \/ config.wildcards /\ MatchUriTemplate(request.redirectUri, entry)
    BY <1>1, RegisteredIsMatched
  <1>3. PICK i \in DOMAIN config.validUris : entry = config.validUris[i]
    BY DEF Entries
  <1>4. QED
    BY <1>2, <1>3 DEF Valid, ValidRedirectUri

\* handleLogin and handleLogout.
LEMMA LoginAnswer ==
  ASSUME TypeOK, HandleLogin
  PROVE  /\ pc' = "done"
         /\ Valid => /\ outcome' = "login" /\ target' \in Uri
                     /\ IF request.to = "login" /\ request.redirectUri # <<>>
                        THEN target' = request.redirectUri ELSE target' \in OwnTargets
         /\ ~Valid => outcome' = "badRequest" /\ target' = <<>>
  <1>1. CASE ~Valid
    BY <1>1 DEF HandleLogin, Valid, Answer, Done
  <1>2. CASE Valid
    <2> DEFINE uri == IF request.to = "login" /\ request.redirectUri # <<>> THEN request.redirectUri
                      ELSE IF config.postLogin # <<>> THEN EnsureAbsoluteUrl(request.origin, config.postLogin)
                      ELSE IF request.to = "login" THEN request.origin
                      ELSE request.origin \o request.uri
    <2>1. Done("login", uri)
      BY <1>2 DEF HandleLogin, Valid
    <2>2. IF request.to = "login" /\ request.redirectUri # <<>>
          THEN uri = request.redirectUri ELSE uri \in OwnTargets
      <3>1. /\ EnsureAbsoluteUrl(request.origin, config.postLogin) \in OwnTargets
            /\ request.origin \in OwnTargets /\ request.origin \o request.uri \in OwnTargets
        BY DEF OwnTargets
      <3>2. CASE request.to = "login" /\ request.redirectUri # <<>>
        BY <3>2
      <3>3. CASE ~(request.to = "login" /\ request.redirectUri # <<>>)
        BY <3>1, <3>3
      <3>4. QED
        BY <3>2, <3>3
    <2>3. uri \in Uri
      BY <2>2, RequestTyping, OwnTargetsTyping
    <2>4. pc' = "done" /\ outcome' = "login" /\ target' = uri
      BY <2>1 DEF Done
    <2>5. QED
      BY <1>2, <2>2, <2>3, <2>4
  <1>3. QED
    BY <1>1, <1>2

LEMMA LogoutAnswer ==
  ASSUME TypeOK, HandleLogout
  PROVE  /\ pc' = "done"
         /\ Valid => /\ outcome' = "logout" /\ target' \in Uri
                     /\ IF request.redirectUri # <<>>
                        THEN target' = EnsureAbsoluteUrl(request.origin, request.redirectUri)
                        ELSE target' \in OwnTargets
         /\ ~Valid => outcome' = "badRequest" /\ target' = <<>>
  <1>1. CASE ~Valid
    BY <1>1 DEF HandleLogout, Valid, Answer, Done
  <1>2. CASE Valid
    <2>1. Done("logout", EnsureAbsoluteUrl(request.origin,
                        IF request.redirectUri # <<>> THEN request.redirectUri ELSE config.postLogout))
      BY <1>2 DEF HandleLogout, Valid
    <2>2. EnsureAbsoluteUrl(request.origin, request.redirectUri) \in Uri
      BY RequestTyping, Ensured
    <2>3. EnsureAbsoluteUrl(request.origin, config.postLogout) \in OwnTargets
      BY DEF OwnTargets
    <2>4. QED
      BY <1>2, <2>1, <2>2, <2>3, OwnTargetsTyping DEF Done
  <1>3. QED
    BY <1>1, <1>2

\* Where a login or a logout is led, and that it is.
LEMMA LoginTargets ==
  ASSUME TypeOK, HandleLogin, UNCHANGED <<config, request>>
  PROVE  TargetsAreRegistered'
  <1>1. CASE ~Valid
    BY <1>1, LoginAnswer DEF TargetsAreRegistered
  <1>2. CASE Valid /\ request.to = "login" /\ request.redirectUri # <<>>
    <2>1. target' = request.redirectUri
      BY <1>2, LoginAnswer
    <2>2. \E entry \in Entries : \/ Registered(request.redirectUri, entry, config.wildcards)
                                 \/ config.wildcards /\ Misread(request.redirectUri, entry)
      BY <1>2, ValidIsRegistered
    <2>3. \E entry \in Entries' : \/ Registered(request'.redirectUri, entry, config'.wildcards)
                                  \/ config'.wildcards /\ Misread(request'.redirectUri, entry)
      BY <2>2, SameRequest
    <2>4. QED
      BY <1>2, <2>1, <2>3 DEF TargetsAreRegistered
  <1>3. CASE Valid /\ ~(request.to = "login" /\ request.redirectUri # <<>>)
    BY <1>3, LoginAnswer, SameRequest DEF TargetsAreRegistered
  <1>4. QED
    BY <1>1, <1>2, <1>3

LEMMA LogoutTargets ==
  ASSUME TypeOK, HandleLogout, request.to = "logout", UNCHANGED <<config, request>>
  PROVE  TargetsAreRegistered'
  <1>1. CASE ~Valid
    BY <1>1, LogoutAnswer DEF TargetsAreRegistered
  <1>2. CASE Valid /\ request.redirectUri # <<>>
    <2>1. target' = EnsureAbsoluteUrl(request.origin, request.redirectUri)
      BY <1>2, LogoutAnswer
    <2>2. \E entry \in Entries : \/ Registered(request.redirectUri, entry, config.wildcards)
                                 \/ config.wildcards /\ Misread(request.redirectUri, entry)
      BY <1>2, ValidIsRegistered
    <2>3. \E entry \in Entries' : \/ Registered(request'.redirectUri, entry, config'.wildcards)
                                  \/ config'.wildcards /\ Misread(request'.redirectUri, entry)
      BY <2>2, SameRequest
    <2>4. QED
      BY <2>1, <2>3 DEF TargetsAreRegistered
  <1>3. CASE Valid /\ request.redirectUri = <<>>
    BY <1>3, LogoutAnswer, SameRequest DEF TargetsAreRegistered
  <1>4. QED
    BY <1>1, <1>2, <1>3

\* To follow every valid URI is to follow every registered one.
LEMMA FollowedIfValid ==
  ASSUME TypeOK, UNCHANGED <<config, request>>,
         Valid /\ request.redirectUri # <<>> =>
           /\ request.to = "login" => outcome' = "login" /\ target' = request.redirectUri
           /\ request.to = "logout" =>
                outcome' = "logout" /\ target' = EnsureAbsoluteUrl(request.origin, request.redirectUri)
  PROVE  RegisteredIsFollowed'
  <1>1. SUFFICES ASSUME request.redirectUri # <<>>,
                        NEW entry \in Entries', Registered(request'.redirectUri, entry, config'.wildcards),
                        HidesScheme(request'.redirectUri) \/ HidesScheme(entry)
                          => entry \in {request'.redirectUri, <<"*">>}
                 PROVE  /\ request.to = "login" => outcome' = "login" /\ target' = request.redirectUri
                        /\ request.to = "logout" =>
                             outcome' = "logout" /\ target' = EnsureAbsoluteUrl(request.origin, request.redirectUri)
    BY DEF RegisteredIsFollowed
  <1>2. entry \in Entries /\ request' = request /\ config' = config
    BY SameRequest
  <1>3. Valid
    BY <1>1, <1>2, RegisteredIsValid
  <1>4. QED
    BY <1>1, <1>3

(***************************************************************************)
(* The steps                                                                *)
(***************************************************************************)
LEMMA InitIInv == Init => IInv
  <1> SUFFICES ASSUME Init PROVE IInv
    OBVIOUS
  <1>1. IsConfig(config) /\ IsRequest(request)
    BY FamiliesAssumption DEF Init
  <1>2. config.assertions \in Seq(Assertion) /\ request.claims \in [Names -> Seq(Node)]
    BY <1>1 DEF IsConfig, IsRequest
  <1>3. LoopInv
    BY <1>2, InitLoopInv DEF Init
  <1>4. TypeOK
    <2>1. <<>> \in Uri
      BY DEF Uri
    <2>2. AuthorizationTypeOK
      BY <1>3 DEF LoopInv
    <2>3. QED
      BY <1>1, <2>1, <2>2 DEF Init, TypeOK
  <1>5. RuleKnown
    BY DEF Init, RuleKnown
  <1>6. SessionKnown /\ AnswerGiven /\ TargetsAreRegistered /\ RegisteredIsFollowed
    <2>1. pc = "create" /\ outcome = "none" /\ target = <<>> /\ verdict = "none"
      BY DEF Init, AuthorizationInit
    <2>2. QED
      BY <2>1 DEF SessionKnown, AnswerGiven, TargetsAreRegistered, RegisteredIsFollowed, At
  <1>7. QED
    BY <1>3, <1>4, <1>5, <1>6 DEF IInv

\* The loop's invariant holds wherever the loop is left alone.
LEMMA LoopStep ==
  ASSUME IInv, [AuthorizationNext]_authorization
  PROVE  LoopInv' /\ AuthorizationTypeOK'
  <1>1. LoopInv'
    BY StepLoopInv DEF IInv
  <1>2. QED
    BY <1>1 DEF LoopInv

LEMMA SameVerdict ==
  ASSUME UNCHANGED <<config, request, authorization>>
  PROVE  verdict' = verdict /\ (IsAuthorized' <=> IsAuthorized)
  BY DEF authorization, IsAuthorized, Checked

LEMMA NoneIsNoError == [sort |-> "none"] # Error
  <1>1. [sort |-> "none"].sort = "none" /\ Error.sort = "error"
    BY DEF Error
  <1>2. QED
    BY <1>1

\* Before the session is looked at there is no verdict.
LEMMA NoVerdictYet ==
  ASSUME SessionKnown, pc \in {"create", "arrive"}, UNCHANGED authorization
  PROVE  verdict = "none" /\ verdict' = "none"
  BY DEF SessionKnown, authorization

\* An answer to a request whose rule is known.
LEMMA AnswerStep ==
  ASSUME IInv, pc \in {"route", "decide"}, pc' = "done",
         UNCHANGED <<config, request, condition, public, authorization>>,
         outcome' \in {"callback", "login", "logout", "forwarded", "unauthenticated", "unauthorized", "badRequest"},
         target' \in Uri, target' # <<>> => outcome' \in {"login", "logout"},
         AnswerGiven', TargetsAreRegistered', RegisteredIsFollowed'
  PROVE  IInv'
  <1>1. LoopInv' /\ AuthorizationTypeOK'
    BY LoopStep
  <1>2. TypeOK'
    BY <1>1 DEF IInv, TypeOK
  <1>3. outcome = "none"
    BY DEF IInv, TypeOK
  <1>4. RuleKnown'
    <2>1. condition # Error /\ public = Bypassed
      BY <1>3 DEF IInv, RuleKnown
    <2>2. condition' # Error /\ public' = Bypassed' /\ outcome' # "misconfigured"
      <3>1. Bypassed' = Bypassed
        BY DEF Bypassed
      <3>2. QED
        BY <2>1, <3>1
    <2>3. condition' = IF config'.rule = NoRule THEN [sort |-> "none"] ELSE ParseRequestCondition(config'.rule)
      BY DEF IInv, RuleKnown
    <2>4. QED
      BY <2>2, <2>3 DEF RuleKnown
  <1>5. SessionKnown'
    BY DEF SessionKnown
  <1>6. QED
    BY <1>1, <1>2, <1>4, <1>5 DEF IInv

\* What the answers need not be led to.
LEMMA NoTarget ==
  ASSUME target' = <<>>
  PROVE  TargetsAreRegistered'
  BY DEF TargetsAreRegistered

LEMMA NoRedirect ==
  ASSUME UNCHANGED request,
         ~(request.to = "login" \/ (request.to = "logout" /\ request.session.kind # "none"))
  PROVE  RegisteredIsFollowed'
  BY DEF RegisteredIsFollowed

\* Every step of New and ServeHTTP keeps the invariant.
LEMMA CreateStep == IInv /\ Create => IInv'
  <1> SUFFICES ASSUME IInv, Create PROVE IInv'
    OBVIOUS
  <1>1. /\ pc = "create" /\ UNCHANGED <<config, request, public, authorization>>
        /\ condition = [sort |-> "none"] /\ outcome = "none" /\ target = <<>>
    BY DEF IInv, Create, At, RuleKnown, TypeOK
  <1> verdict' = "none"
    BY <1>1, NoVerdictYet DEF IInv
  <1>2. LoopInv' /\ AuthorizationTypeOK'
    BY <1>1, LoopStep
  <1>3. CASE config.rule = NoRule
    <2>1. pc' = "arrive" /\ UNCHANGED <<condition, outcome, target>>
      BY <1>3 DEF Create, Goto
    <2>2. TypeOK'
      BY <1>1, <1>2, <2>1 DEF IInv, TypeOK
    <2>3. RuleKnown'
      BY <1>1, <1>3, <2>1, NoneIsNoError DEF RuleKnown
    <2>4. SessionKnown' /\ AnswerGiven' /\ TargetsAreRegistered' /\ RegisteredIsFollowed'
      BY <1>1, <2>1 DEF SessionKnown, AnswerGiven, TargetsAreRegistered, RegisteredIsFollowed, At
    <2>5. QED
      BY <1>2, <2>2, <2>3, <2>4 DEF IInv
  <1>4. CASE config.rule # NoRule
    <2>1. condition' = ParseRequestCondition(config.rule)
      BY <1>4 DEF Create
    <2>2. condition'.sort \in {"builder", "error"}
      BY <1>4, <2>1, RequestTyping, RuleIsRead DEF IInv
    <2>3. CASE condition' = Error
      <3>1. pc' = "done" /\ outcome' = "misconfigured" /\ target' = <<>>
        BY <1>4, <2>1, <2>3 DEF Create, Answer, Done
      <3>2. TypeOK'
        BY <1>1, <1>2, <2>2, <3>1 DEF IInv, TypeOK
      <3>3. RuleKnown'
        BY <1>1, <1>4, <2>1, <2>3, <3>1 DEF RuleKnown
      <3>4. SessionKnown' /\ AnswerGiven' /\ TargetsAreRegistered' /\ RegisteredIsFollowed'
        BY <1>1, <3>1 DEF SessionKnown, AnswerGiven, TargetsAreRegistered, RegisteredIsFollowed, At
      <3>5. QED
        BY <1>2, <3>2, <3>3, <3>4 DEF IInv
    <2>4. CASE condition' # Error
      <3>1. pc' = "arrive" /\ UNCHANGED <<outcome, target>>
        BY <1>4, <2>1, <2>4 DEF Create, Goto
      <3>2. TypeOK'
        BY <1>1, <1>2, <2>2, <3>1 DEF IInv, TypeOK
      <3>3. RuleKnown'
        BY <1>1, <1>4, <2>1, <2>4, <3>1 DEF RuleKnown
      <3>4. SessionKnown' /\ AnswerGiven' /\ TargetsAreRegistered' /\ RegisteredIsFollowed'
        BY <1>1, <3>1 DEF SessionKnown, AnswerGiven, TargetsAreRegistered, RegisteredIsFollowed, At
      <3>5. QED
        BY <1>2, <3>2, <3>3, <3>4 DEF IInv
    <2>5. QED
      BY <2>3, <2>4
  <1>5. QED
    BY <1>3, <1>4

\* The rule matches the requests that it bypasses.
LEMMA RuleDecides ==
  ASSUME TypeOK, RuleKnown, pc # "create", condition # Error
  PROVE  (condition.sort = "builder" /\ Match(condition.tree, request)) <=> Bypassed
  <1>1. CASE config.rule = NoRule
    <2>1. condition.sort = "none"
      BY <1>1 DEF RuleKnown
    <2>2. QED
      BY <1>1, <2>1 DEF Bypassed
  <1>2. CASE config.rule # NoRule
    <2>1. condition = ParseRequestCondition(config.rule) /\ IsExpression(config.rule)
      BY <1>2, RequestTyping DEF RuleKnown
    <2>2. IsCondition(config.rule) /\ condition.sort = "builder"
      BY <2>1, RuleIsRead
    <2>3. Match(condition.tree, request) = Holds(config.rule, request)
      BY <2>1, <2>2, RuleMatches
    <2>4. QED
      BY <1>2, <2>2, <2>3 DEF Bypassed
  <1>3. QED
    BY <1>1, <1>2

LEMMA ArriveStep == IInv /\ Arrive => IInv'
  <1> SUFFICES ASSUME IInv, Arrive PROVE IInv'
    OBVIOUS
  <1>1. /\ pc = "arrive" /\ pc' = "route" /\ UNCHANGED <<config, request, condition, authorization, outcome, target>>
        /\ public' = (condition.sort = "builder" /\ Match(condition.tree, request))
        /\ outcome = "none"
    BY DEF IInv, Arrive, At, Goto, TypeOK
  <1>2. LoopInv' /\ AuthorizationTypeOK'
    BY <1>1, LoopStep
  <1>3. TypeOK'
    BY <1>1, <1>2 DEF IInv, TypeOK
  <1>4. RuleKnown'
    <2>1. condition # Error
      BY <1>1 DEF IInv, RuleKnown
    <2>2. public' = Bypassed
      <3>1. public' <=> Bypassed
        BY <1>1, <2>1, RuleDecides DEF IInv
      <3>2. public' \in BOOLEAN /\ Bypassed \in BOOLEAN
        BY <1>1 DEF Bypassed
      <3>3. QED
        BY <3>1, <3>2
    <2>3. Bypassed' = Bypassed
      BY <1>1 DEF Bypassed
    <2>4. condition' = IF config'.rule = NoRule THEN [sort |-> "none"] ELSE ParseRequestCondition(config'.rule)
      BY <1>1 DEF IInv, RuleKnown
    <2>5. QED
      BY <1>1, <2>1, <2>2, <2>3, <2>4 DEF RuleKnown
  <1>5. SessionKnown' /\ AnswerGiven' /\ TargetsAreRegistered' /\ RegisteredIsFollowed'
    BY <1>1, <1>3, NoVerdictYet DEF IInv, TypeOK, SessionKnown, AnswerGiven, TargetsAreRegistered, RegisteredIsFollowed, At
  <1>6. QED
    BY <1>2, <1>3, <1>4, <1>5 DEF IInv

LEMMA ServeCallbackStep == IInv /\ ServeCallback => IInv'
  <1> SUFFICES ASSUME IInv, ServeCallback PROVE IInv'
    OBVIOUS
  <1>1. /\ pc = "route" /\ request.to = "callback" /\ pc' = "done" /\ outcome' = "callback" /\ target' = <<>>
        /\ UNCHANGED <<config, request, condition, public, authorization>>
    BY DEF ServeCallback, At, Answer, Done
  <1>2. <<>> \in Uri
    BY DEF Uri
  <1>3. AnswerGiven'
    BY <1>1 DEF AnswerGiven
  <1>4. TargetsAreRegistered' /\ RegisteredIsFollowed'
    BY <1>1, NoTarget, NoRedirect
  <1>5. QED
    BY <1>1, <1>2, <1>3, <1>4, AnswerStep

LEMMA ServeLoginStep == IInv /\ ServeLogin => IInv'
  <1> SUFFICES ASSUME IInv, ServeLogin PROVE IInv'
    OBVIOUS
  <1>1. /\ TypeOK /\ pc = "route" /\ request.to = "login" /\ HandleLogin
        /\ UNCHANGED <<config, request, condition, public, authorization>>
    BY DEF IInv, ServeLogin, At
  <1>2. /\ pc' = "done" /\ outcome' \in {"login", "badRequest"} /\ target' \in Uri
        /\ target' # <<>> => outcome' = "login"
    <2>1. <<>> \in Uri
      BY DEF Uri
    <2>2. QED
      BY <1>1, <2>1, LoginAnswer
  <1>3. AnswerGiven'
    BY <1>1, <1>2 DEF AnswerGiven
  <1>4. TargetsAreRegistered'
    BY <1>1, LoginTargets
  <1>5. RegisteredIsFollowed'
    BY <1>1, LoginAnswer, FollowedIfValid
  <1>6. QED
    BY <1>1, <1>2, <1>3, <1>4, <1>5, AnswerStep

LEMMA ServeLogoutStep == IInv /\ ServeLogout => IInv'
  <1> SUFFICES ASSUME IInv, ServeLogout PROVE IInv'
    OBVIOUS
  <1>1. /\ TypeOK /\ pc = "route" /\ request.to = "logout" /\ HandleLogout
        /\ UNCHANGED <<config, request, condition, public, authorization>>
    BY DEF IInv, ServeLogout, At
  <1>2. /\ pc' = "done" /\ outcome' \in {"logout", "badRequest"} /\ target' \in Uri
        /\ target' # <<>> => outcome' = "logout"
    <2>1. <<>> \in Uri
      BY DEF Uri
    <2>2. QED
      BY <1>1, <2>1, OwnTargetsTyping, LogoutAnswer
  <1>3. AnswerGiven'
    BY <1>1, <1>2 DEF AnswerGiven
  <1>4. TargetsAreRegistered'
    BY <1>1, LogoutTargets
  <1>5. RegisteredIsFollowed'
    BY <1>1, LogoutAnswer, FollowedIfValid
  <1>6. QED
    BY <1>1, <1>2, <1>3, <1>4, <1>5, AnswerStep

\* handleUnauthenticated and handleUnauthorized lead to a login or say no.
LEMMA UnauthenticatedAnswer ==
  ASSUME HandleUnauthenticated
  PROVE  \/ HandleLogin
         \/ config.unauthenticated = "Forward" /\ Answer("forwarded")
         \/ Answer("unauthenticated")
  <1> PICK html \in IsHtmlRequest :
        CASE config.unauthenticated = "Challenge" -> HandleLogin
          [] config.unauthenticated = "Forward" -> Answer("forwarded")
          [] config.unauthenticated = "Auto" /\ html -> HandleLogin
          [] OTHER -> Answer("unauthenticated")
    BY DEF HandleUnauthenticated
  <1>1. CASE config.unauthenticated = "Challenge"
    BY <1>1
  <1>2. CASE config.unauthenticated = "Forward"
    BY <1>2
  <1>3. CASE config.unauthenticated = "Auto" /\ html
    BY <1>3
  <1>4. CASE /\ config.unauthenticated \notin {"Challenge", "Forward"}
             /\ ~(config.unauthenticated = "Auto" /\ html)
    BY <1>4
  <1>5. QED
    BY <1>1, <1>2, <1>3, <1>4

\* A page is not redirected elsewhere.
LEMMA PageAnswer ==
  ASSUME TypeOK, HandleLogin, UNCHANGED <<config, request>>
  PROVE  /\ pc' = "done" /\ outcome' \in {"login", "badRequest"} /\ target' \in Uri
         /\ target' # <<>> => outcome' = "login"
         /\ TargetsAreRegistered'
  <1>1. <<>> \in Uri
    BY DEF Uri
  <1>2. QED
    BY <1>1, LoginAnswer, LoginTargets

LEMMA ServeWithoutSessionStep == IInv /\ ServeWithoutSession => IInv'
  <1> SUFFICES ASSUME IInv, ServeWithoutSession PROVE IInv'
    OBVIOUS
  <1>1. /\ TypeOK /\ pc = "route" /\ request.to \in {"page", "logout"} /\ request.session.kind = "none"
        /\ UNCHANGED <<config, request, condition, public, authorization>>
        /\ IF public THEN Answer("forwarded") ELSE HandleUnauthenticated
    BY DEF IInv, ServeWithoutSession, At
  <1>2. RegisteredIsFollowed'
    BY <1>1, NoRedirect
  <1>3. public = Bypassed
    BY <1>1 DEF IInv, RuleKnown, TypeOK
  <1>4. (Bypassed' <=> Bypassed) /\ <<>> \in Uri
    BY <1>1, SameRequest DEF Uri
  <1>5. CASE Answer("forwarded") /\ (Bypassed \/ config.unauthenticated = "Forward")
    <2>1. pc' = "done" /\ outcome' = "forwarded" /\ target' = <<>>
      BY <1>5 DEF Answer, Done
    <2>2. AnswerGiven'
      BY <1>1, <1>4, <1>5, <2>1 DEF AnswerGiven
    <2>3. QED
      BY <1>1, <1>2, <1>4, <2>1, <2>2, NoTarget, AnswerStep
  <1>6. CASE ~Bypassed /\ HandleLogin
    <2>1. /\ pc' = "done" /\ outcome' \in {"login", "badRequest"} /\ target' \in Uri
          /\ target' # <<>> => outcome' = "login"
          /\ TargetsAreRegistered'
      BY <1>1, <1>6, PageAnswer
    <2>2. AnswerGiven'
      BY <1>1, <1>4, <1>6, <2>1 DEF AnswerGiven
    <2>3. QED
      BY <1>1, <1>2, <2>1, <2>2, AnswerStep
  <1>7. CASE ~Bypassed /\ Answer("unauthenticated")
    <2>1. pc' = "done" /\ outcome' = "unauthenticated" /\ target' = <<>>
      BY <1>7 DEF Answer, Done
    <2>2. AnswerGiven'
      BY <1>1, <1>4, <1>7, <2>1 DEF AnswerGiven
    <2>3. QED
      BY <1>1, <1>2, <1>4, <2>1, <2>2, NoTarget, AnswerStep
  <1>8. QED
    BY <1>1, <1>3, <1>5, <1>6, <1>7, UnauthenticatedAnswer

\* A step of ServeHTTP without an answer, after the rule has been asked.
LEMMA GotoStep ==
  ASSUME IInv, pc \in {"route", "authorize"}, pc' \in {"authorize", "decide"},
         UNCHANGED <<config, request, condition, public, outcome, target>>,
         [AuthorizationNext]_authorization, SessionKnown'
  PROVE  IInv'
  <1>1. LoopInv' /\ AuthorizationTypeOK'
    BY LoopStep
  <1>2. outcome = "none" /\ outcome' = "none" /\ target' = <<>>
    BY DEF IInv, TypeOK
  <1>3. TypeOK'
    BY <1>1, <1>2 DEF IInv, TypeOK
  <1>4. RuleKnown'
    <2>1. condition # Error /\ public = Bypassed
      BY <1>2 DEF IInv, RuleKnown
    <2>2. Bypassed' = Bypassed
      BY DEF Bypassed
    <2>3. condition' = IF config'.rule = NoRule THEN [sort |-> "none"] ELSE ParseRequestCondition(config'.rule)
      BY DEF IInv, RuleKnown
    <2>4. QED
      BY <1>2, <2>1, <2>2, <2>3 DEF RuleKnown
  <1>5. AnswerGiven' /\ TargetsAreRegistered' /\ RegisteredIsFollowed'
    BY <1>2 DEF AnswerGiven, TargetsAreRegistered, RegisteredIsFollowed, At
  <1>6. QED
    BY <1>1, <1>3, <1>4, <1>5 DEF IInv

LEMMA ServeSessionStep == IInv /\ ServeSession => IInv'
  <1> SUFFICES ASSUME IInv, ServeSession PROVE IInv'
    OBVIOUS
  <1>1. /\ pc = "route" /\ request.to = "page" /\ request.session.kind # "none"
        /\ pc' = (IF Checked THEN "authorize" ELSE "decide")
        /\ UNCHANGED <<config, request, condition, public, authorization, outcome, target>>
    BY DEF ServeSession, At, Goto
  <1>2. Checked' <=> Checked
    BY <1>1, SameRequest
  <1>3. SessionKnown'
    <2>1. verdict = "none" /\ verdict' = "none"
      BY <1>1, SameVerdict DEF IInv, SessionKnown
    <2>2. QED
      BY <1>1, <1>2, <2>1 DEF SessionKnown
  <1>4. QED
    BY <1>1, <1>3, GotoStep

LEMMA AuthorizeStep == IInv /\ Authorize => IInv'
  <1> SUFFICES ASSUME IInv, Authorize PROVE IInv'
    OBVIOUS
  <1>1. /\ pc = "authorize" /\ AuthorizationNext
        /\ pc' = (IF verdict' = "none" THEN "authorize" ELSE "decide")
        /\ UNCHANGED <<config, request, condition, public, outcome, target>>
    BY DEF Authorize, At, Goto
  <1>2. Checked' <=> Checked
    BY <1>1, SameRequest
  <1>3. SessionKnown'
    BY <1>1, <1>2 DEF IInv, SessionKnown
  <1>4. QED
    BY <1>1, <1>3, GotoStep

LEMMA DecideStep == IInv /\ Decide => IInv'
  <1> SUFFICES ASSUME IInv, Decide PROVE IInv'
    OBVIOUS
  <1>1. /\ TypeOK /\ pc = "decide" /\ request.to = "page" /\ request.session.kind # "none"
        /\ UNCHANGED <<config, request, condition, public, authorization>>
        /\ IF IsAuthorized \/ config.unauthorized = "Forward" THEN Answer("forwarded") ELSE HandleUnauthorized
        /\ Checked => verdict # "none"
    BY DEF IInv, Decide, At, SessionKnown
  <1>2. /\ (Checked' <=> Checked) /\ (IsAuthorized' <=> IsAuthorized) /\ verdict' = verdict
    BY <1>1, SameRequest, SameVerdict
  <1>3. RegisteredIsFollowed' /\ <<>> \in Uri
    BY <1>1, NoRedirect DEF Uri
  <1>4. CASE Answer("forwarded") /\ (IsAuthorized \/ config.unauthorized = "Forward")
    <2>1. pc' = "done" /\ outcome' = "forwarded" /\ target' = <<>>
      BY <1>4 DEF Answer, Done
    <2>2. AnswerGiven'
      BY <1>1, <1>2, <1>4, <2>1 DEF AnswerGiven
    <2>3. QED
      BY <1>1, <1>3, <2>1, <2>2, NoTarget, AnswerStep
  <1>5. CASE ~IsAuthorized /\ HandleLogin
    <2>1. /\ pc' = "done" /\ outcome' \in {"login", "badRequest"} /\ target' \in Uri
          /\ target' # <<>> => outcome' = "login"
          /\ TargetsAreRegistered'
      BY <1>1, <1>5, PageAnswer
    <2>2. AnswerGiven'
      BY <1>1, <1>2, <1>5, <2>1 DEF AnswerGiven
    <2>3. QED
      BY <1>1, <1>3, <2>1, <2>2, AnswerStep
  <1>6. CASE ~IsAuthorized /\ Answer("unauthorized")
    <2>1. pc' = "done" /\ outcome' = "unauthorized" /\ target' = <<>>
      BY <1>6 DEF Answer, Done
    <2>2. AnswerGiven'
      BY <1>1, <1>2, <1>6, <2>1 DEF AnswerGiven
    <2>3. QED
      BY <1>1, <1>3, <2>1, <2>2, NoTarget, AnswerStep
  <1>7. QED
    BY <1>1, <1>4, <1>5, <1>6 DEF HandleUnauthorized

LEMMA StutterStep == IInv /\ UNCHANGED vars => IInv'
  <1> SUFFICES ASSUME IInv, UNCHANGED vars PROVE IInv'
    OBVIOUS
  <1>1. UNCHANGED <<config, request, pc, condition, public, outcome, target, authorization>>
    BY DEF vars, decision
  <1>2. LoopInv' /\ AuthorizationTypeOK'
    BY <1>1, LoopStep
  <1>3. TypeOK'
    BY <1>1, <1>2 DEF IInv, TypeOK
  <1>4. /\ Bypassed' = Bypassed /\ (Checked' <=> Checked)
        /\ (IsAuthorized' <=> IsAuthorized) /\ verdict' = verdict
        /\ OwnTargets' = OwnTargets /\ Entries' = Entries
    <2>1. Bypassed' = Bypassed
      BY <1>1 DEF Bypassed
    <2>2. QED
      BY <1>1, <2>1, SameRequest, SameVerdict
  <1>5. RuleKnown'
    BY <1>1, <1>4 DEF IInv, RuleKnown
  <1>6. SessionKnown' /\ AnswerGiven'
    BY <1>1, <1>4 DEF IInv, SessionKnown, AnswerGiven
  <1>7. TargetsAreRegistered'
    BY <1>1, <1>4 DEF IInv, TargetsAreRegistered
  <1>8. RegisteredIsFollowed'
    BY <1>1, <1>4 DEF IInv, RegisteredIsFollowed, At
  <1>9. QED
    BY <1>2, <1>3, <1>5, <1>6, <1>7, <1>8 DEF IInv

LEMMA StepIInv == IInv /\ [Next]_vars => IInv'
  <1>1. IInv /\ Finished => IInv'
    BY StutterStep DEF Finished
  <1>2. QED
    BY <1>1, CreateStep, ArriveStep, ServeCallbackStep, ServeLoginStep, ServeWithoutSessionStep,
       ServeLogoutStep, ServeSessionStep, AuthorizeStep, DecideStep, StutterStep DEF Next

LEMMA Invariance == Spec => []IInv
  <1>1. QED
    BY InitIInv, StepIInv, PTL DEF Spec

(***************************************************************************)
(* The theorems                                                             *)
(***************************************************************************)
\* Every configuration and every request, and what ServeHTTP makes of them, keep
\* their types.
THEOREM TypeCorrect == Spec => []TypeOK
  <1>1. IInv => TypeOK
    BY DEF IInv
  <1>2. QED
    BY <1>1, Invariance, PTL

\* The verdict on the claims of a request is what the assertions ask for
\* (isAuthorized, called by ServeHTTP).
THEOREM RequestsAreJudged == Spec => []VerdictMeetsAssertions
  <1>1. IInv => VerdictMeetsAssertions
    BY LoopVerdict DEF IInv
  <1>2. QED
    BY <1>1, Invariance, PTL

\* New refuses every rule that is no condition and starts with every other, and a
\* request bypasses authentication exactly if the condition holds for it.
THEOREM RulesAreKept == Spec => []RuleMeansWhatItSays
  <1>1. ASSUME IInv PROVE RuleMeansWhatItSays
    <2>1. outcome = "none" <=> pc # "done"
      BY <1>1 DEF IInv, TypeOK
    <2>2. At("route") => public = Bypassed
      BY <1>1, <2>1 DEF IInv, RuleKnown, At
    <2>3. CASE config.rule = NoRule
      <3>1. condition = [sort |-> "none"] \/ pc = "create"
        BY <1>1, <2>3 DEF IInv, RuleKnown
      <3>2. outcome # "misconfigured"
        BY <1>1, <3>1, NoneIsNoError DEF IInv, RuleKnown
      <3>3. QED
        BY <2>2, <2>3, <3>2 DEF RuleMeansWhatItSays
    <2>4. CASE config.rule # NoRule
      <3>1. ParseRequestCondition(config.rule) = Error <=> ~IsCondition(config.rule)
        BY <1>1, <2>4, RequestTyping, RuleIsRead DEF IInv
      <3>2. outcome = "misconfigured" <=> pc # "create" /\ condition = Error
        BY <1>1 DEF IInv, RuleKnown
      <3>3. pc # "create" => condition = ParseRequestCondition(config.rule)
        BY <1>1, <2>4 DEF IInv, RuleKnown
      <3>4. outcome = "misconfigured" <=> At("done") /\ config.rule # NoRule /\ ~IsCondition(config.rule)
        BY <2>1, <2>4, <3>1, <3>2, <3>3 DEF At
      <3>5. QED
        BY <2>2, <3>4 DEF RuleMeansWhatItSays
    <2>5. QED
      BY <2>3, <2>4
  <1>2. QED
    BY <1>1, Invariance, PTL

\* Nothing is forwarded but what the rule bypasses, who is entitled, and what the
\* behaviours forward.
THEOREM OnlyAllowedIsForwarded == Spec => []ForwardedIsAllowed
  <1>1. ASSUME IInv PROVE ForwardedIsAllowed
    <2>1. SUFFICES ASSUME outcome = "forwarded", request.session.kind # "none", IsAuthorized PROVE Entitled
      BY <1>1 DEF IInv, AnswerGiven, ForwardedIsAllowed
    <2>2. CASE Checked
      <3>1. verdict = "authorized"
        BY <2>1, <2>2 DEF IsAuthorized
      <3>2. \A i \in DOMAIN assertions : Satisfied(assertions[i])
        BY <1>1, <3>1, LoopVerdict DEF IInv, VerdictMeetsAssertions, AuthorizedIsSatisfied
      <3>3. QED
        BY <2>2, <3>2 DEF Entitled
    <2>3. CASE ~Checked
      BY <2>1, <2>3 DEF Entitled, IsAuthorized
    <2>4. QED
      BY <2>2, <2>3
  <1>2. QED
    BY <1>1, Invariance, PTL

\* Who is entitled, and who the rule bypasses, gets the page.
THEOREM EntitledGetThePage == Spec => []EntitledIsForwarded
  <1>1. ASSUME IInv PROVE EntitledIsForwarded
    <2>1. SUFFICES ASSUME pc = "done", request.to = "page", outcome # "misconfigured",
                          IF request.session.kind = "none" THEN Bypassed
                          ELSE /\ Entitled
                               /\ Checked => \A i \in DOMAIN assertions : ~Hidden(assertions[i]) /\ ~Repeats(assertions[i])
                   PROVE  outcome = "forwarded"
      BY DEF EntitledIsForwarded, At
    <2>2. CASE request.session.kind = "none"
      BY <1>1, <2>1, <2>2 DEF IInv, AnswerGiven
    <2>3. CASE request.session.kind # "none" /\ Checked
      <3>1. \A i \in DOMAIN assertions :
              Satisfied(assertions[i]) /\ ~Hidden(assertions[i]) /\ ~Repeats(assertions[i])
        BY <2>1, <2>3 DEF Entitled
      <3>2. verdict # "refused"
        BY <1>1, <3>1 DEF IInv, LoopInv, RefusedIsUnsatisfied
      <3>3. verdict # "none"
        BY <1>1, <2>1, <2>3 DEF IInv, AnswerGiven
      <3>4. verdict = "authorized"
        BY <1>1, <3>2, <3>3 DEF IInv, LoopInv, AuthorizationTypeOK
      <3>5. IsAuthorized
        BY <2>3, <3>4 DEF IsAuthorized
      <3>6. QED
        BY <1>1, <2>1, <2>3, <3>5 DEF IInv, AnswerGiven
    <2>4. CASE request.session.kind # "none" /\ ~Checked
      <3>1. IsAuthorized
        BY <2>1, <2>4 DEF IsAuthorized, Entitled
      <3>2. QED
        BY <1>1, <2>1, <2>4, <3>1 DEF IInv, AnswerGiven
    <2>5. QED
      BY <2>2, <2>3, <2>4
  <1>2. QED
    BY <1>1, Invariance, PTL

\* A login or a logout ends at a page of the plugin or at a URI that the
\* configuration lists.
THEOREM NoOpenRedirect == Spec => []TargetsAreRegistered
  <1>1. IInv => TargetsAreRegistered
    BY DEF IInv
  <1>2. QED
    BY <1>1, Invariance, PTL

\* And every URI that the configuration lists is followed.
THEOREM ListedIsFollowed == Spec => []RegisteredIsFollowed
  <1>1. IInv => RegisteredIsFollowed
    BY DEF IInv
  <1>2. QED
    BY <1>1, Invariance, PTL
=============================================================================
