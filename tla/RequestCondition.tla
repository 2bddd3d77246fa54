-------------------------- MODULE RequestCondition --------------------------
(***************************************************************************)
(* BypassAuthenticationRule: ParseRequestCondition turns the text of a rule *)
(* into a matcher of requests, in four passes:                              *)
(*   Parse       the Go syntax tree to a value, by reflection               *)
(*               (src/src/predicate/parse.go),                              *)
(*   Invert      a negation is pushed down to the leaves                    *)
(*               (src/src/rules/parser.go),                                 *)
(*   AddRule     the tree is checked and compiled, and                      *)
(*   Match       evaluated for a request                                    *)
(*               (src/src/rules/requestCondition.go, httpFuncs.go).         *)
(*                                                                         *)
(* A tree is a function from positions to nodes: the root is at <<>>, and   *)
(* the operands of the node at p are at Left(p) and Right(p).               *)
(***************************************************************************)
EXTENDS Integers, Sequences, SequencesExt

Texts == Seq(STRING)      \* sequences of letters
Empty == <<>>
BadPattern == <<"(">>     \* a regular expression that does not compile

\* What each matcher reads from the request, how it compares, and the number
\* of its arguments.
Matchers ==
  [Header       |-> [reads |-> "header", by |-> "equal",  arity |-> 2],
   HeaderRegexp |-> [reads |-> "header", by |-> "regexp", arity |-> 2],
   Query        |-> [reads |-> "query",  by |-> "equal",  arity |-> 2],
   QueryRegexp  |-> [reads |-> "query",  by |-> "regexp", arity |-> 2],
   Path         |-> [reads |-> "path",   by |-> "equal",  arity |-> 1],
   PathPrefix   |-> [reads |-> "path",   by |-> "prefix", arity |-> 1],
   PathRegexp   |-> [reads |-> "path",   by |-> "regexp", arity |-> 1],
   Method       |-> [reads |-> "method", by |-> "equal",  arity |-> 1],
   Host         |-> [reads |-> "host",   by |-> "equal",  arity |-> 1],
   HostRegexp   |-> [reads |-> "host",   by |-> "regexp", arity |-> 1]]

Left(p) == Append(p, 1)
Right(p) == Append(p, 2)

(***************************************************************************)
(* What the Go parser returns.  "ident" stands for everything that          *)
(* evaluateExpr refuses; as an argument, for everything but a text.         *)
(***************************************************************************)
Argument == [op : {"lit"}, value : Texts] \cup [op : {"ident"}]
ExpressionNode == Argument \cup [op : {"call"}, name : STRING, args : Seq(Argument)]
                           \cup [op : {"paren", "!", "&&", "||", ">"}]
Operands(n) == CASE n.op \in {"call", "lit", "ident"} -> {}
                 [] n.op \in {"paren", "!"} -> {1}
                 [] OTHER -> {1, 2}

IsExpression(e) ==
  /\ <<>> \in DOMAIN e
  /\ \E deepest \in DOMAIN e : \A p \in DOMAIN e : Len(p) <= Len(deepest)
  /\ \A p \in DOMAIN e :
       /\ p \in Seq({1, 2}) /\ e[p] \in ExpressionNode
       /\ p # <<>> => Front(p) \in DOMAIN e /\ Last(p) \in Operands(e[Front(p)])
       /\ \A i \in Operands(e[p]) : Append(p, i) \in DOMAIN e

-----------------------------------------------------------------------------
(***************************************************************************)
(* Parse: a value is a tree (a TreeBuilder), a text or an error             *)
(***************************************************************************)
Error == [sort |-> "error"]
Text(s) == [sort |-> "text", text |-> s]
Builder(t) == [sort |-> "builder", tree |-> t]

Dual == [and |-> "or", or |-> "and"]
TreeNode == [matcher : DOMAIN Matchers \cup DOMAIN Dual, not : BOOLEAN, value : Seq(Texts)]
MatcherNode(name, args) == [matcher |-> name, not |-> FALSE, value |-> args]

\* The position p of an operand, seen from the node whose i-th operand it is.
Under(i, p) == <<i>> \o p

Leaf(name, args) == [p \in {<<>>} |-> MatcherNode(name, args)]
Branch(op, l, r) ==
  [p \in {<<>>} \cup {Under(1, q) : q \in DOMAIN l} \cup {Under(2, q) : q \in DOMAIN r} |->
     IF p = <<>> THEN MatcherNode(op, <<>>) ELSE IF p[1] = 1 THEN l[Tail(p)] ELSE r[Tail(p)]]

InvertNode(n) ==
  IF n.matcher \in DOMAIN Dual THEN [n EXCEPT !.matcher = Dual[@]] ELSE [n EXCEPT !.not = ~@]

\* Fault: the operator is kept when a negation is pushed below it.
Invert_Fault(t) ==
  [p \in DOMAIN t |-> IF t[p].matcher \in DOMAIN Dual THEN t[p] ELSE InvertNode(t[p])]

Invert(t) == [p \in DOMAIN t |-> InvertNode(t[p])]

\* The value of a leaf of the expression.  A call takes texts only: any other
\* argument panics in reflection, which callFunction turns into an error.
Evaluate(n) ==
  CASE n.op = "lit" -> Text(n.value)
    [] n.op = "call" ->
         IF n.name \in DOMAIN Matchers /\ \A i \in DOMAIN n.args : n.args[i].op = "lit"
         THEN Builder(Leaf(n.name, [i \in DOMAIN n.args |-> n.args[i].value]))
         ELSE Error
    [] OTHER -> Error

JoinFunctions == [x \in {"&&", "||"} |-> IF x = "&&" THEN "and" ELSE "or"]

Negate(x) == IF x.sort = "builder" THEN Builder(Invert(x.tree)) ELSE Error

\* An operator other than &&, || and ! has no join function; one applied to
\* anything but builders panics, too.
Join(op, x, y) ==
  IF op \in DOMAIN JoinFunctions /\ x.sort = "builder" /\ y.sort = "builder"
  THEN Builder(Branch(JoinFunctions[op], x.tree, y.tree))
  ELSE Error

Parse(e) ==
  LET parse[p \in DOMAIN e] ==
        CASE e[p].op \in {"call", "lit", "ident"} -> Evaluate(e[p])
          [] e[p].op = "paren" -> parse[Left(p)]
          [] e[p].op = "!" -> Negate(parse[Left(p)])
          [] OTHER -> Join(e[p].op, parse[Left(p)], parse[Right(p)])
  IN  parse[<<>>]

-----------------------------------------------------------------------------
(***************************************************************************)
(* AddRule and Match                                                        *)
(***************************************************************************)
\* The last argument is the value or the pattern to compare with.
CheckRule(leaf) == leaf.value # <<>> /\ \A i \in DOMAIN leaf.value : leaf.value[i] # Empty

\* Fault: regular expressions are not compiled when the rule is read.
Compiles_Fault(leaf) == CheckRule(leaf) /\ Len(leaf.value) = Matchers[leaf.matcher].arity

Compiles(leaf) ==
  LET m == Matchers[leaf.matcher] IN
  /\ CheckRule(leaf)
  /\ Len(leaf.value) = m.arity
  /\ m.by = "regexp" => Last(leaf.value) # BadPattern

AddRule(t) == \A p \in DOMAIN t : t[p].matcher \in DOMAIN Dual \/ Compiles(t[p])

\* Headers and query parameters that are not there read as empty.
Actual(leaf, request) ==
  LET m == Matchers[leaf.matcher]
      value == request[m.reads]
  IN  IF m.arity = 1 THEN value
      ELSE IF leaf.value[1] \in DOMAIN value THEN value[leaf.value[1]] ELSE Empty

\* A pattern of letters matches where it occurs.
Occurs(pattern, text) ==
  \E i \in 0..(Len(text) - Len(pattern)) : SubSeq(text, i + 1, i + Len(pattern)) = pattern

Compare(by, expected, actual) ==
  CASE by = "equal"  -> actual = expected
    [] by = "prefix" -> IsPrefix(expected, actual)
    [] by = "regexp" -> Occurs(expected, actual)

MatchLeaf(leaf, request) ==
  Compare(Matchers[leaf.matcher].by, Last(leaf.value), Actual(leaf, request)) # leaf.not

Match(t, request) ==
  LET match[p \in DOMAIN t] ==
        CASE t[p].matcher = "or"  -> match[Left(p)] \/ match[Right(p)]
          [] t[p].matcher = "and" -> match[Left(p)] /\ match[Right(p)]
          [] OTHER -> MatchLeaf(t[p], request)
  IN  match[<<>>]

\* ParseRequestCondition: a matcher, or an error.
ParseRequestCondition(rule) ==
  LET parsed == Parse(rule) IN
  IF parsed.sort = "builder" /\ AddRule(parsed.tree) THEN parsed ELSE Error

-----------------------------------------------------------------------------
(***************************************************************************)
(* What a rule says, read as a Boolean expression                           *)
(***************************************************************************)
IsCall(n) ==
  /\ n.op = "call" /\ n.name \in DOMAIN Matchers
  /\ \A i \in DOMAIN n.args : n.args[i].op = "lit" /\ n.args[i].value # Empty
  /\ Len(n.args) = Matchers[n.name].arity
  /\ Matchers[n.name].by = "regexp" => Last(n.args).value # BadPattern

IsCondition(e) == \A p \in DOMAIN e : IsCall(e[p]) \/ e[p].op \in {"paren", "!", "&&", "||"}

CallHolds(n, request) ==
  LET args == [i \in DOMAIN n.args |-> n.args[i].value]
  IN  Compare(Matchers[n.name].by, Last(args), Actual(MatcherNode(n.name, args), request))

Holds(e, request) ==
  LET holds[p \in DOMAIN e] ==
        CASE e[p].op = "call"  -> CallHolds(e[p], request)
          [] e[p].op = "paren" -> holds[Left(p)]
          [] e[p].op = "!"     -> ~holds[Left(p)]
          [] e[p].op = "&&"    -> holds[Left(p)] /\ holds[Right(p)]
          [] OTHER             -> holds[Left(p)] \/ holds[Right(p)]
  IN  holds[<<>>]
=============================================================================
