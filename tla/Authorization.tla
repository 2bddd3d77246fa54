--------------------------- MODULE Authorization ---------------------------
(***************************************************************************)
(* isAuthorized (src/src/authorization.go): the assertions of the           *)
(* configuration are checked one after the other, each against the nodes    *)
(* its JSON path selects from the claims, one node per step.                *)
(*                                                                         *)
(* A node is an array or any other JSON value; what counts of it is the set *)
(* of its values written as text (a scalar has one).  A path selects a      *)
(* sequence of nodes; a path that can not be parsed selects nothing.        *)
(***************************************************************************)
EXTENDS Integers, Sequences

CONSTANTS Names,    \* the JSON paths of claims
          Values    \* claim values, as text

Assertion == [name : Names, anyOf : SUBSET Values, allOf : Seq(Values)]
Node == [array : {TRUE}, values : SUBSET Values]
          \cup [array : {FALSE}, values : {{v} : v \in Values}]

VARIABLES assertions,  \* Authorization.AssertClaims
          claims,      \* the nodes each path selects
          current,     \* index of the assertion under check
          node,        \* index of the node under check, 0 before the first
          allMatches,  \* the indexes of AllOf that a scalar has matched
          anyMatch,    \* a scalar has matched AnyOf
          verdict      \* "none" while undecided

authorization == <<assertions, claims, current, node, allMatches, anyMatch, verdict>>

AuthorizationTypeOK ==
  /\ assertions \in Seq(Assertion)
  /\ claims \in [Names -> Seq(Node)]
  /\ current \in Nat /\ node \in Nat
  /\ allMatches \subseteq Nat
  /\ anyMatch \in BOOLEAN
  /\ verdict \in {"none", "authorized", "refused"}

AuthorizationInit(as, cs) ==
  /\ assertions = as /\ claims = cs
  /\ current = 1 /\ node = 0 /\ allMatches = {} /\ anyMatch = FALSE
  /\ verdict = "none"

assertion == assertions[current]
nodes == claims[assertion.name]
AllOf == {assertion.allOf[i] : i \in DOMAIN assertion.allOf}

Open == verdict = "none" /\ current \in DOMAIN assertions

\* continue assertions
NextAssertion ==
  /\ current' = current + 1
  /\ node' = 0 /\ allMatches' = {} /\ anyMatch' = FALSE
  /\ UNCHANGED verdict

NextNode == node' = node + 1 /\ UNCHANGED <<current, verdict>>

\* break matches
LeaveNodes ==
  /\ node' = Len(nodes) + 1
  /\ UNCHANGED <<current, allMatches, anyMatch, verdict>>

Refuse == verdict' = "refused" /\ UNCHANGED <<current, node, allMatches, anyMatch>>

\* Fault: a claim that is not there is ignored.
BeginAssertion_Fault ==
  /\ Open /\ node = 0
  /\ IF nodes = <<>> \/ (assertion.allOf = <<>> /\ assertion.anyOf = {}) THEN NextAssertion
     ELSE NextNode /\ UNCHANGED <<allMatches, anyMatch>>
  /\ UNCHANGED <<assertions, claims>>

BeginAssertion ==
  /\ Open /\ node = 0
  /\ IF nodes = <<>> THEN Refuse
     ELSE IF assertion.allOf = <<>> /\ assertion.anyOf = {} THEN NextAssertion
     ELSE NextNode /\ UNCHANGED <<allMatches, anyMatch>>
  /\ UNCHANGED <<assertions, claims>>

\* An array decides the assertion if it holds all of AllOf and any of AnyOf;
\* one that misses a value of AllOf ends the search.
CheckArray ==
  LET values == nodes[node].values IN
  /\ Open /\ node \in DOMAIN nodes /\ nodes[node].array
  /\ IF ~(AllOf \subseteq values) THEN LeaveNodes
     ELSE IF assertion.anyOf # {} /\ assertion.anyOf \cap values = {}
     THEN NextNode /\ UNCHANGED <<allMatches, anyMatch>>
     ELSE NextAssertion
  /\ UNCHANGED <<assertions, claims>>

\* The first position of AllOf with one of the values, if any.
FirstMatch(values) ==
  {i \in DOMAIN assertion.allOf :
     assertion.allOf[i] \in values /\ \A j \in 1..(i - 1) : assertion.allOf[j] \notin values}

\* Fault: only the last scalar counts for AnyOf.
CheckScalar_Fault ==
  LET values == nodes[node].values IN
  /\ Open /\ node \in DOMAIN nodes /\ ~nodes[node].array
  /\ anyMatch' = (assertion.anyOf \cap values # {})
  /\ allMatches' = allMatches \cup FirstMatch(values)
  /\ NextNode
  /\ UNCHANGED <<assertions, claims>>

\* Any other value is collected: the scalars satisfy the assertion together.
CheckScalar ==
  LET values == nodes[node].values IN
  /\ Open /\ node \in DOMAIN nodes /\ ~nodes[node].array
  /\ anyMatch' = (anyMatch \/ assertion.anyOf \cap values # {})
  /\ allMatches' = allMatches \cup FirstMatch(values)
  /\ NextNode
  /\ UNCHANGED <<assertions, claims>>

\* Fault: a match of AnyOf is enough, whatever AllOf asks for.
Collected_Fault ==
  IF assertion.anyOf # {} THEN anyMatch ELSE allMatches = DOMAIN assertion.allOf

Collected ==
  /\ assertion.anyOf # {} => anyMatch
  /\ assertion.allOf # <<>> => allMatches = DOMAIN assertion.allOf

EndAssertion ==
  /\ Open /\ node > Len(nodes)
  /\ IF Collected THEN NextAssertion ELSE Refuse
  /\ UNCHANGED <<assertions, claims>>

Authorized ==
  /\ verdict = "none" /\ current > Len(assertions)
  /\ verdict' = "authorized"
  /\ UNCHANGED <<assertions, claims, current, node, allMatches, anyMatch>>

AuthorizationNext ==
  BeginAssertion \/ CheckArray \/ CheckScalar \/ EndAssertion \/ Authorized

\* isAuthorized by itself, for any configuration and any claims.
AuthorizationSpec ==
  /\ \E as \in Seq(Assertion), cs \in [Names -> Seq(Node)] : AuthorizationInit(as, cs)
  /\ [][AuthorizationNext]_authorization

-----------------------------------------------------------------------------
(***************************************************************************)
(* What the assertions ask for: one array, or the scalars together, hold    *)
(* all of AllOf and any of AnyOf; without both, that the claim is there.     *)
(***************************************************************************)
Covers(as, values) ==
  /\ {as.allOf[i] : i \in DOMAIN as.allOf} \subseteq values
  /\ as.anyOf # {} => as.anyOf \cap values # {}

Selected(as) == {claims[as.name][n] : n \in DOMAIN claims[as.name]}
Scalars(as) == UNION {s.values : s \in {s \in Selected(as) : ~s.array}}

Satisfied(as) ==
  /\ Selected(as) # {}
  /\ \/ as.allOf = <<>> /\ as.anyOf = {}
     \/ \E s \in Selected(as) : s.array /\ Covers(as, s.values)
     \/ Covers(as, Scalars(as))

\* Where the code asks for more: an array that misses a value of AllOf hides
\* the nodes after it, and a value listed twice in AllOf is never found twice
\* among scalars.
Hidden(as) ==
  \E s \in Selected(as) : s.array /\ ~({as.allOf[i] : i \in DOMAIN as.allOf} \subseteq s.values)
Repeats(as) == \E i, j \in DOMAIN as.allOf : i # j /\ as.allOf[i] = as.allOf[j]

AuthorizedIsSatisfied ==
  verdict = "authorized" => \A i \in DOMAIN assertions : Satisfied(assertions[i])

RefusedIsUnsatisfied ==
  verdict = "refused" =>
    \E i \in DOMAIN assertions :
      LET as == assertions[i] IN ~Satisfied(as) \/ Hidden(as) \/ Repeats(as)

\* Whoever is authorized satisfies every assertion, whatever the order in which
\* arrays and scalars, decisive and useless nodes come; whoever is refused misses
\* one, unless a node or a value is hidden from the loop by what comes before it
\* (isAuthorized, authorization.go:66, :93).
VerdictMeetsAssertions == AuthorizedIsSatisfied /\ RefusedIsUnsatisfied
=============================================================================
