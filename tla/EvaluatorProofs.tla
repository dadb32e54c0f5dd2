---------------------------- MODULE EvaluatorProofs ----------------------------
(* What the policy check and its reports are proved to do, for every policy,  *)
(* every nesting of its schemas, every number of files, configurations and    *)
(* annotations, and every output format:                                      *)
(*   Counts             the summary counts what the files violate and skip;   *)
(*   BrokenTold         a key that could not be judged has its rule reported; *)
(*   HostPathsReported  customKeyRule89 fails for just the pods it should;    *)
(*   VerdictTells       each report tells the violations, and agrees with the *)
(*                      exit status;                                          *)
(*   HeadlineCounts     the counts printed are the numbers of entries;        *)
(*   TypeCorrect        type correctness.                                     *)
(* The invariant IInv says of the check under way what it kept so far: of     *)
(* each file name and rule, the occurrences of the configurations already     *)
(* checked (Gathered).  What a schema means and what its validator finds are  *)
(* compared along the parts of the schema (SchemaInduction).                  *)
EXTENDS EvaluationOutput, WellFoundedInduction, FiniteSetTheorems, TLAPS

-----------------------------------------------------------------------------
(* Recursion along the parts of a schema.                                    *)

\* Induction, with the property given as a set.
LEMMA Reaches ==
  ASSUME NEW T, 0 \in T, \A k \in Nat : k \in T => k + 1 \in T
  PROVE  Nat \subseteq T
<1> DEFINE Missing == Nat \ T
           R == OpToRel(<, Nat)
<1>1. IsWellFoundedOn(R, Nat) /\ \A x, y \in Nat : y < x => <<y, x>> \in R
  BY NatLessThanWellFounded DEF OpToRel
<1> HIDE DEF R
<1>2. ASSUME Missing # {} PROVE FALSE
  <2>1. PICK x \in Missing : \A y \in Missing : ~(<<y, x>> \in R)
    BY <1>1, <1>2, WFMin
  <2>2. x # 0 /\ x - 1 \in Nat /\ x - 1 < x
    OBVIOUS
  <2>3. x - 1 \in T
    BY <1>1, <2>1, <2>2
  <2> QED BY <2>2, <2>3
<1> QED BY <1>2

\* A rule that gives the value of a schema from the values of the shallower ones.
Descends(S, V, depth, rule) ==
    /\ \A t \in S : \A g \in [S -> V] : rule[t][g] \in V
    /\ \A t \in S : \A g, h \in [S -> V] :
          (\A u \in S : depth[u] < depth[t] => g[u] = h[u]) => rule[t][g] = rule[t][h]

\* It is followed up to a depth.
Follows(S, V, depth, rule, n, g) ==
    g \in [S -> V] /\ \A t \in S : depth[t] < n => g[t] = rule[t][g]

LEMMA FollowedTo ==
  ASSUME NEW S, NEW V, NEW v \in V, NEW depth \in [S -> Nat],
         NEW rule, Descends(S, V, depth, rule)
  PROVE  \A n \in Nat : \E g : Follows(S, V, depth, rule, n, g)
<1> DEFINE F(n, g) == Follows(S, V, depth, rule, n, g)
           T == {n \in Nat : \E g : F(n, g)}
<1>1. F(0, [t \in S |-> v])
  BY DEF Follows
<1>2. ASSUME NEW n \in Nat, NEW g, F(n, g) PROVE \E h : F(n + 1, h)
  <2> DEFINE h == [t \in S |-> rule[t][g]]
  <2>1. g \in [S -> V] /\ h \in [S -> V]
    BY <1>2 DEF Follows, Descends
  <2>2. ASSUME NEW t \in S, depth[t] < n + 1 PROVE h[t] = rule[t][h]
    <3>1. ASSUME NEW u \in S, depth[u] < depth[t] PROVE g[u] = h[u]
      <4>1. depth[u] < n
        BY <2>2, <3>1
      <4> QED BY <1>2, <4>1 DEF Follows
    <3> QED BY <2>1, <3>1 DEF Descends
  <2>3. F(n + 1, h)
    BY <2>1, <2>2 DEF Follows
  <2> QED BY <2>3
<1> HIDE DEF F
<1>3. 0 \in T /\ \A n \in Nat : n \in T => n + 1 \in T
  BY <1>1, <1>2
<1>4. Nat \subseteq T
  <2> HIDE DEF T
  <2> QED BY <1>3, Reaches
<1> QED BY <1>4 DEF F

\* What a recursive function along the parts is, exists.
LEMMA Recursion ==
  ASSUME NEW S, NEW V, NEW v \in V, NEW depth \in [S -> Nat],
         NEW rule, Descends(S, V, depth, rule)
  PROVE  \E g \in [S -> V] : \A t \in S : g[t] = rule[t][g]
<1> DEFINE F(n, g) == Follows(S, V, depth, rule, n, g)
           G == [n \in Nat |-> CHOOSE g : F(n, g)]
           h == [t \in S |-> G[depth[t] + 1][t]]
<1>1. ASSUME NEW n \in Nat PROVE F(n, G[n])
  <2>1. \E g : F(n, g)
    BY FollowedTo
  <2> HIDE DEF F
  <2> QED BY <2>1
<1>2. \A t \in S : depth[t] + 1 \in Nat /\ depth[t] < depth[t] + 1
  OBVIOUS
<1>6. ASSUME NEW m \in Nat, NEW n \in Nat, NEW f \in [S -> V], NEW g \in [S -> V],
             F(m, f), F(n, g), NEW u \in S, depth[u] < m, depth[u] < n
      PROVE  f[u] = g[u]
  <2> DEFINE T == {k \in Nat : \A t \in S :
                     depth[t] < k /\ depth[t] < m /\ depth[t] < n => f[t] = g[t]}
  <2>1. 0 \in T
    OBVIOUS
  <2>2. ASSUME NEW k \in Nat, k \in T PROVE k + 1 \in T
    <3>1. ASSUME NEW t \in S, depth[t] < k + 1, depth[t] < m, depth[t] < n
          PROVE  f[t] = g[t]
      <4>1. ASSUME NEW x \in S, depth[x] < depth[t] PROVE f[x] = g[x]
        <5>1. depth[x] < k /\ depth[x] < m /\ depth[x] < n
          BY <3>1, <4>1
        <5> QED BY <2>2, <5>1
      <4>2. rule[t][f] = rule[t][g]
        BY <4>1 DEF Descends
      <4> QED BY <1>6, <3>1, <4>2 DEF Follows
    <3> QED BY <3>1
  <2>3. Nat \subseteq T
    <3> HIDE DEF T
    <3> QED BY <2>1, <2>2, Reaches
  <2>4. depth[u] + 1 \in T
    <3> HIDE DEF T
    <3> QED BY <2>3
  <2> QED BY <1>6, <2>4
<1> HIDE DEF G
<1>3. \A t \in S : G[depth[t] + 1] \in [S -> V]
  BY <1>1, <1>2 DEF Follows
<1>4. h \in [S -> V]
  BY <1>3
<1>5. ASSUME NEW t \in S PROVE h[t] = rule[t][h]
  <2> DEFINE k == depth[t] + 1
  <2>1. k \in Nat /\ depth[t] < k /\ F(k, G[k]) /\ G[k] \in [S -> V]
    BY <1>1, <1>2, <1>3
  <2>2. ASSUME NEW u \in S, depth[u] < depth[t] PROVE G[k][u] = h[u]
    <3>1. depth[u] < k /\ depth[u] < depth[u] + 1 /\ depth[u] + 1 \in Nat
      BY <2>2
    <3>2. F(depth[u] + 1, G[depth[u] + 1]) /\ G[depth[u] + 1] \in [S -> V]
      BY <1>1, <1>3, <3>1
    <3> HIDE DEF k
    <3> HIDE DEF F
    <3>3. G[k][u] = G[depth[u] + 1][u]
      BY <1>6, <2>1, <3>1, <3>2
    <3> QED BY <3>3
  <2>3. G[k][t] = rule[t][G[k]]
    BY <2>1 DEF Follows
  <2>4. rule[t][G[k]] = rule[t][h]
    BY <1>4, <2>1, <2>2 DEF Descends
  <2> QED BY <2>3, <2>4
<1> QED BY <1>4, <1>5

\* What is made step by step, from 0 to n, exists.
Steps(V, n, step) == \A i \in 1..n : \A x \in V : step[i][x] \in V

LEMMA Iterated ==
  ASSUME NEW V, NEW v \in V, NEW n \in Nat, NEW step, Steps(V, n, step)
  PROVE  \E g \in [0..n -> V] : g[0] = v /\ \A i \in 1..n : g[i] = step[i][g[i - 1]]
<1> DEFINE S == 0..n
           From(i, g) == IF i = 0 THEN v ELSE step[i][g[i - 1]]
           rule == [i \in S |-> [g \in [S -> V] |-> From(i, g)]]
           depth == [i \in S |-> i]
<1>1. \A i \in S : i \in Nat /\ (i # 0 => i \in 1..n /\ i - 1 \in S /\ i - 1 < i)
  OBVIOUS
<1>2. depth \in [S -> Nat] /\ \A i \in S : depth[i] = i
  BY <1>1
<1>3. ASSUME NEW i \in S, NEW g \in [S -> V] PROVE From(i, g) \in V
  BY <1>1 DEF Steps
<1>4. \A i \in S : \A g \in [S -> V] : rule[i][g] = From(i, g)
  OBVIOUS
<1>5. ASSUME NEW i \in S, NEW g \in [S -> V], NEW h \in [S -> V],
             \A u \in S : depth[u] < depth[i] => g[u] = h[u]
      PROVE  From(i, g) = From(i, h)
  <2>1. i # 0 => g[i - 1] = h[i - 1]
    BY <1>1, <1>2, <1>5
  <2> QED BY <2>1
<1>6. \A i \in 1..n : i \in S /\ i # 0
  OBVIOUS
<1>7. 0 \in S
  OBVIOUS
<1> HIDE DEF S, From, rule, depth
<1>8. Descends(S, V, depth, rule)
  BY <1>3, <1>4, <1>5 DEF Descends
<1>9. PICK g \in [S -> V] : \A i \in S : g[i] = rule[i][g]
  BY <1>2, <1>8, Recursion
<1>10. \A i \in S : g[i] = From(i, g)
  BY <1>4, <1>9
<1> QED BY <1>6, <1>7, <1>9, <1>10 DEF S, From

\* The parts of a schema by name.
LEMMA PartsOf ==
  ASSUME NEW t \in Schemas
  PROVE  /\ \A u \in Parts(t) : u \in Schemas /\ Depth[u] < Depth[t]
         /\ t.op = "not" => t.of \in Parts(t)
         /\ t.op = "ifThen" => t.if \in Parts(t) /\ t.then \in Parts(t)
         /\ t.op = "key" => Parts(t) = {}
<1>1. \A u \in Parts(t) : u \in Schemas /\ Depth[u] < Depth[t]
  BY SchemasAssumption
<1>2. t.op = "not" => t.of \in Parts(t)
  BY DEF Parts
<1>3. t.op = "ifThen" => t.if \in Parts(t) /\ t.then \in Parts(t)
  BY DEF Parts
<1>4. t.op = "key" => Parts(t) = {}
  BY DEF Parts
<1> QED BY <1>1, <1>2, <1>3, <1>4

\* A rule that looks at the parts alone defines a function.
LooksAtParts(V, rule) ==
    /\ \A t \in Schemas : \A g \in [Schemas -> V] : rule[t][g] \in V
    /\ \A t \in Schemas : \A g, h \in [Schemas -> V] :
          (\A u \in Parts(t) : g[u] = h[u]) => rule[t][g] = rule[t][h]

LEMMA RecursionOnParts ==
  ASSUME NEW V, NEW v \in V, NEW rule, LooksAtParts(V, rule)
  PROVE  \E g \in [Schemas -> V] : \A t \in Schemas : g[t] = rule[t][g]
<1>1. Depth \in [Schemas -> Nat]
  BY SchemasAssumption
<1>2. Descends(Schemas, V, Depth, rule)
  BY <1>1, PartsOf DEF Descends, LooksAtParts
<1> QED BY <1>1, <1>2, Recursion

-----------------------------------------------------------------------------
(* The recursive functions of the validator, part by part.                   *)

Errors == SUBSET [key : {t.key : t \in Schemas} \cup {"anyOf", "not"}, custom : BOOLEAN]

One(key, custom) == {[key |-> key, custom |-> custom]}

\* The errors of a schema from those of its parts.
ErrorsFrom(t, g, data) ==
    CASE t.op = "key" ->
           (IF KeyOutcome(t, data) = "ok" THEN {}
            ELSE One(t.key, KeyOutcome(t, data) = "broken"))
      [] t.op = "all"   -> UNION {g[u] : u \in Parts(t)}
      [] t.op = "anyOf" -> (IF \E u \in Parts(t) : g[u] = {} THEN {}
                            ELSE One("anyOf", FALSE))
      [] t.op = "not"   -> (IF g[t.of] = {} THEN One("not", FALSE) ELSE {})
      [] OTHER          -> (IF g[t.if] = {} THEN g[t.then] ELSE {})

AreErrors(g, data) == g = [t \in Schemas |-> ErrorsFrom(t, g, data)]

LEMMA ErrorsAlike ==
  ASSUME NEW t \in Schemas, NEW data, NEW g, NEW h, \A u \in Parts(t) : g[u] = h[u]
  PROVE  ErrorsFrom(t, g, data) = ErrorsFrom(t, h, data)
<1>1. UNION {g[u] : u \in Parts(t)} = UNION {h[u] : u \in Parts(t)}
  OBVIOUS
<1>2. (\E u \in Parts(t) : g[u] = {}) <=> (\E u \in Parts(t) : h[u] = {})
  OBVIOUS
<1>3. t.op = "not" => g[t.of] = h[t.of]
  BY PartsOf
<1>4. t.op = "ifThen" => g[t.if] = h[t.if] /\ g[t.then] = h[t.then]
  BY PartsOf
<1>5. t.op \in {"key", "not", "ifThen", "all", "anyOf"}
  BY SchemasAssumption
<1> QED BY <1>1, <1>2, <1>3, <1>4, <1>5 DEF ErrorsFrom

LEMMA ErrorsTyped ==
  ASSUME NEW t \in Schemas, NEW data, NEW g \in [Schemas -> Errors]
  PROVE  ErrorsFrom(t, g, data) \in Errors
<1>1. One(t.key, KeyOutcome(t, data) = "broken") \in Errors
  BY DEF One, Errors
<1>2. One("anyOf", FALSE) \in Errors /\ One("not", FALSE) \in Errors /\ {} \in Errors
  BY DEF One, Errors
<1>3. \A u \in Parts(t) : g[u] \in Errors
  BY PartsOf
<1>4. UNION {g[u] : u \in Parts(t)} \in Errors
  BY <1>3 DEF Errors
<1>5. t.op \in {"key", "not", "ifThen", "all", "anyOf"}
  BY SchemasAssumption
<1>6. t.op = "ifThen" => g[t.then] \in Errors
  BY <1>3, PartsOf
<1> HIDE DEF Errors
<1> QED BY <1>1, <1>2, <1>4, <1>5, <1>6 DEF ErrorsFrom

\* The errors of all the schemas exist as a function.
LEMMA ErrorsExist ==
  ASSUME NEW data
  PROVE  \E g : AreErrors(g, data)
<1> DEFINE rule == [t \in Schemas |-> [g \in [Schemas -> Errors] |-> ErrorsFrom(t, g, data)]]
<1>1. \A t \in Schemas : \A g \in [Schemas -> Errors] : rule[t][g] = ErrorsFrom(t, g, data)
  OBVIOUS
<1> HIDE DEF rule
<1>2. LooksAtParts(Errors, rule)
  BY <1>1, ErrorsTyped, ErrorsAlike DEF LooksAtParts
<1>3. {} \in Errors
  BY DEF Errors
<1>4. PICK g \in [Schemas -> Errors] : \A t \in Schemas : g[t] = rule[t][g]
  BY <1>2, <1>3, RecursionOnParts
<1>5. \A t \in Schemas : g[t] = ErrorsFrom(t, g, data)
  BY <1>1, <1>4
<1>6. AreErrors(g, data)
  BY <1>4, <1>5 DEF AreErrors
<1> QED BY <1>6

\* What getLeafErrors gives for each kind of schema.
LEMMA LeafErrorsAre ==
  ASSUME NEW data
  PROVE  \E g : \A t \in Schemas : LeafErrors(t, data) = g[t] /\ g[t] = ErrorsFrom(t, g, data)
<1>1. PICK g : g = CHOOSE x : AreErrors(x, data)
  OBVIOUS
<1>2. AreErrors(g, data)
  BY <1>1, ErrorsExist
<1>3. \A t \in Schemas : LeafErrors(t, data) = g[t]
  BY <1>1 DEF LeafErrors, AreErrors, ErrorsFrom, One
<1>4. \A t \in Schemas : g[t] = ErrorsFrom(t, g, data)
  BY <1>2 DEF AreErrors
<1> QED BY <1>3, <1>4

\* Whether a schema holds from whether its parts do.
HoldsFrom(t, g, data) ==
    CASE t.op = "key"   -> KeyOutcome(t, data) = "ok"
      [] t.op = "all"   -> \A u \in Parts(t) : g[u]
      [] t.op = "anyOf" -> \E u \in Parts(t) : g[u]
      [] t.op = "not"   -> ~g[t.of]
      [] OTHER          -> g[t.if] => g[t.then]

AreHeld(g, data) == g = [t \in Schemas |-> HoldsFrom(t, g, data)]

LEMMA HoldsAlike ==
  ASSUME NEW t \in Schemas, NEW data, NEW g, NEW h, \A u \in Parts(t) : g[u] = h[u]
  PROVE  HoldsFrom(t, g, data) = HoldsFrom(t, h, data)
<1>1. (\A u \in Parts(t) : g[u]) = (\A u \in Parts(t) : h[u])
  OBVIOUS
<1>2. (\E u \in Parts(t) : g[u]) = (\E u \in Parts(t) : h[u])
  OBVIOUS
<1>3. t.op = "not" => g[t.of] = h[t.of]
  BY PartsOf
<1>4. t.op = "ifThen" => g[t.if] = h[t.if] /\ g[t.then] = h[t.then]
  BY PartsOf
<1>5. t.op \in {"key", "not", "ifThen", "all", "anyOf"}
  BY SchemasAssumption
<1> QED BY <1>1, <1>2, <1>3, <1>4, <1>5 DEF HoldsFrom

LEMMA HoldsTyped ==
  ASSUME NEW t \in Schemas, NEW data, NEW g
  PROVE  HoldsFrom(t, g, data) \in BOOLEAN
<1>1. t.op \in {"key", "not", "ifThen", "all", "anyOf"}
  BY SchemasAssumption
<1> QED BY <1>1 DEF HoldsFrom

LEMMA HoldsExist ==
  ASSUME NEW data
  PROVE  \E g : AreHeld(g, data)
<1> DEFINE B == BOOLEAN
           rule == [t \in Schemas |-> [g \in [Schemas -> B] |-> HoldsFrom(t, g, data)]]
<1>1. \A t \in Schemas : \A g \in [Schemas -> B] : rule[t][g] = HoldsFrom(t, g, data)
  OBVIOUS
<1> HIDE DEF rule
<1>2. TRUE \in B /\ \A t \in Schemas : \A g \in [Schemas -> B] : HoldsFrom(t, g, data) \in B
  BY HoldsTyped
<1>7. PICK v : v \in B
  BY <1>2
<1> HIDE DEF B
<1>3. LooksAtParts(B, rule)
  BY <1>1, <1>2, HoldsAlike DEF LooksAtParts
<1>4. PICK g \in [Schemas -> B] : \A t \in Schemas : g[t] = rule[t][g]
  BY <1>7, <1>3, RecursionOnParts
<1>5. \A t \in Schemas : g[t] = HoldsFrom(t, g, data)
  BY <1>1, <1>4
<1>6. AreHeld(g, data)
  BY <1>4, <1>5 DEF AreHeld
<1> QED BY <1>6

\* What a schema means, for each kind of schema.
LEMMA HoldsAre ==
  ASSUME NEW data
  PROVE  \E g : \A t \in Schemas : Holds(t, data) = g[t] /\ g[t] = HoldsFrom(t, g, data)
<1>1. PICK g : g = CHOOSE x : AreHeld(x, data)
  OBVIOUS
<1>2. AreHeld(g, data)
  BY <1>1, HoldsExist
<1>3. \A t \in Schemas : Holds(t, data) = g[t]
  BY <1>1 DEF Holds, AreHeld, HoldsFrom
<1>4. \A t \in Schemas : g[t] = HoldsFrom(t, g, data)
  BY <1>2 DEF AreHeld
<1> QED BY <1>3, <1>4

\* Induction on schemas, with the property given as a set.
LEMMA SchemaInduction ==
  ASSUME NEW T, \A t \in Schemas : (\A u \in Parts(t) : u \in T) => t \in T
  PROVE  \A t \in Schemas : t \in T
<1> DEFINE K == {k \in Nat : \A t \in Schemas : Depth[t] < k => t \in T}
<1>1. Depth \in [Schemas -> Nat]
  BY SchemasAssumption
<1>2. 0 \in K
  BY <1>1
<1>3. ASSUME NEW k \in Nat, k \in K PROVE k + 1 \in K
  <2>1. ASSUME NEW t \in Schemas, Depth[t] < k + 1 PROVE t \in T
    <3>1. ASSUME NEW u \in Parts(t) PROVE u \in T
      <4>1. u \in Schemas /\ Depth[u] < Depth[t]
        BY PartsOf
      <4>2. Depth[u] < k
        BY <1>1, <2>1, <4>1
      <4> QED BY <1>3, <4>1, <4>2
    <3> QED BY <3>1
  <2> QED BY <2>1
<1>4. Nat \subseteq K
  <2> HIDE DEF K
  <2> QED BY <1>2, <1>3, Reaches
<1>5. ASSUME NEW t \in Schemas PROVE t \in T
  <2>1. Depth[t] + 1 \in K /\ Depth[t] < Depth[t] + 1
    <3> HIDE DEF K
    <3> QED BY <1>1, <1>4
  <2> QED BY <2>1
<1> QED BY <1>5

\* No leaf error exactly when the schema holds.
LEMMA ErrorsMeanFailure ==
  ASSUME NEW data
  PROVE  \A s \in Schemas : LeafErrors(s, data) = {} <=> Holds(s, data)
<1>1. PICK g : \A t \in Schemas : LeafErrors(t, data) = g[t] /\ g[t] = ErrorsFrom(t, g, data)
  BY LeafErrorsAre
<1>2. PICK h : \A t \in Schemas : Holds(t, data) = h[t] /\ h[t] = HoldsFrom(t, h, data)
  BY HoldsAre
<1> DEFINE T == {t \in Schemas : g[t] = {} <=> h[t]}
<1>3. ASSUME NEW t \in Schemas, \A u \in Parts(t) : u \in T PROVE t \in T
  <2>1. g[t] = ErrorsFrom(t, g, data) /\ h[t] = HoldsFrom(t, h, data)
    BY <1>1, <1>2
  <2>2. t.op \in {"key", "not", "ifThen", "all", "anyOf"}
    BY SchemasAssumption
  <2>3. \A u \in Parts(t) : g[u] = {} <=> h[u]
    BY <1>3
  <2>4. \A key, custom : One(key, custom) # {}
    BY DEF One
  <2>5. CASE t.op = "key"
    <3>1. One(t.key, KeyOutcome(t, data) = "broken") # {}
      BY DEF One
    <3> QED BY <2>1, <2>5, <3>1 DEF ErrorsFrom, HoldsFrom
  <2>6. CASE t.op = "all"
    <3>1. g[t] = UNION {g[u] : u \in Parts(t)} /\ h[t] = \A u \in Parts(t) : h[u]
      BY <2>1, <2>6 DEF ErrorsFrom, HoldsFrom
    <3>2. g[t] = {} <=> \A u \in Parts(t) : g[u] = {}
      BY <3>1
    <3> QED BY <2>3, <3>1, <3>2
  <2>7. CASE t.op = "anyOf"
    BY <2>1, <2>3, <2>4, <2>7 DEF ErrorsFrom, HoldsFrom
  <2>8. CASE t.op = "not"
    <3>1. g[t.of] = {} <=> h[t.of]
      BY <2>3, <2>8, PartsOf
    <3> QED BY <2>1, <2>4, <2>8, <3>1 DEF ErrorsFrom, HoldsFrom
  <2>9. CASE t.op = "ifThen"
    <3>1. (g[t.if] = {} <=> h[t.if]) /\ (g[t.then] = {} <=> h[t.then])
      BY <2>3, <2>9, PartsOf
    <3> QED BY <2>1, <2>4, <2>9, <3>1 DEF ErrorsFrom, HoldsFrom
  <2> QED BY <2>2, <2>5, <2>6, <2>7, <2>8, <2>9
<1>4. \A t \in Schemas : t \in T
  <2> HIDE DEF T
  <2> QED BY <1>3, SchemaInduction
<1> QED BY <1>1, <1>2, <1>4

\* The keys judged, from those of the parts.
JudgedFrom(t, g, data) ==
    CASE t.op = "key" -> {t}
      [] t.op = "ifThen" /\ LeafErrors(t.if, data) # {} -> g[t.if]
      [] OTHER -> UNION {g[u] : u \in Parts(t)}

AreJudged(g, data) == g = [t \in Schemas |-> JudgedFrom(t, g, data)]

LEMMA JudgedAlike ==
  ASSUME NEW t \in Schemas, NEW data, NEW g, NEW h, \A u \in Parts(t) : g[u] = h[u]
  PROVE  JudgedFrom(t, g, data) = JudgedFrom(t, h, data)
<1>1. UNION {g[u] : u \in Parts(t)} = UNION {h[u] : u \in Parts(t)}
  OBVIOUS
<1>2. t.op = "ifThen" => g[t.if] = h[t.if]
  BY PartsOf
<1> QED BY <1>1, <1>2 DEF JudgedFrom

LEMMA JudgedTyped ==
  ASSUME NEW t \in Schemas, NEW data, NEW g \in [Schemas -> SUBSET Schemas]
  PROVE  JudgedFrom(t, g, data) \in SUBSET Schemas
<1>1. \A u \in Parts(t) : g[u] \in SUBSET Schemas
  BY PartsOf
<1>2. UNION {g[u] : u \in Parts(t)} \in SUBSET Schemas
  BY <1>1
<1>3. t.op = "ifThen" => g[t.if] \in SUBSET Schemas
  BY <1>1, PartsOf
<1> QED BY <1>2, <1>3 DEF JudgedFrom

\* A key alone is judged itself.
LEMMA KeyJudged ==
  ASSUME NEW data, NEW s \in Schemas, s.op = "key"
  PROVE  Judged(s, data) = {s}
<1> DEFINE V == SUBSET Schemas
           rule == [t \in Schemas |-> [g \in [Schemas -> V] |-> JudgedFrom(t, g, data)]]
<1>1. \A t \in Schemas : \A g \in [Schemas -> V] : rule[t][g] = JudgedFrom(t, g, data)
  OBVIOUS
<1> HIDE DEF rule
<1>2. LooksAtParts(V, rule)
  BY <1>1, JudgedTyped, JudgedAlike DEF LooksAtParts
<1>3. {} \in V
  OBVIOUS
<1> HIDE DEF V
<1>4. PICK g \in [Schemas -> V] : \A t \in Schemas : g[t] = rule[t][g]
  BY <1>2, <1>3, RecursionOnParts
<1>5. AreJudged(g, data)
  BY <1>1, <1>4 DEF AreJudged
<1>6. PICK h : h = CHOOSE x : AreJudged(x, data)
  OBVIOUS
<1>7. AreJudged(h, data)
  BY <1>5, <1>6
<1>8. Judged(s, data) = h[s]
  BY <1>6 DEF Judged, AreJudged, JudgedFrom
<1>9. h[s] = JudgedFrom(s, h, data)
  BY <1>7 DEF AreJudged
<1> QED BY <1>8, <1>9 DEF JudgedFrom

\* What DirectKeys looks at, step by step.
AreWithin(g, s) ==
    g = [n \in 0..Depth[s] |->
           IF n = 0 THEN {s}
           ELSE g[n - 1] \cup UNION {Parts(t) : t \in {u \in g[n - 1] : u.op = "all"}}]

LEMMA WithinExist ==
  ASSUME NEW s \in Schemas
  PROVE  \E g : AreWithin(g, s)
<1> DEFINE n == Depth[s]
           V == SUBSET Schemas
           More(x) == x \cup UNION {Parts(t) : t \in {u \in x : u.op = "all"}}
           step == [i \in 1..n |-> [x \in V |-> More(x)]]
<1>1. n \in Nat /\ {s} \in V
  BY SchemasAssumption
<1>2. \A x \in V : More(x) \in V
  BY PartsOf
<1>3. \A i \in 1..n : \A x \in V : step[i][x] = More(x)
  OBVIOUS
<1> HIDE DEF n, V, More, step
<1>6. Steps(V, n, step)
  BY <1>2, <1>3 DEF Steps
<1>4. PICK g \in [0..n -> V] : g[0] = {s} /\ \A i \in 1..n : g[i] = step[i][g[i - 1]]
  BY <1>1, <1>6, Iterated
<1>5. \A i \in 0..n : g[i] = IF i = 0 THEN {s} ELSE More(g[i - 1])
  <2>1. \A i \in 0..n : i # 0 => i \in 1..n /\ i - 1 \in 0..n
    BY <1>1
  <2> QED BY <1>3, <1>4, <2>1
<1>7. g = [i \in 0..n |-> IF i = 0 THEN {s} ELSE More(g[i - 1])]
  BY <1>4, <1>5
<1> QED BY <1>7 DEF AreWithin, More, n

\* A key asked for directly that cannot be judged leaves an error with its message.
LEMMA BrokenKeyLeft ==
  ASSUME NEW data, NEW s \in Schemas, NEW k \in DirectKeys(s),
         KeyOutcome(k, data) = "broken"
  PROVE  \E e \in LeafErrors(s, data) : e.custom
<1>1. PICK g : \A t \in Schemas : LeafErrors(t, data) = g[t] /\ g[t] = ErrorsFrom(t, g, data)
  BY LeafErrorsAre
<1>2. PICK h : h = CHOOSE x : AreWithin(x, s)
  OBVIOUS
<1>3. AreWithin(h, s)
  BY <1>2, WithinExist
<1>4. k \in h[Depth[s]] /\ k.op = "key"
  BY <1>2 DEF DirectKeys, AreWithin
<1>5. Depth[s] \in Nat
  BY SchemasAssumption
<1> DEFINE T == {n \in Nat : n <= Depth[s] =>
                    \A t \in h[n] : t \in Schemas /\ g[t] \subseteq g[s]}
<1>6. h[0] = {s}
  BY <1>3, <1>5 DEF AreWithin
<1>7. ASSUME NEW n \in Nat, n \in T, n + 1 <= Depth[s], NEW t \in h[n + 1]
      PROVE  t \in Schemas /\ g[t] \subseteq g[s]
  <2>1. n \in 0..Depth[s] /\ n + 1 \in 0..Depth[s] /\ n + 1 # 0 /\ (n + 1) - 1 = n
    BY <1>5, <1>7
  <2>2. h[n + 1] = h[n] \cup UNION {Parts(u) : u \in {v \in h[n] : v.op = "all"}}
    BY <1>3, <2>1 DEF AreWithin
  <2>3. \A u \in h[n] : u \in Schemas /\ g[u] \subseteq g[s]
    BY <1>7, <2>1
  <2>4. ASSUME NEW u \in h[n], u.op = "all", t \in Parts(u)
        PROVE  t \in Schemas /\ g[t] \subseteq g[s]
    <3>1. u \in Schemas /\ g[u] \subseteq g[s]
      BY <2>3
    <3>2. g[u] = UNION {g[v] : v \in Parts(u)}
      BY <1>1, <2>4, <3>1 DEF ErrorsFrom
    <3> QED BY <2>4, <3>1, <3>2, PartsOf
  <2> QED BY <1>7, <2>2, <2>3, <2>4
<1>8. Nat \subseteq T
  <2>1. 0 \in T
    BY <1>6
  <2>2. \A n \in Nat : n \in T => n + 1 \in T
    BY <1>7
  <2> HIDE DEF T
  <2> QED BY <2>1, <2>2, Reaches
<1>9. k \in Schemas /\ g[k] \subseteq g[s]
  BY <1>4, <1>5, <1>8
<1>10. g[k] = One(k.key, TRUE)
  BY <1>1, <1>4, <1>9 DEF ErrorsFrom
<1> QED BY <1>1, <1>9, <1>10 DEF One

-----------------------------------------------------------------------------
(* The inductive invariant of the policy check.                              *)

\* What evaluateRule keeps of a configuration for a rule of a policy.
Tells(policy, c, r) == LeafErrors(policy[r], c.data) # {} \/ r \in c.skipped

Telling(policy, c, r) ==
    [occurrences |-> LeafErrors(policy[r], c.data) # {}, isSkipped |-> r \in c.skipped,
     messages |-> \E e \in LeafErrors(policy[r], c.data) : e.custom]

\* The configurations, of the files of a name, that were checked on a rule.
Done(i, j, r) ==
    \/ i < file
    \/ i = file /\ j < config
    \/ i = file /\ j = config /\ r \notin left

Checked(n, r) ==
    UNION {{input[i].configs[j] : j \in {k \in 1..Len(input[i].configs) : Done(i, k, r)}} :
             i \in {k \in 1..Len(input) : input[k].name = n}}

\* The occurrences kept for a file name and a rule.
Kept(f, n, r) ==
    IF n \in DOMAIN f /\ r \in DOMAIN f[n]
    THEN {f[n][r][k] : k \in 1..Len(f[n][r])}
    ELSE {}

Shaped(f) ==
    \A n \in DOMAIN f :
       /\ n \in Names /\ DOMAIN f[n] \subseteq Rules /\ DOMAIN f[n] # {}
       /\ \A r \in DOMAIN f[n] : f[n][r] \in Seq(Occurrence) /\ f[n][r] # << >>

Cursor ==
    /\ input \in Inputs /\ schemas \in Policies
    /\ cache \subseteq {schemas[r] : r \in Rules}
    /\ file \in 1..Len(input) + 1 /\ config \in Nat \ {0} /\ left \subseteq Rules
    /\ status \in {"checking", "formatted", "error", "panicked"}
    /\ file > Len(input) => left = Rules /\ config = 1
    /\ file <= Len(input) /\ config > Len(input[file].configs) => left = Rules
    /\ status = "formatted" => file > Len(input)

Going == status \in {"checking", "formatted"}

\* What is kept are the occurrences of the configurations checked.
Gathered ==
    Going => \A n \in Names, r \in Rules :
                Kept(failed, n, r) =
                  {Telling(schemas, c, r) : c \in {x \in Checked(n, r) : Tells(schemas, x, r)}}

\* What was checked made no key panic.
Survived ==
    Going => \A n \in Names, r \in Rules : \A c \in Checked(n, r) :
                \A k \in Judged(schemas[r], c.data) : KeyOutcome(k, c.data) # "panic"

CountsOf(f, files) ==
    IF files = << >> THEN NoSummary
    ELSE [failedRules  |-> Cardinality(FailedPairs(f)),
          skippedRules |-> Cardinality(SkippedPairs(f)),
          passedRules  |-> Cardinality(Rules) * Len(files)
                           - (Cardinality(FailedPairs(f)) + Cardinality(SkippedPairs(f))),
          filesPassed  |-> Len(files) - Cardinality(FailedFiles(f))]

Counted ==
    summary = IF status = "formatted" THEN CountsOf(failed, input) ELSE NoSummary

IInv == Cursor /\ Shaped(failed) /\ Gathered /\ Survived /\ Counted

-----------------------------------------------------------------------------
(* One occurrence more.                                                      *)

LEMMA TellingTyped ==
  ASSUME NEW policy, NEW c, NEW r
  PROVE  Telling(policy, c, r) \in Occurrence
BY DEF Telling, Occurrence

LEMMA EvaluateRuleIs ==
  ASSUME NEW policy, NEW c, NEW r
  PROVE  EvaluateRule(c.skipped, r, LeafErrors(policy[r], c.data)) =
            IF Tells(policy, c, r) THEN <<Telling(policy, c, r)>> ELSE << >>
BY DEF EvaluateRule, Tells, Telling

LEMMA KeptOfAppended ==
  ASSUME NEW s \in Seq(Occurrence), NEW o \in Occurrence
  PROVE  /\ s \o <<o>> \in Seq(Occurrence) /\ s \o <<o>> # << >>
         /\ {(s \o <<o>>)[k] : k \in 1..Len(s \o <<o>>)} = {s[k] : k \in 1..Len(s)} \cup {o}
<1>1. Len(s) \in Nat /\ Len(s \o <<o>>) = Len(s) + 1 /\ s \o <<o>> \in Seq(Occurrence)
  OBVIOUS
<1>2. \A k \in 1..Len(s) : (s \o <<o>>)[k] = s[k]
  OBVIOUS
<1>3. (s \o <<o>>)[Len(s) + 1] = o
  OBVIOUS
<1>4. s \o <<o>> # << >>
  BY <1>1
<1> DEFINE t == s \o <<o>>
           n == Len(s)
<1>5. t \in Seq(Occurrence) /\ t # << >> /\ Len(t) = n + 1 /\ n \in Nat
      /\ (\A k \in 1..n : t[k] = s[k]) /\ t[n + 1] = o
  BY <1>1, <1>2, <1>3, <1>4
<1> HIDE DEF t, n
<1>6. {t[k] : k \in 1..(n + 1)} = {s[k] : k \in 1..n} \cup {o}
  BY <1>5
<1> QED BY <1>5, <1>6 DEF t, n

\* addFailedRule adds the one occurrence and leaves the others.
LEMMA Added ==
  ASSUME NEW f, Shaped(f), NEW n \in Names, NEW r \in Rules, NEW o \in Occurrence
  PROVE  LET g == AddFailedRule(f, n, r, <<o>>)
         IN  /\ Shaped(g)
             /\ \A m, s : Kept(g, m, s) = Kept(f, m, s) \cup (IF m = n /\ s = r THEN {o} ELSE {})
<1> DEFINE g == AddFailedRule(f, n, r, <<o>>)
           ss == IF n \in DOMAIN f /\ r \in DOMAIN f[n] THEN f[n][r] ELSE << >>
           h == IF n \in DOMAIN f THEN f[n] ELSE << >>
<1>1. ss \in Seq(Occurrence) /\ <<o>> \in Seq(Occurrence) /\ << >> \o <<o>> = <<o>>
  BY DEF Shaped
<1>2. /\ DOMAIN g = DOMAIN f \cup {n}
      /\ \A m \in DOMAIN f : m # n => g[m] = f[m]
      /\ DOMAIN g[n] = DOMAIN h \cup {r}
      /\ \A s \in DOMAIN h : s # r => g[n][s] = h[s]
      /\ g[n][r] = ss \o <<o>>
  <2>1. CASE n \notin DOMAIN f
    <3>1. g = [k \in DOMAIN f \cup {n} |-> IF k = n THEN [x \in {r} |-> <<o>>] ELSE f[k]]
      BY <2>1 DEF AddFailedRule, Extend
    <3>2. ss \o <<o>> = <<o>> /\ DOMAIN h = {}
      BY <1>1, <2>1
    <3> QED BY <3>1, <3>2
  <2>2. CASE n \in DOMAIN f /\ r \in DOMAIN f[n]
    <3>1. g = [f EXCEPT ![n][r] = f[n][r] \o <<o>>]
      BY <2>2 DEF AddFailedRule
    <3>2. ss = f[n][r] /\ h = f[n]
      BY <2>2
    <3> HIDE DEF ss, h
    <3> QED BY <2>2, <3>1, <3>2
  <2>3. CASE n \in DOMAIN f /\ r \notin DOMAIN f[n]
    <3>1. g = [f EXCEPT ![n] = Extend(f[n], r, <<o>>)]
      BY <2>3 DEF AddFailedRule
    <3>2. ss \o <<o>> = <<o>> /\ h = f[n]
      BY <1>1, <2>3
    <3> HIDE DEF ss, h
    <3> QED BY <2>3, <3>1, <3>2 DEF Extend
  <2> QED BY <2>1, <2>2, <2>3
<1>3. /\ n \in DOMAIN f => h = f[n]
      /\ n \notin DOMAIN f => DOMAIN h = {}
      /\ n \in DOMAIN f /\ r \in DOMAIN f[n] => ss = f[n][r]
      /\ ~(n \in DOMAIN f /\ r \in DOMAIN f[n]) => ss = << >>
  OBVIOUS
<1> DEFINE t == ss \o <<o>>
<1>4. /\ t \in Seq(Occurrence) /\ t # << >>
      /\ {t[k] : k \in 1..Len(t)} = {ss[k] : k \in 1..Len(ss)} \cup {o}
  <2> HIDE DEF ss
  <2> QED BY <1>1, KeptOfAppended
<1>5. {ss[k] : k \in 1..Len(ss)} = Kept(f, n, r)
  <2>1. CASE n \in DOMAIN f /\ r \in DOMAIN f[n]
    BY <2>1 DEF Kept
  <2>2. CASE ~(n \in DOMAIN f /\ r \in DOMAIN f[n])
    <3>1. ss = << >> /\ Kept(f, n, r) = {}
      BY <2>2 DEF Kept
    <3>2. 1..Len(<< >>) = {}
      OBVIOUS
    <3> QED BY <3>1, <3>2
  <2> QED BY <2>1, <2>2
<1> HIDE DEF g, ss, h, t
<1>6. g[n][r] = t
  BY <1>2 DEF t
<1>7. Shaped(g)
  <2>1. ASSUME NEW m \in DOMAIN g, m # n
        PROVE  /\ m \in Names /\ DOMAIN g[m] \subseteq Rules /\ DOMAIN g[m] # {}
               /\ \A s \in DOMAIN g[m] : g[m][s] \in Seq(Occurrence) /\ g[m][s] # << >>
    BY <1>2, <2>1 DEF Shaped
  <2>2. DOMAIN g[n] \subseteq Rules /\ DOMAIN g[n] # {}
    BY <1>2, <1>3 DEF Shaped
  <2>3. ASSUME NEW s \in DOMAIN g[n] PROVE g[n][s] \in Seq(Occurrence) /\ g[n][s] # << >>
    <3>1. CASE s = r
      BY <1>4, <1>6, <3>1
    <3>2. CASE s # r
      <4>1. s \in DOMAIN h /\ g[n][s] = h[s]
        BY <1>2, <2>3, <3>2
      <4> QED BY <1>3, <4>1 DEF Shaped
    <3> QED BY <3>1, <3>2
  <2> QED BY <2>1, <2>2, <2>3 DEF Shaped
<1>8. ASSUME NEW m, NEW s
      PROVE  Kept(g, m, s) = Kept(f, m, s) \cup (IF m = n /\ s = r THEN {o} ELSE {})
  <2>1. CASE m = n /\ s = r
    <3>1. Kept(g, n, r) = {t[k] : k \in 1..Len(t)}
      BY <1>2, <1>6 DEF Kept
    <3> QED BY <1>4, <1>5, <2>1, <3>1
  <2>2. CASE m = n /\ s # r
    <3>1. s \in DOMAIN g[n] <=> n \in DOMAIN f /\ s \in DOMAIN f[n]
      BY <1>2, <1>3, <2>2
    <3>2. s \in DOMAIN g[n] => g[n][s] = f[n][s]
      BY <1>2, <1>3, <2>2
    <3> QED BY <1>2, <2>2, <3>1, <3>2 DEF Kept
  <2>3. CASE m # n
    <3>1. m \in DOMAIN g <=> m \in DOMAIN f
      BY <1>2, <2>3
    <3>2. m \in DOMAIN f => g[m] = f[m]
      BY <1>2, <2>3
    <3> QED BY <2>3, <3>1, <3>2 DEF Kept
  <2> QED BY <2>1, <2>2, <2>3
<1> QED BY <1>7, <1>8 DEF g

-----------------------------------------------------------------------------
(* The configurations checked.                                               *)

LEMMA CheckedIs ==
  \A n, r, c : c \in Checked(n, r) <=>
      \E i \in 1..Len(input) : \E j \in 1..Len(input[i].configs) :
         input[i].name = n /\ Done(i, j, r) /\ c = input[i].configs[j]
BY DEF Checked

LEMMA CheckedIsNext ==
  \A n, r, c : c \in Checked(n, r)' <=>
      \E i \in 1..Len(input') : \E j \in 1..Len(input'[i].configs) :
         input'[i].name = n /\ Done(i, j, r)' /\ c = input'[i].configs[j]
BY DEF Checked

\* Nothing new is checked if the places done are the same.
LEMMA SameChecked ==
  ASSUME input' = input,
         \A i \in 1..Len(input) : \A j \in 1..Len(input[i].configs) : \A r \in Rules :
            Done(i, j, r)' <=> Done(i, j, r)
  PROVE  \A n : \A r \in Rules : Checked(n, r)' = Checked(n, r)
<1>1. ASSUME NEW n, NEW r \in Rules PROVE Checked(n, r)' = Checked(n, r)
  <2>1. \A c : c \in Checked(n, r)' <=> c \in Checked(n, r)
    BY CheckedIs, CheckedIsNext
  <2> QED BY <2>1
<1> QED BY <1>1

\* The types of the places.
LEMMA PlacesTyped ==
  ASSUME Cursor
  PROVE  /\ Len(input) \in Nat /\ file \in Nat /\ config \in Nat
         /\ \A i \in 1..Len(input) :
               /\ input[i].name \in Names /\ Len(input[i].configs) \in Nat
               /\ \A j \in 1..Len(input[i].configs) : input[i].configs[j].skipped \subseteq Rules
BY InputsAssumption DEF Cursor

\* The rule just checked, on the configuration at hand, is all that is new.
LEMMA RuleChecked ==
  ASSUME Cursor, InConfig, NEW r \in left, left' = left \ {r},
         UNCHANGED <<input, file, config>>
  PROVE  \A n : \A s \in Rules :
            Checked(n, s)' = Checked(n, s)
                             \cup (IF n = input[file].name /\ s = r THEN {Current} ELSE {})
<1>1. /\ file \in 1..Len(input) /\ config \in 1..Len(input[file].configs)
      /\ file \in Nat /\ config \in Nat /\ r \in Rules
  BY PlacesTyped DEF Cursor, InConfig, Checking
<1>2. ASSUME NEW i \in 1..Len(input), NEW j \in 1..Len(input[i].configs), NEW s \in Rules
      PROVE  Done(i, j, s)' <=> Done(i, j, s) \/ (i = file /\ j = config /\ s = r)
  BY <1>1 DEF Done
<1>3. ASSUME NEW n, NEW s \in Rules, NEW c
      PROVE  c \in Checked(n, s)' <=>
                c \in Checked(n, s) \/ (n = input[file].name /\ s = r /\ c = Current)
  <2>1. c \in Checked(n, s)' <=>
           \E i \in 1..Len(input) : \E j \in 1..Len(input[i].configs) :
              input[i].name = n /\ Done(i, j, s)' /\ c = input[i].configs[j]
    BY CheckedIsNext
  <2>2. c \in Checked(n, s) <=>
           \E i \in 1..Len(input) : \E j \in 1..Len(input[i].configs) :
              input[i].name = n /\ Done(i, j, s) /\ c = input[i].configs[j]
    BY CheckedIs
  <2>3. Current = input[file].configs[config]
    BY DEF Current
  <2> QED BY <1>1, <1>2, <2>1, <2>2, <2>3
<1>4. ASSUME NEW n, NEW s \in Rules
      PROVE  Checked(n, s)' = Checked(n, s)
                              \cup (IF n = input[file].name /\ s = r THEN {Current} ELSE {})
  BY <1>3
<1> QED BY <1>4

\* A configuration, or a file, is left when every rule was checked.
LEMMA NextPlaceChecked ==
  ASSUME Cursor, NextConfig \/ NextFile
  PROVE  \A n : \A r \in Rules : Checked(n, r)' = Checked(n, r)
<1>1. input' = input
  BY DEF NextConfig, NextFile
<1>2. /\ Len(input) \in Nat /\ file \in 1..Len(input) /\ config \in Nat
      /\ \A i \in 1..Len(input) : Len(input[i].configs) \in Nat
  BY PlacesTyped DEF Cursor, NextConfig, NextFile, InConfig, Checking
<1>3. ASSUME NEW i \in 1..Len(input), NEW j \in 1..Len(input[i].configs), NEW r \in Rules
      PROVE  Done(i, j, r)' <=> Done(i, j, r)
  <2>1. CASE NextConfig
    BY <1>2, <2>1 DEF Done, NextConfig
  <2>2. CASE NextFile
    <3>1. left = Rules /\ config > Len(input[file].configs) /\ left' = left
          /\ file' = file + 1 /\ config' = 1
      BY <2>2 DEF Cursor, NextFile, Checking
    <3> QED BY <1>2, <3>1 DEF Done
  <2> QED BY <2>1, <2>2
<1> QED BY <1>1, <1>3, SameChecked

-----------------------------------------------------------------------------
(* The invariant, step by step.                                              *)

LEMMA NothingShaped == Shaped(<< >>) /\ \A n, r : Kept(<< >>, n, r) = {}
BY DEF Shaped, Kept

LEMMA InitIInv ==
  ASSUME Init
  PROVE  IInv
<1>1. Len(input) \in Nat
  BY InputsAssumption DEF Init
<1>2. Cursor
  BY <1>1, InputsAssumption DEF Init, Cursor
<1>3. ASSUME NEW n, NEW r \in Rules PROVE Checked(n, r) = {}
  <2>1. ASSUME NEW i \in 1..Len(input), NEW j \in 1..Len(input[i].configs)
        PROVE  ~Done(i, j, r)
    <3>1. Len(input[i].configs) \in Nat
      BY <1>2, PlacesTyped
    <3>2. i \in Nat /\ j \in Nat /\ i >= 1 /\ j >= 1
      BY <1>1, <3>1
    <3> QED BY <3>2 DEF Done, Init
  <2> QED BY <2>1, CheckedIs
<1>4. Shaped(failed) /\ Gathered
  BY <1>3, NothingShaped DEF Init, Gathered
<1>5. Survived
  BY <1>3 DEF Survived
<1>6. Counted
  BY DEF Init, Counted
<1> QED BY <1>2, <1>4, <1>5, <1>6 DEF IInv

\* What the validator answers.
LEMMA Answers ==
  ASSUME NEW store, NEW s, NEW data, Validate(store, s, data).is = "errors"
  PROVE  /\ Validate(store, s, data).errors = LeafErrors(s, data)
         /\ \A k \in Judged(s, data) : KeyOutcome(k, data) # "panic"
BY DEF Validate

LEMMA CacheKept ==
  ASSUME Cursor, NEW r \in Rules
  PROVE  Cached(cache, schemas[r]) \subseteq {schemas[s] : s \in Rules}
BY DEF Cursor, Cached

\* A rule that is checked and answered.
LEMMA RuleAnswered ==
  ASSUME IInv, InConfig, NEW r \in left,
         Validate(cache, schemas[r], Current.data).is = "errors",
         cache' = Cached(cache, schemas[r]), left' = left \ {r},
         failed' = IF EvaluateRule(Current.skipped, r, LeafErrors(schemas[r], Current.data))
                      = << >>
                   THEN failed
                   ELSE AddFailedRule(failed, input[file].name, r,
                          EvaluateRule(Current.skipped, r,
                                       LeafErrors(schemas[r], Current.data))),
         UNCHANGED <<input, schemas, file, config, status, summary>>
  PROVE  IInv'
<1> DEFINE m == input[file].name
           o == Telling(schemas, Current, r)
<1>1. r \in Rules /\ m \in Names /\ o \in Occurrence
      /\ file \in 1..Len(input) /\ config <= Len(input[file].configs) /\ status = "checking"
  <2>1. file \in 1..Len(input)
    BY PlacesTyped DEF IInv, Cursor, InConfig, Checking
  <2> QED BY <2>1, PlacesTyped, TellingTyped DEF IInv, Cursor, InConfig, Checking
<1>2. Cursor'
  <2>1. cache' \subseteq {schemas'[s] : s \in Rules}
    BY <1>1, CacheKept DEF IInv
  <2>2. Len(input) \in Nat /\ file \in Nat /\ config \in Nat /\ Len(input[file].configs) \in Nat
    BY <1>1, PlacesTyped DEF IInv
  <2> QED BY <1>1, <2>1, <2>2 DEF IInv, Cursor
<1>3. failed' = IF Tells(schemas, Current, r) THEN AddFailedRule(failed, m, r, <<o>>)
                ELSE failed
  <2>1. <<o>> # << >>
    OBVIOUS
  <2> HIDE DEF o, m
  <2> QED BY <2>1, EvaluateRuleIs DEF o, m
<1>4. /\ Shaped(failed')
      /\ \A n, s : Kept(failed', n, s) =
            Kept(failed, n, s) \cup (IF n = m /\ s = r /\ Tells(schemas, Current, r)
                                     THEN {o} ELSE {})
  <2>1. CASE Tells(schemas, Current, r)
    <3> HIDE DEF o, m
    <3>1. failed' = AddFailedRule(failed, m, r, <<o>>)
      BY <1>3, <2>1
    <3> QED BY <1>1, <2>1, <3>1, Added DEF IInv
  <2>2. CASE ~Tells(schemas, Current, r)
    BY <1>3, <2>2 DEF IInv
  <2> QED BY <2>1, <2>2
<1>5. \A n : \A s \in Rules :
         Checked(n, s)' = Checked(n, s) \cup (IF n = m /\ s = r THEN {Current} ELSE {})
  BY RuleChecked DEF IInv
<1>6. Gathered'
  <2> SUFFICES ASSUME NEW n \in Names, NEW s \in Rules
               PROVE  Kept(failed', n, s) =
                        {Telling(schemas, c, s) :
                           c \in {x \in Checked(n, s)' : Tells(schemas, x, s)}}
    BY DEF Gathered
  <2>1. Kept(failed, n, s) =
           {Telling(schemas, c, s) : c \in {x \in Checked(n, s) : Tells(schemas, x, s)}}
    BY <1>1 DEF IInv, Gathered, Going
  <2>2. CASE n = m /\ s = r
    <3>1. Checked(n, s)' = Checked(n, s) \cup {Current}
      BY <1>5, <2>2
    <3>2. Kept(failed', n, s) =
             Kept(failed, n, s) \cup (IF Tells(schemas, Current, r) THEN {o} ELSE {})
      BY <1>4, <2>2
    <3> QED BY <2>1, <2>2, <3>1, <3>2
  <2>3. CASE ~(n = m /\ s = r)
    <3>1. Checked(n, s)' = Checked(n, s)
      <4>1. Checked(n, s)' = Checked(n, s) \cup (IF n = m /\ s = r THEN {Current} ELSE {})
        BY <1>5
      <4>2. Checked(n, s)' = Checked(n, s) \cup {}
        BY <2>3, <4>1
      <4> QED BY <4>2
    <3>2. Kept(failed', n, s) = Kept(failed, n, s)
      <4> HIDE DEF m, o
      <4> QED BY <1>4, <2>3, ZenonT(40)
    <3> QED BY <2>1, <3>1, <3>2
  <2> QED BY <2>2, <2>3
<1>7. Survived'
  <2> SUFFICES ASSUME NEW n \in Names, NEW s \in Rules, NEW c \in Checked(n, s)',
                      NEW k \in Judged(schemas[s], c.data)
               PROVE  KeyOutcome(k, c.data) # "panic"
    BY DEF Survived
  <2>1. c \in Checked(n, s) \/ (s = r /\ c = Current)
    BY <1>5
  <2>2. CASE c \in Checked(n, s)
    BY <1>1, <2>2 DEF IInv, Survived, Going
  <2>3. CASE s = r /\ c = Current
    BY <2>3, Answers
  <2> QED BY <2>1, <2>2, <2>3
<1>8. Counted'
  BY <1>1 DEF IInv, Counted
<1> QED BY <1>2, <1>4, <1>6, <1>7, <1>8 DEF IInv

\* The check given up: nothing is kept, and nothing said of what was.
LEMMA AbortIInv ==
  ASSUME IInv, NEW how \in {"error", "panicked"}, Abort(how), InConfig,
         UNCHANGED <<input, schemas, file, config, summary>>,
         cache' \subseteq {schemas[r] : r \in Rules}
  PROVE  IInv'
<1>1. status' \in {"panicked", "error"} /\ failed' = << >> /\ left' = left
  BY DEF Abort
<1>2. Cursor'
  BY <1>1 DEF IInv, Cursor
<1>3. Shaped(failed') /\ Gathered' /\ Survived'
  BY <1>1, NothingShaped DEF Gathered, Survived, Going
<1>4. Counted'
  BY <1>1 DEF IInv, Counted, InConfig, Checking
<1> QED BY <1>2, <1>3, <1>4 DEF IInv

LEMMA ExtractSkipAnnotationsIInv ==
  ASSUME IInv, ExtractSkipAnnotations
  PROVE  IInv'
<1>1. /\ InConfig /\ Abort("panicked")
      /\ UNCHANGED <<input, schemas, cache, file, config, summary>>
  BY DEF ExtractSkipAnnotations
<1>2. cache' \subseteq {schemas[r] : r \in Rules}
  BY <1>1 DEF IInv, Cursor
<1> QED BY <1>1, <1>2, AbortIInv

LEMMA CheckRuleIInv ==
  ASSUME IInv, CheckRule
  PROVE  IInv'
<1>1. PICK r \in left :
         LET answer == Validate(cache, schemas[r], Current.data)
             found  == EvaluateRule(Current.skipped, r, answer.errors)
         IN  /\ cache' = Cached(cache, schemas[r])
             /\ \/ /\ answer.is = "errors"
                   /\ left' = left \ {r}
                   /\ failed' = IF found = << >> THEN failed
                                ELSE AddFailedRule(failed, input[file].name, r, found)
                   /\ UNCHANGED status
                \/ answer.is = "error" /\ Abort("error")
                \/ answer.is = "panic" /\ Abort("panicked")
                \/ answer.is = "errors" /\ answer.errors # {} /\ Abort("panicked")
  BY DEF CheckRule
<1>2. InConfig /\ UNCHANGED <<input, schemas, file, config, summary>>
  BY DEF CheckRule
<1> DEFINE answer == Validate(cache, schemas[r], Current.data)
<1>3. CASE Abort("error") \/ Abort("panicked")
  <2>1. r \in Rules
    BY DEF IInv, Cursor
  <2>2. cache' \subseteq {schemas[s] : s \in Rules}
    BY <1>1, <2>1, CacheKept DEF IInv
  <2> QED BY <1>2, <1>3, <2>2, AbortIInv
<1>4. CASE ~(Abort("error") \/ Abort("panicked"))
  <2>1. answer.is = "errors"
    BY <1>1, <1>4
  <2>2. answer.errors = LeafErrors(schemas[r], Current.data)
    BY <2>1, Answers
  <2> QED BY <1>1, <1>2, <1>4, <2>1, <2>2, RuleAnswered
<1> QED BY <1>3, <1>4

\* Nothing kept and nothing checked: nothing changes.
LEMMA SameGathered ==
  ASSUME IInv, status \in {"checking", "formatted"}, schemas' = schemas, failed' = failed,
         \A n : \A r \in Rules : Checked(n, r)' = Checked(n, r)
  PROVE  Gathered' /\ Survived'
<1>1. Gathered'
  <2> SUFFICES ASSUME NEW n \in Names, NEW r \in Rules
               PROVE  Kept(failed', n, r) =
                        {Telling(schemas', c, r) :
                           c \in {x \in Checked(n, r)' : Tells(schemas', x, r)}}
    BY DEF Gathered
  <2>1. Kept(failed, n, r) =
           {Telling(schemas, c, r) : c \in {x \in Checked(n, r) : Tells(schemas, x, r)}}
    BY DEF IInv, Gathered, Going
  <2> QED BY <2>1
<1>2. Survived'
  <2> SUFFICES ASSUME NEW n \in Names, NEW r \in Rules, NEW c \in Checked(n, r)',
                      NEW k \in Judged(schemas'[r], c.data)
               PROVE  KeyOutcome(k, c.data) # "panic"
    BY DEF Survived
  <2> QED BY DEF IInv, Survived, Going
<1> QED BY <1>1, <1>2

LEMMA NextPlaceIInv ==
  ASSUME IInv, NextConfig \/ NextFile
  PROVE  IInv'
<1>1. /\ UNCHANGED <<input, schemas, cache, failed, status, summary>> /\ status = "checking"
      /\ file \in 1..Len(input) /\ Len(input) \in Nat /\ config \in Nat
      /\ \A i \in 1..Len(input) : Len(input[i].configs) \in Nat
  BY PlacesTyped DEF IInv, Cursor, NextConfig, NextFile, InConfig, Checking
<1>2. Cursor'
  <2>1. CASE NextConfig
    BY <1>1, <2>1 DEF IInv, Cursor, NextConfig, InConfig, Checking
  <2>2. CASE NextFile
    <3>1. left' = Rules /\ config' = 1 /\ file' = file + 1
      BY <1>1, <2>2 DEF IInv, Cursor, NextFile, Checking
    <3> QED BY <1>1, <3>1 DEF IInv, Cursor
  <2> QED BY <2>1, <2>2
<1>3. \A n : \A r \in Rules : Checked(n, r)' = Checked(n, r)
  BY NextPlaceChecked DEF IInv
<1>4. Shaped(failed') /\ Counted'
  BY <1>1 DEF IInv, Counted
<1>5. Gathered' /\ Survived'
  BY <1>1, <1>3, SameGathered
<1> QED BY <1>2, <1>4, <1>5 DEF IInv

LEMMA FormatIInv ==
  ASSUME IInv, Format
  PROVE  IInv'
<1>1. /\ UNCHANGED <<input, schemas, cache, file, config, left, failed>>
      /\ status = "checking" /\ status' = "formatted" /\ file > Len(input)
  BY DEF Format
<1>2. Cursor'
  BY <1>1 DEF IInv, Cursor
<1>3. \A i, j, r : Done(i, j, r)' <=> Done(i, j, r)
  BY <1>1 DEF Done
<1>4. \A n : \A r \in Rules : Checked(n, r)' = Checked(n, r)
  BY <1>1, <1>3, SameChecked
<1>5. Shaped(failed')
  BY <1>1 DEF IInv
<1>6. Gathered' /\ Survived'
  BY <1>1, <1>4, SameGathered
<1>7. Counted'
  BY <1>1 DEF Format, Counted, CountsOf
<1> QED BY <1>2, <1>5, <1>6, <1>7 DEF IInv

LEMMA StutterIInv ==
  ASSUME IInv, UNCHANGED vars
  PROVE  IInv'
<1>1. \A i, j, r : Done(i, j, r)' <=> Done(i, j, r)
  BY DEF vars, Done
<1>2. \A n : \A r \in Rules : Checked(n, r)' = Checked(n, r)
  BY <1>1, SameChecked DEF vars
<1>3. Cursor' /\ Shaped(failed') /\ Counted'
  BY DEF IInv, Cursor, Counted, vars
<1>4. Gathered' /\ Survived'
  <2>1. CASE Going
    BY <1>2, <2>1, SameGathered DEF Going, vars
  <2>2. CASE ~Going
    BY <2>2 DEF Gathered, Survived, Going, vars
  <2> QED BY <2>1, <2>2
<1> QED BY <1>3, <1>4 DEF IInv

LEMMA StepIInv ==
  ASSUME IInv, [Next]_vars
  PROVE  IInv'
BY ExtractSkipAnnotationsIInv, CheckRuleIInv, NextPlaceIInv, FormatIInv, StutterIInv DEF Next

-----------------------------------------------------------------------------
(* What is kept at the end.                                                  *)

LEMMA ConfigsIs ==
  \A n, c : c \in Configs(n) <=>
      \E i \in 1..Len(input) : \E j \in 1..Len(input[i].configs) :
         input[i].name = n /\ c = input[i].configs[j]
BY DEF Configs

LEMMA AllChecked ==
  ASSUME IInv, status = "formatted"
  PROVE  \A n : \A r \in Rules : Checked(n, r) = Configs(n)
<1>1. ASSUME NEW i \in 1..Len(input), NEW j, NEW r PROVE Done(i, j, r)
  BY PlacesTyped DEF IInv, Cursor, Done
<1>2. ASSUME NEW n, NEW r \in Rules PROVE Checked(n, r) = Configs(n)
  <2>1. \A c : c \in Checked(n, r) <=> c \in Configs(n)
    BY <1>1, CheckedIs, ConfigsIs
  <2> QED BY <2>1
<1> QED BY <1>2

\* The occurrences of a rule in a file are those of all its configurations.
LEMMA AllKept ==
  ASSUME IInv, status = "formatted", NEW n \in Names, NEW r \in Rules
  PROVE  /\ Kept(failed, n, r) =
              {Telling(schemas, c, r) : c \in {x \in Configs(n) : Tells(schemas, x, r)}}
         /\ \A c \in Configs(n) : \A k \in Judged(schemas[r], c.data) :
               KeyOutcome(k, c.data) # "panic"
<1>1. Checked(n, r) = Configs(n)
  BY AllChecked
<1> QED BY <1>1 DEF IInv, Gathered, Survived, Going

LEMMA SchemasTyped ==
  ASSUME IInv
  PROVE  \A r \in Rules : schemas[r] \in Schemas
BY PoliciesAssumption DEF IInv, Cursor

LEMMA TellingFields ==
  ASSUME IInv, NEW r \in Rules, NEW c
  PROVE  LET o == Telling(schemas, c, r)
         IN  /\ o.isSkipped = TRUE <=> r \in c.skipped
             /\ o.isSkipped = FALSE <=> r \notin c.skipped
             /\ o.occurrences <=> ~Holds(schemas[r], c.data)
             /\ o.messages <=> \E e \in LeafErrors(schemas[r], c.data) : e.custom
<1>1. LeafErrors(schemas[r], c.data) # {} <=> ~Holds(schemas[r], c.data)
  BY ErrorsMeanFailure, SchemasTyped
<1> DEFINE o == Telling(schemas, c, r)
<1>2. o.isSkipped = (r \in c.skipped)
  BY DEF Telling
<1>3. (o.isSkipped = TRUE <=> r \in c.skipped) /\ (o.isSkipped = FALSE <=> r \notin c.skipped)
  <2> HIDE DEF o
  <2>1. CASE r \in c.skipped
    <3>1. o.isSkipped = TRUE
      BY <1>2, <2>1
    <3> QED BY <2>1, <3>1
  <2>2. CASE r \notin c.skipped
    <3>1. o.isSkipped \in BOOLEAN
      BY TellingTyped DEF o, Occurrence
    <3>2. ~o.isSkipped
      BY <1>2, <2>2
    <3>3. o.isSkipped = FALSE
      BY <3>1, <3>2
    <3> QED BY <2>2, <3>3
  <2> QED BY <2>1, <2>2
<1>4. o.occurrences = (LeafErrors(schemas[r], c.data) # {})
  BY DEF Telling
<1>5. o.messages = (\E e \in LeafErrors(schemas[r], c.data) : e.custom)
  BY DEF Telling
<1> HIDE DEF o
<1>6. (o.occurrences <=> ~Holds(schemas[r], c.data))
      /\ (o.messages <=> \E e \in LeafErrors(schemas[r], c.data) : e.custom)
  BY <1>1, <1>4, <1>5
<1> QED BY <1>3, <1>6 DEF o

LEMMA PairsAre ==
  ASSUME IInv, NEW n \in Names, NEW r \in Rules
  PROVE  /\ <<n, r>> \in Pairs(failed) <=> Kept(failed, n, r) # {}
         /\ <<n, r>> \in Pairs(failed)
            => Kept(failed, n, r) = {failed[n][r][k] : k \in 1..Len(failed[n][r])}
<1>1. <<n, r>> \in Pairs(failed) <=> n \in DOMAIN failed /\ r \in DOMAIN failed[n]
  BY DEF Pairs
<1>2. n \in DOMAIN failed /\ r \in DOMAIN failed[n]
      => failed[n][r] \in Seq(Occurrence) /\ failed[n][r] # << >>
  BY DEF IInv, Shaped
<1>3. ASSUME NEW s \in Seq(Occurrence), s # << >> PROVE {s[k] : k \in 1..Len(s)} # {}
  <2>1. Len(s) \in Nat /\ 1 \in 1..Len(s)
    BY <1>3
  <2> QED BY <2>1
<1> QED BY <1>1, <1>2, <1>3 DEF Kept

\* The pairs that are counted, from the configurations.
LEMMA PairsTold ==
  ASSUME IInv, status = "formatted", NEW n \in Names, NEW r \in Rules
  PROVE  /\ <<n, r>> \in Pairs(failed)        <=> \E c \in Configs(n) : Tells(schemas, c, r)
         /\ <<n, r>> \in FailedPairs(failed)  <=> Violates(n, r)
         /\ <<n, r>> \in SkippedPairs(failed) <=> Skips(n, r)
<1>1. Kept(failed, n, r) =
         {Telling(schemas, c, r) : c \in {x \in Configs(n) : Tells(schemas, x, r)}}
  BY AllKept
<1>2. <<n, r>> \in Pairs(failed) <=> \E c \in Configs(n) : Tells(schemas, c, r)
  BY <1>1, PairsAre
<1>3. ASSUME NEW b
      PROVE  <<n, r>> \in Pairs(failed) /\ SomeOccurrence(failed[n][r], b)
             <=> \E c \in Configs(n) : Tells(schemas, c, r) /\ Telling(schemas, c, r).isSkipped = b
  <2>1. <<n, r>> \in Pairs(failed) =>
           (SomeOccurrence(failed[n][r], b) <=> \E o \in Kept(failed, n, r) : o.isSkipped = b)
    BY PairsAre DEF SomeOccurrence
  <2>2. (\E o \in Kept(failed, n, r) : o.isSkipped = b) <=>
           \E c \in Configs(n) : Tells(schemas, c, r) /\ Telling(schemas, c, r).isSkipped = b
    BY <1>1
  <2> QED BY <1>2, <2>1, <2>2
<1>4. \A c : Tells(schemas, c, r) <=> ~Holds(schemas[r], c.data) \/ r \in c.skipped
  BY ErrorsMeanFailure, SchemasTyped DEF Tells
<1>5. <<n, r>> \in FailedPairs(failed) <=>
         <<n, r>> \in Pairs(failed) /\ SomeOccurrence(failed[n][r], FALSE)
  BY DEF FailedPairs
<1>6. <<n, r>> \in SkippedPairs(failed) <=>
         <<n, r>> \in Pairs(failed) /\ SomeOccurrence(failed[n][r], TRUE)
  BY DEF SkippedPairs
<1>7. \A c : (Telling(schemas, c, r).isSkipped = TRUE <=> r \in c.skipped)
             /\ (Telling(schemas, c, r).isSkipped = FALSE <=> r \notin c.skipped)
  BY TellingFields
<1>8. <<n, r>> \in FailedPairs(failed) <=> Violates(n, r)
  BY <1>3, <1>4, <1>5, <1>7 DEF Violates
<1>9. <<n, r>> \in SkippedPairs(failed) <=> Skips(n, r)
  BY <1>3, <1>4, <1>6, <1>7 DEF Skips
<1> QED BY <1>2, <1>8, <1>9

LEMMA FailedPairsAre ==
  ASSUME IInv, status = "formatted"
  PROVE  /\ FailedPairs(failed) = {p \in Names \X Rules : Violates(p[1], p[2])}
         /\ SkippedPairs(failed) = {p \in Names \X Rules : Skips(p[1], p[2])}
         /\ FailedFiles(failed) = {n \in Names : \E r \in Rules : Violates(n, r)}
<1>1. \A p \in Names \X Rules : p[1] \in Names /\ p[2] \in Rules /\ p = <<p[1], p[2]>>
  OBVIOUS
<1>2. /\ FailedPairs(failed) \subseteq Names \X Rules
      /\ SkippedPairs(failed) \subseteq Names \X Rules
  BY DEF FailedPairs, SkippedPairs, Pairs
<1>3. FailedPairs(failed) = {p \in Names \X Rules : Violates(p[1], p[2])}
  BY <1>1, <1>2, PairsTold
<1>4. SkippedPairs(failed) = {p \in Names \X Rules : Skips(p[1], p[2])}
  BY <1>1, <1>2, PairsTold
<1>5. ASSUME NEW n PROVE n \in FailedFiles(failed) <=>
                            n \in Names /\ \E r \in Rules : Violates(n, r)
  <2>1. ASSUME n \in Names, NEW r \in Rules, Violates(n, r) PROVE n \in FailedFiles(failed)
    <3>1. <<n, r>> \in FailedPairs(failed)
      BY <2>1, PairsTold
    <3>2. n \in DOMAIN failed
      BY <3>1 DEF FailedPairs, Pairs
    <3> QED BY <3>1, <3>2 DEF FailedFiles
  <2>2. ASSUME n \in FailedFiles(failed) PROVE n \in Names /\ \E r \in Rules : Violates(n, r)
    <3>1. PICK p \in FailedPairs(failed) : p[1] = n
      BY <2>2 DEF FailedFiles
    <3> QED BY <1>1, <1>3, <3>1
  <2> QED BY <2>1, <2>2
<1>6. FailedFiles(failed) = {n \in Names : \E r \in Rules : Violates(n, r)}
  BY <1>5
<1> QED BY <1>3, <1>4, <1>6

\* While no file is given twice, the files that fail and their names are as many.
EachNamesOne(n, name, F) ==
    /\ \A i, j \in 1..n : name[i] = name[j] => i = j
    /\ \A m \in F : \E i \in 1..n : name[i] = m

LEMMA FailedNamesCount ==
  ASSUME NEW n \in Nat, NEW name, NEW F, EachNamesOne(n, name, F)
  PROVE  n - Cardinality(F) = Cardinality({i \in 1..n : name[i] \notin F})
<1> DEFINE Bad == {i \in 1..n : name[i] \in F}
           Good == {i \in 1..n : name[i] \notin F}
           g == [i \in Bad |-> name[i]]
<1>1. IsFiniteSet(1..n) /\ Cardinality(1..n) = n
  BY FS_Interval
<1>2. IsFiniteSet(Bad) /\ IsFiniteSet(Good)
  BY <1>1, FS_Subset
<1>3. g \in Bijection(Bad, F)
  <2>1. g \in [Bad -> F] /\ (\A i, j \in Bad : g[i] = g[j] => i = j)
        /\ \A m \in F : \E i \in Bad : g[i] = m
    BY DEF EachNamesOne
  <2> HIDE DEF g, Bad
  <2> QED BY <2>1 DEF Bijection, Injection, Surjection, IsInjective
<1>4. ExistsBijection(Bad, F)
  <2> HIDE DEF g
  <2> QED BY <1>3 DEF ExistsBijection
<1> HIDE DEF g
<1>5. Cardinality(Bad) = Cardinality(F)
  <2> HIDE DEF Bad
  <2> QED BY <1>2, <1>4, FS_Bijection
<1>6. Good = (1..n) \ Bad /\ (1..n) \cap Bad = Bad
  OBVIOUS
<1>7. Cardinality((1..n) \ Bad) = n - Cardinality(Bad)
  <2> DEFINE I == 1..n
  <2>1. IsFiniteSet(I) /\ Cardinality(I) = n /\ I \cap Bad = Bad
    BY <1>1, <1>6
  <2> HIDE DEF Bad, Good, I
  <2>2. Cardinality(I \ Bad) = Cardinality(I) - Cardinality(I \cap Bad)
    BY <2>1, FS_Difference
  <2> QED BY <2>1, <2>2 DEF I
<1> QED BY <1>5, <1>6, <1>7

\* The summary counts the pairs and the files that fail.
LEMMA SummaryIs ==
  ASSUME IInv, status = "formatted"
  PROVE  /\ summary.failedRules = Cardinality(FailedPairs(failed))
         /\ summary.skippedRules = Cardinality(SkippedPairs(failed))
         /\ summary.filesPassed = Len(input) - Cardinality(FailedFiles(failed))
<1>1. CASE input # << >>
  BY <1>1 DEF IInv, Counted, CountsOf
<1>2. CASE input = << >>
  <2>1. Len(input) = 0 /\ 1..Len(input) = {}
    BY <1>2
  <2>2. \A n, c : c \notin Configs(n)
    BY <2>1, ConfigsIs
  <2>3. FailedPairs(failed) = {} /\ SkippedPairs(failed) = {} /\ FailedFiles(failed) = {}
    BY <2>2, FailedPairsAre DEF Violates, Skips
  <2>4. Cardinality({}) = 0
    BY FS_EmptySet
  <2> QED BY <1>2, <2>1, <2>3, <2>4 DEF IInv, Counted, CountsOf, NoSummary
<1> QED BY <1>1, <1>2

LEMMA CountsFollow ==
  ASSUME IInv
  PROVE  CountsExact
<1> SUFFICES ASSUME status = "formatted"
             PROVE  FailedRulesCounted /\ SkippedRulesCounted /\ FilesPassedCounted
  BY DEF CountsExact
<1>1. /\ summary.failedRules = Cardinality(FailedPairs(failed))
      /\ summary.skippedRules = Cardinality(SkippedPairs(failed))
      /\ summary.filesPassed = Len(input) - Cardinality(FailedFiles(failed))
  BY SummaryIs
<1>2. FailedRulesCounted /\ SkippedRulesCounted
  BY <1>1, FailedPairsAre DEF FailedRulesCounted, SkippedRulesCounted
<1>3. ASSUME DistinctNames
      PROVE  summary.filesPassed =
               Cardinality({i \in 1..Len(input) : \A r \in Rules : ~Violates(input[i].name, r)})
  <2> DEFINE name == [i \in 1..Len(input) |-> input[i].name]
             F == FailedFiles(failed)
  <2>1. Len(input) \in Nat /\ \A i \in 1..Len(input) : input[i].name \in Names
    BY PlacesTyped DEF IInv
  <2>2. \A i, j \in 1..Len(input) : name[i] = name[j] => i = j
    BY <1>3 DEF DistinctNames
  <2>3. F = {n \in Names : \E r \in Rules : Violates(n, r)}
    BY FailedPairsAre
  <2>4. ASSUME NEW m \in F PROVE \E i \in 1..Len(input) : name[i] = m
    <3>1. PICK c : c \in Configs(m)
      BY <2>3 DEF Violates
    <3> QED BY <3>1, ConfigsIs
  <2>5. {i \in 1..Len(input) : \A r \in Rules : ~Violates(input[i].name, r)}
        = {i \in 1..Len(input) : name[i] \notin F}
    BY <2>1, <2>3
  <2>7. EachNamesOne(Len(input), name, F)
    <3> HIDE DEF name, F
    <3> QED BY <2>2, <2>4 DEF EachNamesOne
  <2>6. Len(input) - Cardinality(F) = Cardinality({i \in 1..Len(input) : name[i] \notin F})
    <3> HIDE DEF name, F
    <3> QED BY <2>1, <2>7, FailedNamesCount
  <2> QED BY <1>1, <2>5, <2>6
<1> QED BY <1>2, <1>3 DEF FilesPassedCounted

LEMMA BrokenFollows ==
  ASSUME IInv
  PROVE  BrokenKeyTold
<1> SUFFICES ASSUME status = "formatted", NEW n \in Names, NEW r \in Rules,
                    NEW c \in Configs(n), NEW k \in DirectKeys(schemas[r]),
                    KeyOutcome(k, c.data) = "broken"
             PROVE  /\ <<n, r>> \in Pairs(failed)
                    /\ \E i \in 1..Len(failed[n][r]) : failed[n][r][i].messages
  BY DEF BrokenKeyTold
<1>1. \E e \in LeafErrors(schemas[r], c.data) : e.custom
  BY BrokenKeyLeft, SchemasTyped
<1>2. Tells(schemas, c, r) /\ Telling(schemas, c, r).messages
  BY <1>1, TellingFields DEF Tells
<1>3. Telling(schemas, c, r) \in Kept(failed, n, r)
  BY <1>2, AllKept
<1>4. <<n, r>> \in Pairs(failed)
  BY <1>3, PairsAre
<1>5. PICK i \in 1..Len(failed[n][r]) : failed[n][r][i] = Telling(schemas, c, r)
  BY <1>3, <1>4, PairsAre
<1> QED BY <1>2, <1>4, <1>5

-----------------------------------------------------------------------------
(* What the query of customKeyRule89 collects.                               *)

Stops == {"nil", "error"}
Texts == STRING \cup Stops

Clean(s) == \A k \in 1..Len(s) : s[k] \notin Stops

LEMMA CollectedIs ==
  \A s, y : y \in Collected(s) <=>
      \E k \in 1..Len(s) : s[k] = y /\ \A j \in 1..k : s[j] \notin Stops
BY DEF Collected, Stops

\* Of two streams one after the other.
LEMMA CollectedJoined ==
  ASSUME NEW s \in Seq(Texts), NEW t \in Seq(Texts)
  PROVE  /\ s \o t \in Seq(Texts)
         /\ Clean(s \o t) <=> Clean(s) /\ Clean(t)
         /\ \A y : y \in Collected(s \o t) <=>
                      y \in Collected(s) \/ (Clean(s) /\ y \in Collected(t))
<1> DEFINE u == s \o t
           n == Len(s)
           m == Len(t)
<1>1. /\ u \in Seq(Texts) /\ n \in Nat /\ m \in Nat /\ Len(u) = n + m
      /\ (\A k \in 1..n : u[k] = s[k])
  OBVIOUS
<1>2. \A k \in 1..m : u[n + k] = t[k]
  OBVIOUS
<1> HIDE DEF u
<1>3. Clean(u) <=> (\A k \in 1..(n + m) : u[k] \notin Stops)
  BY <1>1 DEF Clean
<1>4. /\ Clean(s) <=> (\A k \in 1..n : u[k] \notin Stops)
      /\ Clean(t) <=> (\A k \in 1..m : u[n + k] \notin Stops)
  BY <1>1, <1>2 DEF Clean
<1>5. ASSUME NEW y
      PROVE  /\ y \in Collected(u) <=>
                  \E k \in 1..(n + m) : u[k] = y /\ \A j \in 1..k : u[j] \notin Stops
             /\ y \in Collected(s) <=>
                  \E k \in 1..n : u[k] = y /\ \A j \in 1..k : u[j] \notin Stops
             /\ y \in Collected(t) <=>
                  \E k \in 1..m : u[n + k] = y /\ \A j \in 1..k : u[n + j] \notin Stops
  <2>1. y \in Collected(u) <=>
           \E k \in 1..(n + m) : u[k] = y /\ \A j \in 1..k : u[j] \notin Stops
    BY <1>1, CollectedIs
  <2>2. y \in Collected(s) <=>
           \E k \in 1..n : u[k] = y /\ \A j \in 1..k : u[j] \notin Stops
    <3>1. y \in Collected(s) <=>
             \E k \in 1..n : s[k] = y /\ \A j \in 1..k : s[j] \notin Stops
      BY CollectedIs
    <3>2. \A k \in 1..n : \A j \in 1..k : j \in 1..n
      BY <1>1
    <3> HIDE DEF n, m
    <3> QED BY <1>1, <3>1, <3>2
  <2>3. y \in Collected(t) <=>
           \E k \in 1..m : u[n + k] = y /\ \A j \in 1..k : u[n + j] \notin Stops
    <3>1. y \in Collected(t) <=>
             \E k \in 1..m : t[k] = y /\ \A j \in 1..k : t[j] \notin Stops
      BY CollectedIs
    <3>2. \A k \in 1..m : \A j \in 1..k : j \in 1..m
      BY <1>1
    <3> HIDE DEF n, m
    <3> QED BY <1>2, <3>1, <3>2
  <2> QED BY <2>1, <2>2, <2>3
<1> HIDE DEF n, m
<1>6. \A k \in (n + 1)..(n + m) : k - n \in 1..m /\ n + (k - n) = k
  BY <1>1
<1>7. Clean(u) <=> Clean(s) /\ Clean(t)
  <2>1. \A k \in 1..(n + m) : k \in 1..n \/ k \in (n + 1)..(n + m)
    BY <1>1
  <2>2. (\A k \in 1..n : k \in 1..(n + m)) /\ (\A k \in 1..m : n + k \in 1..(n + m))
    BY <1>1
  <2>3. ASSUME Clean(s), Clean(t), NEW k \in 1..(n + m) PROVE u[k] \notin Stops
    <3>1. CASE k \in 1..n
      BY <1>4, <2>3, <3>1
    <3>2. CASE k \in (n + 1)..(n + m)
      BY <1>4, <1>6, <2>3, <3>2
    <3> QED BY <2>1, <3>1, <3>2
  <2> QED BY <1>3, <1>4, <2>2, <2>3
<1>8. ASSUME NEW y
      PROVE  y \in Collected(u) <=> y \in Collected(s) \/ (Clean(s) /\ y \in Collected(t))
  <2>1. ASSUME y \in Collected(u), ~(y \in Collected(s))
        PROVE  Clean(s) /\ y \in Collected(t)
    <3>1. PICK k \in 1..(n + m) : u[k] = y /\ \A j \in 1..k : u[j] \notin Stops
      BY <1>5, <2>1
    <3>2. k \notin 1..n
      BY <1>5, <2>1, <3>1
    <3>3. k \in (n + 1)..(n + m) /\ \A j \in 1..n : j \in 1..k
      BY <1>1, <3>2
    <3>4. Clean(s)
      BY <1>4, <3>1, <3>3
    <3>5. k - n \in 1..m /\ n + (k - n) = k /\ \A j \in 1..(k - n) : n + j \in 1..k
      BY <1>1, <3>3
    <3> QED BY <1>5, <3>1, <3>4, <3>5
  <2>2. ASSUME y \in Collected(s) PROVE y \in Collected(u)
    <3>1. PICK k \in 1..n : u[k] = y /\ \A j \in 1..k : u[j] \notin Stops
      BY <1>5, <2>2
    <3>2. k \in 1..(n + m)
      BY <1>1
    <3> QED BY <1>5, <3>1, <3>2
  <2>3. ASSUME Clean(s), y \in Collected(t) PROVE y \in Collected(u)
    <3>1. PICK k \in 1..m : u[n + k] = y /\ \A j \in 1..k : u[n + j] \notin Stops
      BY <1>5, <2>3
    <3>2. n + k \in 1..(n + m)
      BY <1>1
    <3>3. ASSUME NEW j \in 1..(n + k) PROVE u[j] \notin Stops
      <4>1. CASE j \in 1..n
        BY <1>4, <2>3, <4>1
      <4>2. CASE j \notin 1..n
        <5>1. j - n \in 1..k /\ n + (j - n) = j
          BY <1>1, <4>2
        <5> QED BY <3>1, <5>1
      <4> QED BY <4>1, <4>2
    <3> QED BY <1>5, <3>1, <3>2, <3>3
  <2> QED BY <2>1, <2>2, <2>3
<1> QED BY <1>1, <1>7, <1>8 DEF u

LEMMA CollectedOne ==
  ASSUME NEW x \in Texts
  PROVE  /\ <<x>> \in Seq(Texts)
         /\ Clean(<<x>>) <=> x \notin Stops
         /\ \A y : y \in Collected(<<x>>) <=> y = x /\ x \notin Stops
<1> DEFINE s == <<x>>
<1>5. s \in Seq(Texts)
  <2>1. \A S : \A y \in S : <<y>> \in Seq(S)
    OBVIOUS
  <2> QED BY <2>1
<1>6. Len(s) = 1 /\ s[1] = x
  OBVIOUS
<1>1. s \in Seq(Texts) /\ Len(s) = 1 /\ s[1] = x
  BY <1>5, <1>6
<1>4. \A k : k \in 1..1 <=> k = 1
  OBVIOUS
<1> HIDE DEF s
<1>2. Clean(s) <=> x \notin Stops
  BY <1>1, <1>4 DEF Clean
<1>3. ASSUME NEW y PROVE y \in Collected(s) <=> y = x /\ x \notin Stops
  <2>1. y \in Collected(s) <=> \E k \in 1..1 : s[k] = y /\ \A j \in 1..k : s[j] \notin Stops
    BY <1>1, CollectedIs
  <2> QED BY <1>1, <1>4, <2>1
<1> QED BY <1>1, <1>2, <1>3 DEF s

LEMMA CollectedNone ==
  << >> \in Seq(Texts) /\ Clean(<< >>) /\ \A y : y \notin Collected(<< >>)
<1>1. << >> \in Seq(Texts) /\ Len(<< >>) = 0 /\ 1..0 = {}
  OBVIOUS
<1> QED BY <1>1, CollectedIs DEF Clean

\* The mounts, the containers and the volumes of a pod.
MountSpecs == [name : STRING \ {"error"}, readOnly : {"unset", "false", "true"}]

LEMMA PodTyped ==
  ASSUME NEW pod \in PodSpecs
  PROVE  /\ Len(pod.containers) \in Nat /\ Len(pod.volumes) \in Nat
         /\ \A i \in 1..Len(pod.containers) :
               /\ pod.containers[i].hasMounts \in BOOLEAN
               /\ pod.containers[i].mounts \in Seq(MountSpecs)
<1> DEFINE containers == [hasMounts : BOOLEAN, mounts : Seq(MountSpecs)]
           volumes == [name : STRING, hostPath : BOOLEAN]
<1>1. pod.containers \in Seq(containers) /\ pod.volumes \in Seq(volumes)
  BY DEF PodSpecs, MountSpecs
<1>2. \A i \in 1..Len(pod.containers) : pod.containers[i] \in containers
  <2> HIDE DEF containers
  <2> QED BY <1>1
<1>3. \A c \in containers : c.hasMounts \in BOOLEAN /\ c.mounts \in Seq(MountSpecs)
  OBVIOUS
<1>4. Len(pod.containers) \in Nat /\ Len(pod.volumes) \in Nat
  <2> HIDE DEF containers, volumes
  <2> QED BY <1>1
<1> HIDE DEF containers
<1> QED BY <1>2, <1>3, <1>4

Writes(mount) == mount.readOnly # "true"

\* A mount, not read-only, up to which all those not read-only have a name.
Reached(mounts, m) ==
    Writes(mounts[m]) /\ \A k \in 1..m : Writes(mounts[k]) => mounts[k].name # "nil"

AllNamed(mounts, n) == \A m \in 1..n : Writes(mounts[m]) => mounts[m].name # "nil"

\* The function NamesOfMounts is defined by.
AreNames(g, mounts, readOnly) ==
    g = [i \in 0..Len(mounts) |->
           IF i = 0 THEN << >>
           ELSE IF mounts[i].readOnly \in readOnly THEN Append(g[i - 1], mounts[i].name)
           ELSE g[i - 1]]

LEMMA NamesExist ==
  ASSUME NEW mounts \in Seq(MountSpecs), NEW readOnly
  PROVE  \E g : AreNames(g, mounts, readOnly)
<1> DEFINE n == Len(mounts)
           V == Seq(Texts)
           More(i, x) == IF mounts[i].readOnly \in readOnly THEN Append(x, mounts[i].name)
                         ELSE x
           step == [i \in 1..n |-> [x \in V |-> More(i, x)]]
<1>1. n \in Nat /\ << >> \in V
  OBVIOUS
<1>2. ASSUME NEW i \in 1..n, NEW x \in V PROVE More(i, x) \in V
  <2>1. mounts[i] \in MountSpecs
    OBVIOUS
  <2>2. mounts[i].name \in Texts
    BY <2>1 DEF MountSpecs, Texts
  <2>3. Append(x, mounts[i].name) \in V
    BY <2>2
  <2> HIDE DEF V
  <2> QED BY <2>3
<1>3. \A i \in 1..n : \A x \in V : step[i][x] = More(i, x)
  OBVIOUS
<1> HIDE DEF n, V, More, step
<1>4. Steps(V, n, step)
  BY <1>2, <1>3 DEF Steps
<1>5. PICK g \in [0..n -> V] : g[0] = << >> /\ \A i \in 1..n : g[i] = step[i][g[i - 1]]
  BY <1>1, <1>4, Iterated
<1>6. \A i \in 0..n : g[i] = IF i = 0 THEN << >> ELSE More(i, g[i - 1])
  <2>1. \A i \in 0..n : i # 0 => i \in 1..n /\ i - 1 \in 0..n
    BY <1>1
  <2> QED BY <1>3, <1>5, <2>1
<1>7. g = [i \in 0..n |-> IF i = 0 THEN << >> ELSE More(i, g[i - 1])]
  BY <1>5, <1>6
<1> QED BY <1>7 DEF AreNames, More, n

\* What the names of the mounts of a container, not read-only, collect.
LEMMA NamesOfMountsCollected ==
  ASSUME NEW mounts \in Seq(MountSpecs)
  PROVE  LET s == NamesOfMounts(mounts, {"unset", "false"})
         IN  /\ s \in Seq(Texts)
             /\ Clean(s) <=> AllNamed(mounts, Len(mounts))
             /\ \A y : y \in Collected(s) <=>
                         \E m \in 1..Len(mounts) : Reached(mounts, m) /\ mounts[m].name = y
<1> DEFINE n == Len(mounts)
           ro == {"unset", "false"}
<1>1. n \in Nat
  OBVIOUS
<1>2. ASSUME NEW m \in 1..n
      PROVE  /\ mounts[m].name \in Texts /\ mounts[m].name # "error"
             /\ mounts[m].readOnly \in ro <=> Writes(mounts[m])
  <2>1. mounts[m] \in MountSpecs
    OBVIOUS
  <2> QED BY <2>1 DEF MountSpecs, Writes, Texts
<1>3. PICK g : g = CHOOSE x : AreNames(x, mounts, ro)
  OBVIOUS
<1>4. AreNames(g, mounts, ro)
  BY <1>3, NamesExist
<1>5. NamesOfMounts(mounts, ro) = g[n]
  BY <1>3 DEF NamesOfMounts, AreNames
<1>6. g[0] = << >>
  BY <1>1, <1>4 DEF AreNames
<1>7. ASSUME NEW i \in Nat, i + 1 <= n
      PROVE  g[i + 1] = IF Writes(mounts[i + 1]) THEN Append(g[i], mounts[i + 1].name)
                        ELSE g[i]
  <2>1. i + 1 \in 0..n /\ i + 1 # 0 /\ (i + 1) - 1 = i /\ i + 1 \in 1..n
    BY <1>1, <1>7
  <2>2. g[i + 1] = IF mounts[i + 1].readOnly \in ro
                   THEN Append(g[(i + 1) - 1], mounts[i + 1].name)
                   ELSE g[(i + 1) - 1]
    BY <1>4, <2>1 DEF AreNames
  <2> HIDE DEF ro
  <2> QED BY <1>2, <2>1, <2>2
<1> DEFINE At(i) == /\ g[i] \in Seq(Texts)
                    /\ Clean(g[i]) <=> AllNamed(mounts, i)
                    /\ \A y : y \in Collected(g[i]) <=>
                                \E m \in 1..i : Reached(mounts, m) /\ mounts[m].name = y
           T == {i \in Nat : i <= n => At(i)}
<1>8. At(0)
  BY <1>6, CollectedNone DEF AllNamed
<1>9. ASSUME NEW i \in Nat, At(i), i + 1 <= n PROVE At(i + 1)
  <2> DEFINE x == mounts[i + 1].name
  <2>1. i + 1 \in 1..n /\ x \in Texts /\ x # "error"
        /\ \A m : m \in 1..(i + 1) <=> m \in 1..i \/ m = i + 1
    <3>1. i + 1 \in 1..n
      BY <1>1, <1>9
    <3> QED BY <1>2, <3>1
  <2>2. AllNamed(mounts, i + 1) <=>
           AllNamed(mounts, i) /\ (Writes(mounts[i + 1]) => x # "nil")
    BY <2>1 DEF AllNamed
  <2>3. Reached(mounts, i + 1) <=> Writes(mounts[i + 1]) /\ AllNamed(mounts, i + 1)
    BY DEF Reached, AllNamed
  <2>4. CASE ~Writes(mounts[i + 1])
    <3>1. g[i + 1] = g[i]
      BY <1>7, <1>9, <2>4
    <3>2. \A y : (\E m \in 1..(i + 1) : Reached(mounts, m) /\ mounts[m].name = y)
                 <=> \E m \in 1..i : Reached(mounts, m) /\ mounts[m].name = y
      BY <2>1, <2>3, <2>4
    <3> QED BY <1>9, <2>2, <2>4, <3>1, <3>2
  <2>5. CASE Writes(mounts[i + 1])
    <3>1. g[i + 1] = g[i] \o <<x>>
      <4>1. g[i + 1] = Append(g[i], x)
        BY <1>7, <1>9, <2>5
      <4>2. Append(g[i], x) = g[i] \o <<x>>
        BY <1>9, <2>1
      <4> QED BY <4>1, <4>2
    <3>2. /\ g[i] \o <<x>> \in Seq(Texts)
          /\ Clean(g[i] \o <<x>>) <=> Clean(g[i]) /\ Clean(<<x>>)
          /\ \A y : y \in Collected(g[i] \o <<x>>) <=>
                       y \in Collected(g[i]) \/ (Clean(g[i]) /\ y \in Collected(<<x>>))
      <4> HIDE DEF x
      <4>1. <<x>> \in Seq(Texts)
        BY <2>1, CollectedOne
      <4> QED BY <1>9, <4>1, CollectedJoined
    <3>3. /\ Clean(<<x>>) <=> x # "nil"
          /\ \A y : y \in Collected(<<x>>) <=> y = x /\ x # "nil"
      <4> HIDE DEF x
      <4> QED BY <2>1, CollectedOne DEF Stops
    <3>4. Clean(g[i + 1]) <=> AllNamed(mounts, i + 1)
      BY <1>9, <2>2, <2>5, <3>1, <3>2, <3>3
    <3>5. ASSUME NEW y
          PROVE  y \in Collected(g[i + 1]) <=>
                   \E m \in 1..(i + 1) : Reached(mounts, m) /\ mounts[m].name = y
      <4>1. y \in Collected(g[i + 1]) <=>
               (\E m \in 1..i : Reached(mounts, m) /\ mounts[m].name = y)
               \/ (Clean(g[i]) /\ y = x /\ x # "nil")
        BY <1>9, <3>1, <3>2, <3>3
      <4>2. (Clean(g[i]) /\ y = x /\ x # "nil") <=> Reached(mounts, i + 1) /\ x = y
        BY <1>9, <2>2, <2>3, <2>5
      <4> HIDE DEF x
      <4> QED BY <2>1, <4>1, <4>2 DEF x
    <3> QED BY <3>1, <3>2, <3>4, <3>5
  <2> QED BY <2>4, <2>5
<1> HIDE DEF At
<1>10. Nat \subseteq T
  <2>1. 0 \in T
    BY <1>8
  <2>2. ASSUME NEW i \in Nat, i \in T PROVE i + 1 \in T
    <3>1. i + 1 <= n => i <= n
      BY <1>1
    <3> QED BY <1>9, <2>2, <3>1
  <2> HIDE DEF T
  <2> QED BY <2>1, <2>2, Reaches
<1>11. At(n)
  BY <1>1, <1>10
<1> QED BY <1>5, <1>11 DEF At

-----------------------------------------------------------------------------
(* The rule on hostPath volumes.                                             *)

\* The containers up to one, with volume mounts whose names all go through.
ClearTo(pod, i) ==
    \A j \in 1..i : /\ pod.containers[j].hasMounts
                    /\ AllNamed(pod.containers[j].mounts, Len(pod.containers[j].mounts))

\* A container's mount that the query comes to.
ComesTo(pod, j, m) ==
    /\ ClearTo(pod, j - 1) /\ pod.containers[j].hasMounts
    /\ Reached(pod.containers[j].mounts, m)

\* What a container adds to the stream.
LEMMA ContainerCollected ==
  ASSUME NEW c, c.hasMounts \in BOOLEAN, c.mounts \in Seq(MountSpecs)
  PROVE  LET s == MountsWithoutReadonly(c)
         IN  /\ s \in Seq(Texts)
             /\ Clean(s) <=> c.hasMounts /\ AllNamed(c.mounts, Len(c.mounts))
             /\ \A y : y \in Collected(s) <=>
                         c.hasMounts /\ \E m \in 1..Len(c.mounts) :
                                           Reached(c.mounts, m) /\ c.mounts[m].name = y
<1>1. CASE c.hasMounts
  <2>1. MountsWithoutReadonly(c) = NamesOfMounts(c.mounts, {"unset", "false"})
    BY <1>1 DEF MountsWithoutReadonly
  <2> QED BY <1>1, <2>1, NamesOfMountsCollected
<1>2. CASE ~c.hasMounts
  <2>1. MountsWithoutReadonly(c) = <<"error">>
    BY <1>2 DEF MountsWithoutReadonly
  <2>2. PICK x \in Texts : x = "error"
    BY DEF Texts, Stops
  <2>3. x \in Stops
    BY <2>2 DEF Stops
  <2>4. <<x>> \in Seq(Texts) /\ ~Clean(<<x>>) /\ \A y : y \notin Collected(<<x>>)
    BY <2>3, CollectedOne
  <2>5. MountsWithoutReadonly(c) = <<x>>
    BY <2>1, <2>2
  <2> QED BY <1>2, <2>4, <2>5
<1> QED BY <1>1, <1>2

\* The function NamesOfVolumeMountsWithoutReadonly is defined by.
AreStreams(g, pod) ==
    g = [i \in 0..Len(pod.containers) |->
           IF i = 0 THEN << >> ELSE g[i - 1] \o MountsWithoutReadonly(pod.containers[i])]

LEMMA StreamsExist ==
  ASSUME NEW pod \in PodSpecs
  PROVE  \E g : AreStreams(g, pod)
<1> DEFINE n == Len(pod.containers)
           V == Seq(Texts)
           More(i, x) == x \o MountsWithoutReadonly(pod.containers[i])
           step == [i \in 1..n |-> [x \in V |-> More(i, x)]]
<1>1. n \in Nat /\ << >> \in V
  BY PodTyped
<1>2. ASSUME NEW i \in 1..n, NEW x \in V PROVE More(i, x) \in V
  <2>1. MountsWithoutReadonly(pod.containers[i]) \in Seq(Texts)
    BY PodTyped, ContainerCollected
  <2> QED BY <2>1
<1>3. \A i \in 1..n : \A x \in V : step[i][x] = More(i, x)
  OBVIOUS
<1> HIDE DEF n, V, More, step
<1>4. Steps(V, n, step)
  BY <1>2, <1>3 DEF Steps
<1>5. PICK g \in [0..n -> V] : g[0] = << >> /\ \A i \in 1..n : g[i] = step[i][g[i - 1]]
  BY <1>1, <1>4, Iterated
<1>6. \A i \in 0..n : g[i] = IF i = 0 THEN << >> ELSE More(i, g[i - 1])
  <2>1. \A i \in 0..n : i # 0 => i \in 1..n /\ i - 1 \in 0..n
    BY <1>1
  <2> QED BY <1>3, <1>5, <2>1
<1>7. g = [i \in 0..n |-> IF i = 0 THEN << >> ELSE More(i, g[i - 1])]
  BY <1>5, <1>6
<1> QED BY <1>7 DEF AreStreams, More, n

\* What the query collects: the names of the mounts it comes to.
LEMMA PodCollected ==
  ASSUME NEW pod \in PodSpecs
  PROVE  \A y : y \in NamesOfVolumeMountsWithoutReadonly(pod) <=>
            \E i \in 1..Len(pod.containers) : \E m \in 1..Len(pod.containers[i].mounts) :
               ComesTo(pod, i, m) /\ pod.containers[i].mounts[m].name = y
<1> DEFINE n == Len(pod.containers)
           mounts(i) == pod.containers[i].mounts
<1>1. n \in Nat
  BY PodTyped
<1>2. PICK g : g = CHOOSE x : AreStreams(x, pod)
  OBVIOUS
<1>3. AreStreams(g, pod)
  BY <1>2, StreamsExist
<1>4. NamesOfVolumeMountsWithoutReadonly(pod) = Collected(g[n])
  BY <1>2 DEF NamesOfVolumeMountsWithoutReadonly, AreStreams
<1>5. g[0] = << >>
  BY <1>1, <1>3 DEF AreStreams
<1>6. ASSUME NEW i \in Nat, i + 1 <= n
      PROVE  g[i + 1] = g[i] \o MountsWithoutReadonly(pod.containers[i + 1])
  <2>1. i + 1 \in 0..n /\ i + 1 # 0 /\ (i + 1) - 1 = i
    BY <1>1, <1>6
  <2>2. g[i + 1] = g[(i + 1) - 1] \o MountsWithoutReadonly(pod.containers[i + 1])
    BY <1>3, <2>1 DEF AreStreams
  <2> QED BY <2>1, <2>2
<1> DEFINE At(i) == /\ g[i] \in Seq(Texts)
                    /\ Clean(g[i]) <=> ClearTo(pod, i)
                    /\ \A y : y \in Collected(g[i]) <=>
                                \E j \in 1..i : \E m \in 1..Len(mounts(j)) :
                                   ComesTo(pod, j, m) /\ mounts(j)[m].name = y
           T == {i \in Nat : i <= n => At(i)}
<1>7. At(0)
  BY <1>5, CollectedNone DEF ClearTo
<1>8. ASSUME NEW i \in Nat, At(i), i + 1 <= n PROVE At(i + 1)
  <2> DEFINE c == pod.containers[i + 1]
             s == MountsWithoutReadonly(c)
  <2>1. i + 1 \in 1..n /\ (i + 1) - 1 = i
        /\ \A j : j \in 1..(i + 1) <=> j \in 1..i \/ j = i + 1
    BY <1>1, <1>8
  <2>2. c.hasMounts \in BOOLEAN /\ c.mounts \in Seq(MountSpecs)
    BY <2>1, PodTyped
  <2>3. /\ s \in Seq(Texts)
        /\ Clean(s) <=> c.hasMounts /\ AllNamed(c.mounts, Len(c.mounts))
        /\ \A y : y \in Collected(s) <=>
                    c.hasMounts /\ \E m \in 1..Len(c.mounts) :
                                      Reached(c.mounts, m) /\ c.mounts[m].name = y
    BY <2>2, ContainerCollected
  <2>4. /\ g[i] \o s \in Seq(Texts)
        /\ Clean(g[i] \o s) <=> Clean(g[i]) /\ Clean(s)
        /\ \A y : y \in Collected(g[i] \o s) <=>
                     y \in Collected(g[i]) \/ (Clean(g[i]) /\ y \in Collected(s))
    <3> HIDE DEF s
    <3> QED BY <1>8, <2>3, CollectedJoined
  <2>5. g[i + 1] = g[i] \o s
    BY <1>6, <1>8
  <2>6. ClearTo(pod, i + 1) <=>
           ClearTo(pod, i) /\ c.hasMounts /\ AllNamed(c.mounts, Len(c.mounts))
    BY <2>1 DEF ClearTo
  <2>7. \A m : ComesTo(pod, i + 1, m) <=>
                 ClearTo(pod, i) /\ c.hasMounts /\ Reached(c.mounts, m)
    BY <2>1 DEF ComesTo
  <2> HIDE DEF s
  <2>8. Clean(g[i + 1]) <=> ClearTo(pod, i + 1)
    BY <1>8, <2>3, <2>4, <2>5, <2>6
  <2>9. ASSUME NEW y
        PROVE  y \in Collected(g[i + 1]) <=>
                 \E j \in 1..(i + 1) : \E m \in 1..Len(mounts(j)) :
                    ComesTo(pod, j, m) /\ mounts(j)[m].name = y
    <3>1. y \in Collected(g[i + 1]) <=>
             (\E j \in 1..i : \E m \in 1..Len(mounts(j)) :
                 ComesTo(pod, j, m) /\ mounts(j)[m].name = y)
             \/ \E m \in 1..Len(c.mounts) :
                   ClearTo(pod, i) /\ c.hasMounts /\ Reached(c.mounts, m)
                   /\ c.mounts[m].name = y
      BY <1>8, <2>3, <2>4, <2>5
    <3>2. c.mounts = mounts(i + 1)
      OBVIOUS
    <3> HIDE DEF c, mounts
    <3> QED BY <2>1, <2>7, <3>1, <3>2
  <2> QED BY <2>4, <2>5, <2>8, <2>9
<1> HIDE DEF At
<1>9. Nat \subseteq T
  <2>1. 0 \in T
    BY <1>7
  <2>2. ASSUME NEW i \in Nat, i \in T PROVE i + 1 \in T
    <3>1. i + 1 <= n => i <= n
      BY <1>1
    <3> QED BY <1>8, <2>2, <3>1
  <2> HIDE DEF T
  <2> QED BY <2>1, <2>2, Reaches
<1>10. At(n)
  BY <1>1, <1>9
<1> QED BY <1>4, <1>10 DEF At

LEMMA WritableMountsAre ==
  \A pod, x : x \in WritableMounts(pod) <=>
      \E i \in 1..Len(pod.containers) : \E m \in 1..Len(pod.containers[i].mounts) :
         x = <<i, m>> /\ Writes(pod.containers[i].mounts[m])
BY DEF WritableMounts, Writes

\* A mount that the query comes to, said of the pod alone.
LEMMA ComesToIs ==
  ASSUME NEW pod \in PodSpecs, NEW i \in 1..Len(pod.containers),
         NEW m \in 1..Len(pod.containers[i].mounts),
         pod.containers[i].mounts[m].name # "nil"
  PROVE  ComesTo(pod, i, m) <=>
            /\ <<i, m>> \in WritableMounts(pod)
            /\ \A j \in 1..i : pod.containers[j].hasMounts
            /\ \A x \in WritableMounts(pod) :
                  (x[1] < i \/ (x[1] = i /\ x[2] < m))
                  => pod.containers[x[1]].mounts[x[2]].name # "nil"
<1> DEFINE n == Len(pod.containers)
           mounts(j) == pod.containers[j].mounts
           Hidden(j, k) == Writes(mounts(j)[k]) /\ mounts(j)[k].name = "nil"
<1>1. n \in Nat /\ \A j \in 1..n : Len(mounts(j)) \in Nat
  BY PodTyped
<1>2. i \in Nat /\ m \in Nat
  BY <1>1
<1>3. <<i, m>> \in WritableMounts(pod) <=> Writes(mounts(i)[m])
  <2>1. ASSUME <<i, m>> \in WritableMounts(pod) PROVE Writes(mounts(i)[m])
    <3>1. PICK j \in 1..n : \E k \in 1..Len(mounts(j)) :
             <<i, m>> = <<j, k>> /\ Writes(mounts(j)[k])
      BY <2>1, WritableMountsAre
    <3> QED BY <3>1
  <2> QED BY <2>1, WritableMountsAre
<1>4. (\A x \in WritableMounts(pod) :
         (x[1] < i \/ (x[1] = i /\ x[2] < m)) => mounts(x[1])[x[2]].name # "nil")
      <=> \A j \in 1..n : \A k \in 1..Len(mounts(j)) :
             (j < i \/ (j = i /\ k < m)) => ~Hidden(j, k)
  <2>1. ASSUME NEW x \in WritableMounts(pod), x[1] < i \/ (x[1] = i /\ x[2] < m),
               \A j \in 1..n : \A k \in 1..Len(mounts(j)) :
                  (j < i \/ (j = i /\ k < m)) => ~Hidden(j, k)
        PROVE  mounts(x[1])[x[2]].name # "nil"
    <3>1. PICK j \in 1..n : \E k \in 1..Len(mounts(j)) :
             x = <<j, k>> /\ Writes(mounts(j)[k])
      BY WritableMountsAre
    <3>2. PICK k \in 1..Len(mounts(j)) : x = <<j, k>> /\ Writes(mounts(j)[k])
      BY <3>1
    <3>3. x[1] = j /\ x[2] = k
      BY <3>2
    <3> HIDE DEF mounts
    <3> QED BY <2>1, <3>2, <3>3
  <2>2. ASSUME \A x \in WritableMounts(pod) :
                  (x[1] < i \/ (x[1] = i /\ x[2] < m)) => mounts(x[1])[x[2]].name # "nil",
               NEW j \in 1..n, NEW k \in 1..Len(mounts(j)),
               j < i \/ (j = i /\ k < m), Hidden(j, k)
        PROVE  FALSE
    <3>1. <<j, k>> \in WritableMounts(pod)
      BY <2>2, WritableMountsAre
    <3>2. <<j, k>>[1] = j /\ <<j, k>>[2] = k
      OBVIOUS
    <3> HIDE DEF mounts
    <3> QED BY <2>2, <3>1, <3>2
  <2> HIDE DEF mounts, Hidden
  <2> QED BY <2>1, <2>2
<1>5. ComesTo(pod, i, m) <=>
         /\ \A j \in 1..(i - 1) : pod.containers[j].hasMounts
                                  /\ \A k \in 1..Len(mounts(j)) : ~Hidden(j, k)
         /\ pod.containers[i].hasMounts /\ Writes(mounts(i)[m])
         /\ \A k \in 1..m : ~Hidden(i, k)
  BY DEF ComesTo, ClearTo, AllNamed, Reached
<1>6. /\ \A j \in 1..i : j \in 1..n /\ (j \in 1..(i - 1) \/ j = i)
      /\ \A j \in 1..n : j < i <=> j \in 1..(i - 1)
      /\ \A k \in 1..m : k \in 1..Len(mounts(i)) /\ (k < m \/ k = m)
      /\ \A k \in 1..Len(mounts(i)) : k < m => k \in 1..m
      /\ i \in 1..i /\ \A j \in 1..(i - 1) : j \in 1..i /\ j \in 1..n
  BY <1>1, <1>2
<1>7. ~Hidden(i, m)
  OBVIOUS
<1> HIDE DEF n, mounts, Hidden
<1> QED BY <1>3, <1>4, <1>5, <1>6, <1>7 DEF mounts, n

\* The rule fails a pod, of which no hostPath volume lacks a name, for just that.
LEMMA HostPathRule ==
  ASSUME NEW pod \in PodSpecs, CustomKeyRule89(pod) # "panic"
  PROVE  CustomKeyRule89(pod) # "ok" <=> MountsHostPath(pod)
<1> DEFINE n == Len(pod.containers)
           mounts(j) == pod.containers[j].mounts
<1>1. "nil" \notin NamesOfVolumesWithHostPath(pod)
  BY DEF CustomKeyRule89
<1>2. CustomKeyRule89(pod) # "ok" <=>
         \E y \in NamesOfVolumesWithHostPath(pod) : y \in NamesOfVolumeMountsWithoutReadonly(pod)
  BY <1>1 DEF CustomKeyRule89
<1>3. \A y : y \in NamesOfVolumesWithHostPath(pod) <=>
               \E v \in 1..Len(pod.volumes) :
                  pod.volumes[v].hostPath /\ pod.volumes[v].name = y
  BY DEF NamesOfVolumesWithHostPath
<1>4. ASSUME CustomKeyRule89(pod) # "ok" PROVE MountsHostPath(pod)
  <2>1. PICK v \in 1..Len(pod.volumes) :
           /\ pod.volumes[v].hostPath /\ pod.volumes[v].name # "nil"
           /\ pod.volumes[v].name \in NamesOfVolumeMountsWithoutReadonly(pod)
    BY <1>1, <1>2, <1>3, <1>4
  <2>2. PICK i \in 1..n : \E m \in 1..Len(mounts(i)) :
           ComesTo(pod, i, m) /\ mounts(i)[m].name = pod.volumes[v].name
    BY <2>1, PodCollected
  <2>3. PICK m \in 1..Len(mounts(i)) :
           ComesTo(pod, i, m) /\ mounts(i)[m].name = pod.volumes[v].name
    BY <2>2
  <2>4. /\ <<i, m>> \in WritableMounts(pod)
        /\ \A j \in 1..i : pod.containers[j].hasMounts
        /\ \A x \in WritableMounts(pod) :
              (x[1] < i \/ (x[1] = i /\ x[2] < m))
              => pod.containers[x[1]].mounts[x[2]].name # "nil"
    BY <2>1, <2>3, ComesToIs
  <2> DEFINE w == <<i, m>>
  <2>5. w[1] = i /\ w[2] = m /\ w \in WritableMounts(pod)
    BY <2>4
  <2> HIDE DEF w
  <2> QED BY <2>1, <2>3, <2>4, <2>5 DEF MountsHostPath
<1>5. ASSUME MountsHostPath(pod) PROVE CustomKeyRule89(pod) # "ok"
  <2>1. PICK w \in WritableMounts(pod), v \in 1..Len(pod.volumes) :
           /\ pod.volumes[v].hostPath
           /\ pod.containers[w[1]].mounts[w[2]].name = pod.volumes[v].name
           /\ \A j \in 1..w[1] : pod.containers[j].hasMounts
           /\ \A x \in WritableMounts(pod) :
                 (x[1] < w[1] \/ (x[1] = w[1] /\ x[2] < w[2]))
                 => pod.containers[x[1]].mounts[x[2]].name # "nil"
    BY <1>5 DEF MountsHostPath
  <2>2. PICK i \in 1..n : \E m \in 1..Len(mounts(i)) : w = <<i, m>>
    BY WritableMountsAre
  <2>3. PICK m \in 1..Len(mounts(i)) : w = <<i, m>>
    BY <2>2
  <2>4. w[1] = i /\ w[2] = m
    BY <2>3
  <2>5. mounts(i)[m].name = pod.volumes[v].name /\ pod.volumes[v].name # "nil"
    BY <1>1, <1>3, <2>1, <2>4
  <2>6. ComesTo(pod, i, m)
    BY <2>1, <2>3, <2>4, <2>5, ComesToIs
  <2>7. pod.volumes[v].name \in NamesOfVolumeMountsWithoutReadonly(pod)
    BY <2>5, <2>6, PodCollected
  <2> QED BY <1>2, <1>3, <2>1, <2>7
<1> QED BY <1>4, <1>5

LEMMA HostPathFollows ==
  ASSUME IInv
  PROVE  HostPathMountsReported
<1> SUFFICES ASSUME status = "formatted", NEW n \in Names, NEW r \in Rules,
                    schemas[r].op = "key", schemas[r].key = "customKeyRule89"
             PROVE  <<n, r>> \in FailedPairs(failed) <=>
                      \E c \in Configs(n) :
                         /\ r \notin c.skipped /\ "customKeyRule89" \in DOMAIN c.data
                         /\ MountsHostPath(c.data.customKeyRule89)
  BY DEF HostPathMountsReported
<1>1. <<n, r>> \in FailedPairs(failed) <=> Violates(n, r)
  BY PairsTold
<1> DEFINE s == schemas[r]
<1>2. s \in Schemas
  BY SchemasTyped
<1>3. ASSUME NEW c \in Configs(n)
      PROVE  ~Holds(s, c.data) <=> /\ "customKeyRule89" \in DOMAIN c.data
                                   /\ MountsHostPath(c.data.customKeyRule89)
  <2>1. Holds(s, c.data) <=> KeyOutcome(s, c.data) = "ok"
    <3>1. PICK g : \A t \in Schemas : Holds(t, c.data) = g[t] /\ g[t] = HoldsFrom(t, g, c.data)
      BY HoldsAre
    <3>2. HoldsFrom(s, g, c.data) = (KeyOutcome(s, c.data) = "ok")
      BY DEF HoldsFrom
    <3> QED BY <1>2, <3>1, <3>2
  <2>2. KeyOutcome(s, c.data) # "panic"
    <3>1. Judged(s, c.data) = {s}
      BY <1>2, KeyJudged
    <3> QED BY <3>1, AllKept
  <2>3. CASE "customKeyRule89" \notin DOMAIN c.data
    BY <2>1, <2>3 DEF KeyOutcome
  <2>4. CASE "customKeyRule89" \in DOMAIN c.data
    <3>1. c.data["customKeyRule89"] \in PodSpecs
      BY <2>4, ConfigsIs, PodsAssumption DEF IInv, Cursor
    <3>2. KeyOutcome(s, c.data) = CustomKeyRule89(c.data["customKeyRule89"])
      BY <2>4 DEF KeyOutcome
    <3> QED BY <2>1, <2>2, <2>4, <3>1, <3>2, HostPathRule
  <2> QED BY <2>3, <2>4
<1> QED BY <1>1, <1>3 DEF Violates

-----------------------------------------------------------------------------
(* Printing.                                                                 *)

ReportOf(format) ==
    [format |-> format, entries |-> EntriesOf(format),
     failed |-> Headline(format).failed, skipped |-> Headline(format).skipped]

\* What was saved and printed is what was found.
Printing ==
    /\ printing \in {"no", "saved", "printed", "failed"}
    /\ printing # "no" => status = "formatted"
    /\ \A n \in DOMAIN invalid : invalid[n] # "policy"
    /\ saved.content = "new" => printing # "no" /\ saved.entries = StructuredEntries
    /\ printing # "printed" => report = NoReport
    /\ printing = "printed" => \E format \in Formats : report = ReportOf(format)

OInv == IInv /\ Printing

LEMMA SameEntries ==
  ASSUME UNCHANGED <<vars, invalid>>
  PROVE  /\ StructuredEntries' = StructuredEntries
         /\ \A format : ReportOf(format)' = ReportOf(format)
<1>1. input' = input /\ failed' = failed /\ summary' = summary
  BY DEF vars
<1>2. InvalidEntries' = InvalidEntries
  BY DEF InvalidEntries
<1>3. \A p : Occurrences(p)' = Occurrences(p)
  BY <1>1 DEF Occurrences
<1>4. StructuredEntries' = StructuredEntries
  <2>1. UNION {{Entry(p[1], "policy", p[2], o.occurrences, o.isSkipped) :
                  o \in Occurrences(p)'} : p \in Pairs(failed')}
        = UNION {{Entry(p[1], "policy", p[2], o.occurrences, o.isSkipped) :
                    o \in Occurrences(p)} : p \in Pairs(failed)}
    BY <1>1, <1>3
  <2> QED BY <1>2, <2>1 DEF StructuredEntries
<1>5. \A quiet : TextEntries(quiet)' = TextEntries(quiet)
  BY <1>1, <1>2 DEF TextEntries, PrinterWarnings
<1>6. \A n, r : JUnitCase(n, r)' = JUnitCase(n, r)
  BY <1>1, <1>3 DEF JUnitCase, AreAllOccurrencesSkipped
<1>7. JUnitEntries' = JUnitEntries
  BY <1>1, <1>2, <1>6 DEF JUnitEntries
<1>8. SarifEntries' = SarifEntries
  BY <1>1, <1>3 DEF SarifEntries
<1>9. \A format : EntriesOf(format)' = EntriesOf(format)
  BY <1>4, <1>5, <1>7, <1>8 DEF EntriesOf
<1>10. \A format : Headline(format)' = Headline(format)
  BY <1>1 DEF Headline
<1> QED BY <1>4, <1>9, <1>10 DEF ReportOf

LEMMA InitOInv ==
  ASSUME OutputInit
  PROVE  OInv
<1>1. IInv
  BY InitIInv DEF OutputInit
<1>2. Printing
  BY DEF OutputInit, Printing, OldSaved
<1> QED BY <1>1, <1>2 DEF OInv

\* The check is over before anything is saved.
LEMMA OverWhenPrinting ==
  ASSUME OInv, EvaluatorStep
  PROVE  printing = "no"
<1>1. status = "checking"
  BY DEF EvaluatorStep, Next, ExtractSkipAnnotations, CheckRule, NextConfig, NextFile, Format,
         InConfig, Checking
<1> QED BY <1>1 DEF OInv, Printing

LEMMA StepOInv ==
  ASSUME OInv, [OutputNext]_<<vars, outputVars>>
  PROVE  OInv'
<1>1. IInv'
  <2>1. [Next]_vars
    BY DEF OutputNext, EvaluatorStep, SaveLastResult, PrintResults
  <2> QED BY <2>1, StepIInv DEF OInv
<1>2. CASE EvaluatorStep
  <2>1. printing = "no" /\ UNCHANGED outputVars
    BY <1>2, OverWhenPrinting DEF EvaluatorStep
  <2>2. Printing'
    BY <2>1 DEF OInv, Printing, outputVars
  <2> QED BY <1>1, <2>2 DEF OInv
<1>3. CASE SaveLastResult
  <2>1. /\ status = "formatted" /\ printing = "no" /\ status' = status
        /\ invalid' \in Invalids /\ printing' = "saved" /\ report' = report
        /\ saved' \in {OldSaved, [content |-> "truncated", entries |-> {}],
                       [content |-> "new", entries |-> StructuredEntries']}
    BY <1>3 DEF SaveLastResult, vars
  <2>2. \A n \in DOMAIN invalid' : invalid'[n] # "policy"
    BY <2>1, InvalidsAssumption
  <2>3. saved'.content = "new" => saved'.entries = StructuredEntries'
    BY <2>1 DEF OldSaved
  <2>4. Printing'
    BY <2>1, <2>2, <2>3 DEF OInv, Printing
  <2> QED BY <1>1, <2>4 DEF OInv
<1>4. CASE PrintResults
  <2>1. printing = "saved" /\ UNCHANGED <<vars, invalid, saved>> /\ status' = status
    BY <1>4 DEF PrintResults, vars
  <2>2. StructuredEntries' = StructuredEntries
        /\ \A format : ReportOf(format)' = ReportOf(format)
    BY <2>1, SameEntries
  <2>5. \/ printing' = "printed" /\ \E format \in Formats : report' = ReportOf(format)
        \/ printing' = "failed" /\ report' = report
    BY <1>4 DEF PrintResults, ReportOf
  <2>6. Printing'
    BY <2>1, <2>2, <2>5 DEF OInv, Printing
  <2> QED BY <1>1, <2>6 DEF OInv
<1>5. CASE UNCHANGED <<vars, outputVars>>
  <2>1. UNCHANGED <<vars, invalid>> /\ UNCHANGED <<printing, saved, report>> /\ status' = status
    BY <1>5 DEF vars, outputVars
  <2>2. StructuredEntries' = StructuredEntries
        /\ \A format : ReportOf(format)' = ReportOf(format)
    BY <2>1, SameEntries
  <2>3. Printing'
    BY <2>1, <2>2 DEF OInv, Printing
  <2> QED BY <1>1, <2>3 DEF OInv
<1> QED BY <1>2, <1>3, <1>4, <1>5 DEF OutputNext

-----------------------------------------------------------------------------
(* What the entries tell.                                                    *)

LEMMA ToldIs ==
  \A entries, x : x \in Told(entries) <=>
      \E e \in entries : e.failure /\ ~e.skipped /\ x = <<e.file, e.part, e.rule>>
BY DEF Told

LEMMA ToldJoined ==
  \A a, b : Told(a \cup b) = Told(a) \cup Told(b)
<1>1. ASSUME NEW a, NEW b, NEW x
      PROVE  x \in Told(a \cup b) <=> x \in Told(a) \/ x \in Told(b)
  BY ToldIs
<1> QED BY <1>1

\* Entries of failures, and of what is skipped.
Failure(n, part, r) == Entry(n, part, r, TRUE, FALSE)
Skipping(n, part, r) == Entry(n, part, r, FALSE, TRUE)

LEMMA EntryFields ==
  ASSUME NEW n, NEW part, NEW r
  PROVE  LET e == Failure(n, part, r)
             s == Skipping(n, part, r)
         IN  /\ e.failure /\ ~e.skipped /\ e.file = n /\ e.part = part /\ e.rule = r
             /\ ~s.failure /\ s.skipped /\ s.file = n /\ s.part = part /\ s.rule = r
BY DEF Failure, Skipping, Entry

\* The triples themselves.
Triples(X) == {<<x[1], x[2], x[3]>> : x \in X}

\* Failures tell what they are about, and what is skipped nothing.
LEMMA FailuresTell ==
  ASSUME NEW X
  PROVE  /\ Told({Failure(x[1], x[2], x[3]) : x \in X}) = Triples(X)
         /\ Told({Skipping(x[1], x[2], x[3]) : x \in X}) = {}
<1> DEFINE F == {Failure(x[1], x[2], x[3]) : x \in X}
           S == {Skipping(x[1], x[2], x[3]) : x \in X}
<1>1. \A x \in X : LET e == Failure(x[1], x[2], x[3])
                   IN  e.failure /\ ~e.skipped
                       /\ <<e.file, e.part, e.rule>> = <<x[1], x[2], x[3]>>
  BY EntryFields
<1>2. \A x \in X : ~Skipping(x[1], x[2], x[3]).failure
  BY EntryFields
<1>3. (\A e : e \in F <=> \E x \in X : e = Failure(x[1], x[2], x[3]))
      /\ \A e : e \in S <=> \E x \in X : e = Skipping(x[1], x[2], x[3])
  OBVIOUS
<1> HIDE DEF F, S
<1>4. ASSUME NEW y PROVE y \in Told(F) <=> \E x \in X : y = <<x[1], x[2], x[3]>>
  <2>1. y \in Told(F) <=> \E e \in F : e.failure /\ ~e.skipped /\ y = <<e.file, e.part, e.rule>>
    BY ToldIs
  <2> QED BY <1>1, <1>3, <2>1
<1>5. ASSUME NEW y PROVE y \notin Told(S)
  <2>1. y \in Told(S) <=> \E e \in S : e.failure /\ ~e.skipped /\ y = <<e.file, e.part, e.rule>>
    BY ToldIs
  <2> QED BY <1>2, <1>3, <2>1
<1>6. Told(F) = Triples(X)
  BY <1>4 DEF Triples
<1>7. Told(S) = {}
  BY <1>5
<1> QED BY <1>6, <1>7 DEF F, S

LEMMA InvalidTold == Told(InvalidEntries) = InvalidItems
<1>1. InvalidEntries = {Failure(x[1], x[2], x[3]) : x \in InvalidItems}
  <2>1. InvalidEntries = {Failure(n, invalid[n], NoRule) : n \in DOMAIN invalid}
    BY DEF InvalidEntries, Failure
  <2>2. \A n : LET x == <<n, invalid[n], NoRule>>
               IN  x[1] = n /\ x[2] = invalid[n] /\ x[3] = NoRule
    OBVIOUS
  <2>3. ASSUME NEW e
        PROVE  (\E n \in DOMAIN invalid : e = Failure(n, invalid[n], NoRule))
               <=> \E x \in InvalidItems : e = Failure(x[1], x[2], x[3])
    <3>1. ASSUME NEW n \in DOMAIN invalid, e = Failure(n, invalid[n], NoRule)
          PROVE  \E x \in InvalidItems : e = Failure(x[1], x[2], x[3])
      <4>1. <<n, invalid[n], NoRule>> \in InvalidItems
        BY DEF InvalidItems
      <4> QED BY <2>2, <3>1, <4>1
    <3>2. ASSUME NEW x \in InvalidItems, e = Failure(x[1], x[2], x[3])
          PROVE  \E n \in DOMAIN invalid : e = Failure(n, invalid[n], NoRule)
      <4>1. PICK n \in DOMAIN invalid : x = <<n, invalid[n], NoRule>>
        BY DEF InvalidItems
      <4>2. x[1] = n /\ x[2] = invalid[n] /\ x[3] = NoRule
        BY <4>1
      <4> QED BY <3>2, <4>2
    <3> QED BY <3>1, <3>2
  <2> QED BY <2>1, <2>3
<1>2. InvalidItems = Triples(InvalidItems)
  BY DEF InvalidItems, Triples
<1> QED BY <1>1, <1>2, FailuresTell

\* The verdicts on some rules of some files.
Verdicts(P) == {<<p[1], "policy", p[2]>> : p \in P}

\* The entries of rules that failed tell them, those of skipped ones nothing.
LEMMA FailedTold ==
  ASSUME NEW P
  PROVE  /\ Told({Entry(p[1], "policy", p[2], TRUE, FALSE) : p \in P}) = Verdicts(P)
         /\ Told({Entry(p[1], "policy", p[2], FALSE, TRUE) : p \in P}) = {}
<1>1. \A p : LET x == <<p[1], "policy", p[2]>>
             IN  x[1] = p[1] /\ x[2] = "policy" /\ x[3] = p[2]
  OBVIOUS
<1>2. {Entry(p[1], "policy", p[2], TRUE, FALSE) : p \in P}
      = {Failure(x[1], x[2], x[3]) : x \in Verdicts(P)}
  <2>1. {Entry(p[1], "policy", p[2], TRUE, FALSE) : p \in P}
        = {Failure(p[1], "policy", p[2]) : p \in P}
    BY DEF Failure
  <2>2. ASSUME NEW e
        PROVE  (\E p \in P : e = Failure(p[1], "policy", p[2]))
               <=> \E x \in Verdicts(P) : e = Failure(x[1], x[2], x[3])
    BY <1>1 DEF Verdicts
  <2> QED BY <2>1, <2>2
<1>3. {Entry(p[1], "policy", p[2], FALSE, TRUE) : p \in P}
      = {Skipping(x[1], x[2], x[3]) : x \in Verdicts(P)}
  <2>1. {Entry(p[1], "policy", p[2], FALSE, TRUE) : p \in P}
        = {Skipping(p[1], "policy", p[2]) : p \in P}
    BY DEF Skipping
  <2>2. ASSUME NEW e
        PROVE  (\E p \in P : e = Skipping(p[1], "policy", p[2]))
               <=> \E x \in Verdicts(P) : e = Skipping(x[1], x[2], x[3])
    BY <1>1 DEF Verdicts
  <2> QED BY <2>1, <2>2
<1>4. Verdicts(P) = Triples(Verdicts(P))
  BY DEF Verdicts, Triples
<1> QED BY <1>2, <1>3, <1>4, FailuresTell

LEMMA ViolatedAre ==
  ASSUME IInv, status = "formatted"
  PROVE  ViolatedItems = Verdicts(FailedPairs(failed))
BY FailedPairsAre DEF ViolatedItems, Verdicts

LEMMA TextTold ==
  ASSUME IInv, status = "formatted", NEW quiet
  PROVE  Told(TextEntries(quiet)) = InvalidItems \cup ViolatedItems
<1> DEFINE S == IF quiet THEN {} ELSE PrinterWarnings.skippedRules
           Skip == {Entry(p[1], "policy", p[2], FALSE, TRUE) : p \in S}
           Fail == {Entry(p[1], "policy", p[2], TRUE, FALSE) : p \in FailedPairs(failed)}
<1>1. TextEntries(quiet) = (InvalidEntries \cup Skip) \cup Fail
  <2>1. PrinterWarnings.failedRules = FailedPairs(failed)
    BY DEF PrinterWarnings
  <2> HIDE DEF S
  <2> QED BY <2>1 DEF TextEntries, S
<1>2. Told(Skip) = {} /\ Told(Fail) = Verdicts(FailedPairs(failed))
  <2> HIDE DEF S
  <2> QED BY FailedTold
<1> HIDE DEF Skip, Fail
<1>3. Told((InvalidEntries \cup Skip) \cup Fail)
      = Told(InvalidEntries \cup Skip) \cup Told(Fail)
  BY ToldJoined
<1>4. Told(InvalidEntries \cup Skip) = Told(InvalidEntries) \cup Told(Skip)
  BY ToldJoined
<1> QED BY <1>1, <1>2, <1>3, <1>4, InvalidTold, ViolatedAre

\* The occurrences of a pair, from the configurations.
LEMMA OccurrencesAre ==
  ASSUME IInv, status = "formatted", NEW n \in Names, NEW r \in Rules,
         <<n, r>> \in Pairs(failed)
  PROVE  Occurrences(<<n, r>>) =
           {Telling(schemas, c, r) : c \in {x \in Configs(n) : Tells(schemas, x, r)}}
<1>1. Occurrences(<<n, r>>) = Kept(failed, n, r)
  <2>1. <<n, r>>[1] = n /\ <<n, r>>[2] = r
    OBVIOUS
  <2> QED BY <2>1, PairsAre DEF Occurrences
<1> QED BY <1>1, AllKept

\* A pair has an occurrence of a violation, one that is not skipped, or both in one,
\* when some configuration gives it.
LEMMA OccurrencesTell ==
  ASSUME IInv, status = "formatted", NEW p \in Pairs(failed)
  PROVE  /\ p \in Names \X Rules
         /\ (\E o \in Occurrences(p) : o.occurrences /\ ~o.isSkipped) <=> Violates(p[1], p[2])
         /\ (\E o \in Occurrences(p) : ~o.isSkipped) <=> Violates(p[1], p[2])
         /\ (\E o \in Occurrences(p) : o.isSkipped) <=> Skips(p[1], p[2])
         /\ (\E o \in Occurrences(p) : o.occurrences) <=>
               \E c \in Configs(p[1]) : ~Holds(schemas[p[2]], c.data)
<1>1. p \in Names \X Rules
  BY DEF Pairs
<1>2. PICK n \in Names, r \in Rules : p = <<n, r>>
  BY <1>1
<1>3. p[1] = n /\ p[2] = r
  BY <1>2
<1>4. Occurrences(p) =
         {Telling(schemas, c, r) : c \in {x \in Configs(n) : Tells(schemas, x, r)}}
  BY <1>2, OccurrencesAre
<1>5. ASSUME NEW c
      PROVE  LET o == Telling(schemas, c, r)
             IN  /\ o.isSkipped <=> r \in c.skipped
                 /\ o.occurrences <=> ~Holds(schemas[r], c.data)
                 /\ Tells(schemas, c, r) <=> ~Holds(schemas[r], c.data) \/ r \in c.skipped
  <2>1. Telling(schemas, c, r).isSkipped <=> r \in c.skipped
    BY DEF Telling
  <2>2. Telling(schemas, c, r).occurrences <=> ~Holds(schemas[r], c.data)
    BY TellingFields
  <2>3. Tells(schemas, c, r) <=> ~Holds(schemas[r], c.data) \/ r \in c.skipped
    BY ErrorsMeanFailure, SchemasTyped DEF Tells
  <2> QED BY <2>1, <2>2, <2>3
<1>6. (\E o \in Occurrences(p) : o.occurrences /\ ~o.isSkipped) <=> Violates(n, r)
  BY <1>4, <1>5 DEF Violates
<1>7. (\E o \in Occurrences(p) : ~o.isSkipped) <=> Violates(n, r)
  BY <1>4, <1>5 DEF Violates
<1>8. (\E o \in Occurrences(p) : o.isSkipped) <=> Skips(n, r)
  BY <1>4, <1>5 DEF Skips
<1>9. (\E o \in Occurrences(p) : o.occurrences) <=>
         \E c \in Configs(n) : ~Holds(schemas[r], c.data)
  BY <1>4, <1>5
<1> QED BY <1>1, <1>3, <1>6, <1>7, <1>8, <1>9

\* A pair that violates, or that is not kept, is as FailedPairs says.
LEMMA FailedPairIs ==
  ASSUME IInv, status = "formatted", NEW p
  PROVE  p \in FailedPairs(failed) <=> p \in Pairs(failed) /\ Violates(p[1], p[2])
<1>1. p \in FailedPairs(failed) => p \in Pairs(failed) /\ Violates(p[1], p[2])
  BY FailedPairsAre DEF FailedPairs
<1>2. p \in Pairs(failed) => p \in Names \X Rules
  BY DEF Pairs
<1> QED BY <1>1, <1>2, FailedPairsAre

LEMMA StructuredTold ==
  ASSUME IInv, status = "formatted"
  PROVE  Told(StructuredEntries) = InvalidItems \cup ViolatedItems
<1> DEFINE E(p, o) == Entry(p[1], "policy", p[2], o.occurrences, o.isSkipped)
           All == UNION {{E(p, o) : o \in Occurrences(p)} : p \in Pairs(failed)}
<1>1. \A p, o : LET e == E(p, o)
                IN  /\ e.failure = o.occurrences /\ e.skipped = o.isSkipped
                    /\ <<e.file, e.part, e.rule>> = <<p[1], "policy", p[2]>>
  BY DEF Entry
<1>2. ASSUME NEW x PROVE x \in Told(All) <=> x \in Verdicts(FailedPairs(failed))
  <2>1. x \in Told(All) <=>
           \E p \in Pairs(failed) : \E o \in Occurrences(p) :
              LET e == E(p, o)
              IN  e.failure /\ ~e.skipped /\ x = <<e.file, e.part, e.rule>>
    <3>1. \A e : e \in All <=> \E p \in Pairs(failed) : \E o \in Occurrences(p) : e = E(p, o)
      OBVIOUS
    <3> HIDE DEF All, E
    <3> QED BY <3>1, ToldIs
  <2>2. x \in Told(All) <=>
           \E p \in Pairs(failed) : \E o \in Occurrences(p) :
              o.occurrences /\ ~o.isSkipped /\ x = <<p[1], "policy", p[2]>>
    <3> HIDE DEF All, E
    <3> QED BY <1>1, <2>1
  <2>3. x \in Told(All) <=>
           \E p \in Pairs(failed) : Violates(p[1], p[2]) /\ x = <<p[1], "policy", p[2]>>
    BY <2>2, OccurrencesTell
  <2> QED BY <2>3, FailedPairIs DEF Verdicts
<1>3. Told(All) = Verdicts(FailedPairs(failed))
  BY <1>2
<1>4. StructuredEntries = InvalidEntries \cup All
  BY DEF StructuredEntries
<1> HIDE DEF All
<1> QED BY <1>3, <1>4, ToldJoined, InvalidTold, ViolatedAre

LEMMA SarifTold ==
  ASSUME IInv, status = "formatted"
  PROVE  Told(SarifEntries) =
           {<<q[1], "policy", q[2]>> : q \in
              {p \in Names \X Rules : \E c \in Configs(p[1]) : ~Holds(schemas[p[2]], c.data)}}
<1> DEFINE P == {q \in Pairs(failed) : \E o \in Occurrences(q) : o.occurrences}
           Q == {p \in Names \X Rules : \E c \in Configs(p[1]) : ~Holds(schemas[p[2]], c.data)}
<1>1. ASSUME NEW p \in Pairs(failed) PROVE p \in P <=> p \in Q
  BY OccurrencesTell
<1>2. ASSUME NEW p \in Q PROVE p \in Pairs(failed)
  <2>1. PICK n \in Names, r \in Rules : p = <<n, r>>
    OBVIOUS
  <2>2. p[1] = n /\ p[2] = r
    BY <2>1
  <2>3. PICK c \in Configs(n) : ~Holds(schemas[r], c.data)
    BY <2>2
  <2>4. Tells(schemas, c, r)
    BY <2>3, ErrorsMeanFailure, SchemasTyped DEF Tells
  <2> QED BY <2>1, <2>4, PairsTold
<1>3. P = Q
  BY <1>1, <1>2
<1>4. Told(SarifEntries) = Verdicts(P)
  <2> HIDE DEF P
  <2> QED BY FailedTold DEF SarifEntries, P
<1> QED BY <1>3, <1>4 DEF Verdicts

\* The case of a rule of a file: one that found something fails, and is skipped
\* if nothing of it violates.
LEMMA CaseIs ==
  ASSUME IInv, status = "formatted", NEW n \in Names, NEW r \in Rules
  PROVE  LET e == JUnitCase(n, r)
         IN  /\ e.file = n /\ e.part = "policy" /\ e.rule = r
             /\ e.failure \in BOOLEAN /\ e.skipped \in BOOLEAN
             /\ e.failure <=> <<n, r>> \in Pairs(failed)
             /\ e.skipped <=> <<n, r>> \in Pairs(failed) /\ ~Violates(n, r)
<1> DEFINE p == <<n, r>>
           found == p \in Pairs(failed)
           e == JUnitCase(n, r)
<1>1. e.file = n /\ e.part = "policy" /\ e.rule = r
  BY DEF JUnitCase, Entry
<1>2. e.failure = found
  BY DEF JUnitCase, Entry
<1>3. e.skipped = (found /\ AreAllOccurrencesSkipped(p))
  BY DEF JUnitCase, Entry
<1>4. found => (AreAllOccurrencesSkipped(p) <=> ~Violates(n, r))
  <2>1. p[1] = n /\ p[2] = r
    OBVIOUS
  <2> QED BY <2>1, OccurrencesTell DEF AreAllOccurrencesSkipped
<1>5. AreAllOccurrencesSkipped(p) \in BOOLEAN
  BY DEF AreAllOccurrencesSkipped
<1> HIDE DEF e
<1>6. e.failure \in BOOLEAN /\ (e.failure <=> found)
  <2>1. e.failure \in BOOLEAN
    BY <1>2
  <2>2. e.failure <=> found
    BY <1>2
  <2> QED BY <2>1, <2>2
<1>7. e.skipped \in BOOLEAN
  BY <1>3
<1>8. e.skipped <=> found /\ ~Violates(n, r)
  BY <1>3, <1>4
<1> QED BY <1>1, <1>6, <1>7, <1>8 DEF e

\* The cases, of every file checked and every rule.
Cases == {JUnitCase(input[i].name, r) : i \in 1..Len(input), r \in Rules}

\* A pair that was kept has its case.
LEMMA CasesCover ==
  ASSUME IInv, status = "formatted", NEW e
  PROVE  e \in Cases <=> \E n \in Names : \E r \in Rules :
                            /\ \E i \in 1..Len(input) : input[i].name = n
                            /\ e = JUnitCase(n, r)
BY PlacesTyped DEF Cases, IInv

LEMMA PairsHaveFiles ==
  ASSUME IInv, status = "formatted", NEW n \in Names, NEW r \in Rules,
         <<n, r>> \in Pairs(failed)
  PROVE  \E i \in 1..Len(input) : input[i].name = n
<1>1. PICK c : c \in Configs(n)
  BY PairsTold
<1> QED BY <1>1, ConfigsIs

LEMMA JUnitTold ==
  ASSUME IInv, status = "formatted"
  PROVE  Told(JUnitEntries) = InvalidItems \cup ViolatedItems
<1>1. ASSUME NEW x, x \in Told(Cases) PROVE x \in Verdicts(FailedPairs(failed))
  <2>1. PICK e \in Cases : e.failure /\ ~e.skipped /\ x = <<e.file, e.part, e.rule>>
    BY <1>1, ToldIs
  <2>2. PICK n \in Names : \E r \in Rules : e = JUnitCase(n, r)
    BY CasesCover
  <2>3. PICK r \in Rules : e = JUnitCase(n, r)
    BY <2>2
  <2>4. <<n, r>> \in Pairs(failed) /\ Violates(n, r) /\ x = <<n, "policy", r>>
    BY <2>1, <2>3, CaseIs
  <2>5. <<n, r>> \in FailedPairs(failed)
    BY <2>4, PairsTold
  <2>6. <<n, r>>[1] = n /\ <<n, r>>[2] = r
    OBVIOUS
  <2> QED BY <2>4, <2>5, <2>6 DEF Verdicts
<1>2. ASSUME NEW p \in FailedPairs(failed) PROVE <<p[1], "policy", p[2]>> \in Told(Cases)
  <2>1. p \in Pairs(failed) /\ p \in Names \X Rules /\ Violates(p[1], p[2])
    BY FailedPairIs DEF Pairs
  <2>2. PICK n \in Names, r \in Rules : p = <<n, r>>
    BY <2>1
  <2>3. p[1] = n /\ p[2] = r
    BY <2>2
  <2>4. JUnitCase(n, r) \in Cases
    BY <2>1, <2>2, CasesCover, PairsHaveFiles
  <2> DEFINE e == JUnitCase(n, r)
  <2>5. e.file = n /\ e.part = "policy" /\ e.rule = r /\ e.failure /\ ~e.skipped
    BY <2>1, <2>2, <2>3, CaseIs
  <2> HIDE DEF e
  <2> QED BY <2>3, <2>4, <2>5, ToldIs DEF e
<1>3. Told(Cases) = Verdicts(FailedPairs(failed))
  BY <1>1, <1>2 DEF Verdicts
<1>4. JUnitEntries = InvalidEntries \cup Cases
  BY DEF JUnitEntries, Cases
<1> QED BY <1>3, <1>4, ToldJoined, InvalidTold, ViolatedAre

-----------------------------------------------------------------------------
(* The reports.                                                              *)

\* Only the names of the files checked have something kept.
LEMMA PairsFinite ==
  ASSUME IInv, status = "formatted"
  PROVE  IsFiniteSet(FailedPairs(failed)) /\ IsFiniteSet(SkippedPairs(failed))
<1> DEFINE n == Len(input)
           D == {input[i].name : i \in 1..n}
           f == [i \in 1..n |-> input[i].name]
<1>1. n \in Nat
  BY PlacesTyped DEF IInv
<1>2. IsFiniteSet(1..n)
  BY <1>1, FS_Interval
<1>3. f \in Surjection(1..n, D)
  <2>1. f \in [1..n -> D] /\ \A d \in D : \E i \in 1..n : f[i] = d
    OBVIOUS
  <2> HIDE DEF f, D
  <2> QED BY <2>1 DEF Surjection
<1>4. IsFiniteSet(D)
  <2> HIDE DEF f, D, n
  <2> QED BY <1>2, <1>3, FS_Surjection
<1>5. ASSUME NEW p \in Pairs(failed) PROVE p \in D \X Rules
  <2>1. PICK m \in Names, r \in Rules : p = <<m, r>>
    BY DEF Pairs
  <2>2. m \in D
    BY <2>1, PairsHaveFiles
  <2> QED BY <2>1, <2>2
<1>6. FailedPairs(failed) \subseteq D \X Rules /\ SkippedPairs(failed) \subseteq D \X Rules
  BY <1>5 DEF FailedPairs, SkippedPairs
<1> HIDE DEF D
<1>7. IsFiniteSet(D \X Rules)
  BY <1>4, PoliciesAssumption, FS_Product
<1> QED BY <1>6, <1>7, FS_Subset

\* Something is told exactly when the exit status says so.
LEMMA VerdictTold ==
  ASSUME IInv, status = "formatted"
  PROVE  (InvalidItems \cup ViolatedItems # {}) <=> WereViolationsFound
<1>1. InvalidItems # {} <=> DOMAIN invalid # {}
  BY DEF InvalidItems
<1>2. ViolatedItems # {} <=> FailedPairs(failed) # {}
  BY ViolatedAre DEF Verdicts
<1>3. FailedPairs(failed) # {} <=> Cardinality(FailedPairs(failed)) # 0
  BY PairsFinite, FS_EmptySet
<1>4. Cardinality(FailedPairs(failed)) \in Nat
  BY PairsFinite, FS_CardinalityType
<1>5. summary.failedRules = Cardinality(FailedPairs(failed))
  BY SummaryIs
<1> QED BY <1>1, <1>2, <1>3, <1>4, <1>5 DEF WereViolationsFound

LEMMA EntriesTold ==
  ASSUME IInv, status = "formatted", NEW format \in Formats, format # "sarif"
  PROVE  Told(EntriesOf(format)) = InvalidItems \cup ViolatedItems
<1>1. format \in {"text", "quiet", "structured", "JUnit"}
  BY DEF Formats
<1>2. CASE format = "text"
  BY <1>2, TextTold DEF EntriesOf
<1>3. CASE format = "quiet"
  BY <1>3, TextTold DEF EntriesOf
<1>4. CASE format = "structured"
  BY <1>4, StructuredTold DEF EntriesOf
<1>5. CASE format = "JUnit"
  BY <1>5, JUnitTold DEF EntriesOf
<1> QED BY <1>1, <1>2, <1>3, <1>4, <1>5

LEMMA VerdictFollows ==
  ASSUME OInv
  PROVE  ReportsTellVerdict
<1>1. IInv /\ Printing
  BY DEF OInv
<1>2. ASSUME printing = "printed", report.format # "sarif"
      PROVE  /\ Told(report.entries) = InvalidItems \cup ViolatedItems
             /\ (Told(report.entries) # {}) <=> WereViolationsFound
  <2>1. status = "formatted"
    BY <1>1, <1>2 DEF Printing
  <2>2. PICK format \in Formats : report = ReportOf(format)
    BY <1>1, <1>2 DEF Printing
  <2>3. report.format = format /\ report.entries = EntriesOf(format)
    BY <2>2 DEF ReportOf
  <2>4. Told(report.entries) = InvalidItems \cup ViolatedItems
    BY <1>1, <1>2, <2>1, <2>3, EntriesTold
  <2> QED BY <1>1, <2>1, <2>4, VerdictTold
<1>3. ASSUME saved.content = "new"
      PROVE  Told(saved.entries) = InvalidItems \cup ViolatedItems
  <2>1. status = "formatted" /\ saved.entries = StructuredEntries
    BY <1>1, <1>3 DEF Printing
  <2> QED BY <1>1, <2>1, StructuredTold
<1>4. SarifTellsViolations
  <2> SUFFICES ASSUME printing = "printed", report.format = "sarif"
               PROVE  Told(report.entries) =
                        {<<q[1], "policy", q[2]>> : q \in
                           {p \in Names \X Rules :
                              \E c \in Configs(p[1]) : ~Holds(schemas[p[2]], c.data)}}
    BY DEF SarifTellsViolations
  <2>1. status = "formatted"
    BY <1>1 DEF Printing
  <2>2. PICK format \in Formats : report = ReportOf(format)
    BY <1>1 DEF Printing
  <2>3. report.format = format /\ report.entries = EntriesOf(format)
    BY <2>2 DEF ReportOf
  <2>4. report.entries = SarifEntries
    BY <2>3 DEF EntriesOf
  <2> QED BY <1>1, <2>1, <2>4, SarifTold
<1>5. FailuresTold
  BY <1>2, <1>3 DEF FailuresTold
<1> QED BY <1>4, <1>5 DEF ReportsTellVerdict

\* Entries that list the members of a set, each its own, are as many.
Lists(f, P, E) ==
    /\ \A p, q \in P : f[p] = f[q] => p = q
    /\ E = {f[p] : p \in P}

LEMMA ListedCount ==
  ASSUME NEW P, IsFiniteSet(P), NEW f, NEW E, Lists(f, P, E)
  PROVE  Cardinality(E) = Cardinality(P)
<1> DEFINE g == [p \in P |-> f[p]]
<1>1. g \in [P -> E] /\ (\A p, q \in P : g[p] = g[q] => p = q)
      /\ \A e \in E : \E p \in P : g[p] = e
  BY DEF Lists
<1> HIDE DEF g
<1>2. g \in Bijection(P, E)
  BY <1>1 DEF Bijection, Injection, Surjection, IsInjective
<1>3. ExistsBijection(P, E)
  BY <1>2 DEF ExistsBijection
<1> QED BY <1>3, FS_Bijection

\* Entries of rules of files, one for each, with the file and the rule as told.
EntriesFor(f, P, E) ==
    /\ P \subseteq Names \X Rules
    /\ \A p \in P : f[p].file = p[1] /\ f[p].rule = p[2]
    /\ E = {f[p] : p \in P}

LEMMA EntriesListed ==
  ASSUME NEW P, IsFiniteSet(P), NEW f, NEW E, EntriesFor(f, P, E)
  PROVE  Cardinality(E) = Cardinality(P)
<1>1. ASSUME NEW p \in P, NEW q \in P, f[p] = f[q] PROVE p = q
  <2>1. p[1] = q[1] /\ p[2] = q[2]
    BY <1>1 DEF EntriesFor
  <2>2. p \in Names \X Rules /\ q \in Names \X Rules
    BY DEF EntriesFor
  <2> QED BY <2>1, <2>2
<1>2. Lists(f, P, E)
  BY <1>1 DEF Lists, EntriesFor
<1> QED BY <1>2, ListedCount

LEMMA EntryValues ==
  \A n, part, r :
     /\ Failure(n, part, r).failure = TRUE /\ Failure(n, part, r).skipped = FALSE
     /\ Skipping(n, part, r).failure = FALSE /\ Skipping(n, part, r).skipped = TRUE
     /\ Failure(n, part, r).part = part /\ Skipping(n, part, r).part = part
     /\ Failure(n, part, r).file = n /\ Failure(n, part, r).rule = r
     /\ Skipping(n, part, r).file = n /\ Skipping(n, part, r).rule = r
BY DEF Failure, Skipping, Entry

\* The entries that PolicyEntries counts.
Flagged(E, failure, skipped) ==
    {e \in E : e.part = "policy" /\ e.failure = failure /\ e.skipped = skipped}

LEMMA TextCounts ==
  ASSUME OInv, status = "formatted", NEW quiet
  PROVE  /\ Cardinality(Flagged(TextEntries(quiet), TRUE, FALSE))
              = Cardinality(FailedPairs(failed))
         /\ ~quiet => Cardinality(Flagged(TextEntries(quiet), FALSE, TRUE))
                        = Cardinality(SkippedPairs(failed))
<1> DEFINE S == IF quiet THEN {} ELSE SkippedPairs(failed)
           F == FailedPairs(failed)
           fail == [p \in F |-> Failure(p[1], "policy", p[2])]
           skip == [p \in S |-> Skipping(p[1], "policy", p[2])]
           Files == {Failure(n, invalid[n], NoRule) : n \in DOMAIN invalid}
<1>1. TextEntries(quiet) = (Files \cup {skip[p] : p \in S}) \cup {fail[p] : p \in F}
  <2>1. /\ PrinterWarnings.failedRules = F
        /\ PrinterWarnings.skippedRules = SkippedPairs(failed)
    BY DEF PrinterWarnings
  <2>2. {skip[p] : p \in S} = {Entry(p[1], "policy", p[2], FALSE, TRUE) : p \in S}
    <3> HIDE DEF S
    <3> QED BY DEF Skipping
  <2>3. {fail[p] : p \in F} = {Entry(p[1], "policy", p[2], TRUE, FALSE) : p \in F}
    BY DEF Failure
  <2>4. Files = InvalidEntries
    BY DEF InvalidEntries, Failure
  <2>5. S = IF quiet THEN {} ELSE PrinterWarnings.skippedRules
    BY <2>1
  <2> HIDE DEF S, F, fail, skip, Files
  <2>6. TextEntries(quiet)
        = (InvalidEntries \cup {Entry(p[1], "policy", p[2], FALSE, TRUE) : p \in S})
          \cup {Entry(p[1], "policy", p[2], TRUE, FALSE) : p \in F}
    BY <2>1, <2>5 DEF TextEntries
  <2> QED BY <2>2, <2>3, <2>4, <2>6
<1>2. \A e \in Files : e.part # "policy"
  BY EntryValues DEF OInv, Printing
<1>3. \A p \in F : /\ fail[p].part = "policy" /\ fail[p].failure = TRUE
                   /\ fail[p].skipped = FALSE /\ fail[p].file = p[1] /\ fail[p].rule = p[2]
  BY EntryValues
<1>4. \A p \in S : /\ skip[p].part = "policy" /\ skip[p].failure = FALSE
                   /\ skip[p].skipped = TRUE /\ skip[p].file = p[1] /\ skip[p].rule = p[2]
  <2> HIDE DEF S
  <2> QED BY EntryValues
<1>5. IsFiniteSet(F) /\ IsFiniteSet(SkippedPairs(failed))
      /\ F \subseteq Names \X Rules /\ SkippedPairs(failed) \subseteq Names \X Rules
  BY PairsFinite DEF FailedPairs, SkippedPairs, Pairs, OInv
<1>6. ~quiet => S = SkippedPairs(failed)
  OBVIOUS
<1> HIDE DEF S, F, fail, skip, Files
<1>7. Flagged(TextEntries(quiet), TRUE, FALSE) = {fail[p] : p \in F}
  BY <1>1, <1>2, <1>3, <1>4 DEF Flagged
<1>8. Flagged(TextEntries(quiet), FALSE, TRUE) = {skip[p] : p \in S}
  BY <1>1, <1>2, <1>3, <1>4 DEF Flagged
<1>9. Cardinality(Flagged(TextEntries(quiet), TRUE, FALSE)) = Cardinality(F)
  <2>1. EntriesFor(fail, F, Flagged(TextEntries(quiet), TRUE, FALSE))
    BY <1>3, <1>5, <1>7 DEF EntriesFor
  <2> QED BY <1>5, <2>1, EntriesListed
<1>10. ASSUME ~quiet
       PROVE  Cardinality(Flagged(TextEntries(quiet), FALSE, TRUE))
                = Cardinality(SkippedPairs(failed))
  <2>1. S = SkippedPairs(failed)
    BY <1>6, <1>10
  <2>2. EntriesFor(skip, S, Flagged(TextEntries(quiet), FALSE, TRUE))
    BY <1>4, <1>5, <1>8, <2>1 DEF EntriesFor
  <2>3. IsFiniteSet(S)
    BY <1>5, <2>1
  <2>4. Cardinality(Flagged(TextEntries(quiet), FALSE, TRUE)) = Cardinality(S)
    BY <2>2, <2>3, EntriesListed
  <2> QED BY <2>1, <2>4
<1> QED BY <1>9, <1>10 DEF F

\* What is kept of a rule and does not violate was skipped.
LEMMA KeptIs ==
  ASSUME IInv, status = "formatted"
  PROVE  /\ Pairs(failed) = FailedPairs(failed) \cup SkippedPairs(failed)
         /\ \A p \in Pairs(failed) : p \in FailedPairs(failed) <=> Violates(p[1], p[2])
<1>1. ASSUME NEW p \in Pairs(failed) PROVE p \in FailedPairs(failed) \cup SkippedPairs(failed)
  <2>1. PICK n \in Names, r \in Rules : p = <<n, r>>
    BY DEF Pairs
  <2>2. PICK c \in Configs(n) : Tells(schemas, c, r)
    BY <2>1, PairsTold
  <2>3. ~Holds(schemas[r], c.data) \/ r \in c.skipped
    BY <2>2, ErrorsMeanFailure, SchemasTyped DEF Tells
  <2>4. Violates(n, r) \/ Skips(n, r)
    BY <2>3 DEF Violates, Skips
  <2> QED BY <2>1, <2>4, PairsTold
<1>2. FailedPairs(failed) \subseteq Pairs(failed) /\ SkippedPairs(failed) \subseteq Pairs(failed)
  BY DEF FailedPairs, SkippedPairs
<1> QED BY <1>1, <1>2, FailedPairIs

LEMMA JUnitCounts ==
  ASSUME OInv, status = "formatted"
  PROVE  /\ Cardinality(Flagged(JUnitEntries, TRUE, FALSE)) = Cardinality(FailedPairs(failed))
         /\ Cardinality(SkippedPairs(failed))
              = Cardinality(Flagged(JUnitEntries, TRUE, TRUE)) + Cardinality(BothPairs)
<1> DEFINE F == FailedPairs(failed)
           S == SkippedPairs(failed) \ FailedPairs(failed)
           case == [p \in Names \X Rules |-> JUnitCase(p[1], p[2])]
           Files == {Failure(n, invalid[n], NoRule) : n \in DOMAIN invalid}
<1>1. IInv
  BY DEF OInv
<1>2. JUnitEntries = Files \cup Cases
  BY DEF JUnitEntries, Cases, InvalidEntries, Failure
<1>3. \A e \in Files : e.part # "policy"
  BY EntryValues DEF OInv, Printing
<1>4. ASSUME NEW p \in Names \X Rules
      PROVE  /\ case[p].file = p[1] /\ case[p].part = "policy" /\ case[p].rule = p[2]
             /\ case[p].failure = TRUE <=> p \in F \cup S
             /\ case[p].skipped = TRUE <=> p \in S
             /\ case[p].skipped = FALSE <=> p \notin S
  <2>1. PICK n \in Names, r \in Rules : p = <<n, r>>
    OBVIOUS
  <2>2. p[1] = n /\ p[2] = r
    BY <2>1
  <2> DEFINE e == JUnitCase(n, r)
  <2>3. /\ e.file = n /\ e.part = "policy" /\ e.rule = r
        /\ e.failure \in BOOLEAN /\ e.skipped \in BOOLEAN
        /\ e.failure <=> p \in Pairs(failed)
        /\ e.skipped <=> p \in Pairs(failed) /\ ~Violates(n, r)
    BY <1>1, <2>1, CaseIs
  <2>4. case[p] = e
    BY <2>2
  <2>5. (p \in Pairs(failed) <=> p \in F \cup S)
        /\ (p \in Pairs(failed) /\ ~Violates(n, r) <=> p \in S)
    BY <1>1, <2>2, KeptIs
  <2> HIDE DEF e, case, F, S
  <2>6. e.failure = TRUE <=> e.failure
    BY <2>3
  <2>7. e.skipped = TRUE <=> e.skipped
    BY <2>3
  <2>8. e.skipped = FALSE <=> ~e.skipped
    BY <2>3
  <2> QED BY <2>2, <2>3, <2>4, <2>5, <2>6, <2>7, <2>8
<1>5. F \subseteq Names \X Rules /\ S \subseteq Names \X Rules
  BY DEF FailedPairs, SkippedPairs, Pairs
<1>6. IsFiniteSet(F) /\ IsFiniteSet(SkippedPairs(failed)) /\ IsFiniteSet(S)
  <2>1. IsFiniteSet(F) /\ IsFiniteSet(SkippedPairs(failed))
    BY <1>1, PairsFinite
  <2> QED BY <2>1, FS_Difference
<1>7. \A p \in F \cup S : case[p] \in Cases
  <2> SUFFICES ASSUME NEW p \in F \cup S PROVE case[p] \in Cases
    OBVIOUS
  <2>1. p \in Pairs(failed)
    BY <1>1, KeptIs
  <2>2. PICK n \in Names, r \in Rules : p = <<n, r>>
    BY <2>1 DEF Pairs
  <2>3. p[1] = n /\ p[2] = r /\ p \in Names \X Rules
    BY <2>2
  <2>4. case[p] = JUnitCase(n, r)
    BY <2>3
  <2>5. \E i \in 1..Len(input) : input[i].name = n
    BY <1>1, <2>1, <2>2, PairsHaveFiles
  <2> QED BY <1>1, <2>4, <2>5, CasesCover
<1>8. \A e \in Cases : \E p \in Names \X Rules : e = case[p]
  <2> SUFFICES ASSUME NEW e \in Cases PROVE \E p \in Names \X Rules : e = case[p]
    OBVIOUS
  <2>1. PICK n \in Names : \E r \in Rules : e = JUnitCase(n, r)
    BY <1>1, CasesCover
  <2>2. PICK r \in Rules : e = JUnitCase(n, r)
    BY <2>1
  <2>3. <<n, r>> \in Names \X Rules /\ <<n, r>>[1] = n /\ <<n, r>>[2] = r
    OBVIOUS
  <2>4. e = case[<<n, r>>]
    BY <2>2, <2>3
  <2> QED BY <2>3, <2>4
<1>9. F \cap S = {}
  OBVIOUS
<1> HIDE DEF F, S, case, Files
<1>10. Flagged(JUnitEntries, TRUE, FALSE) = {case[p] : p \in F}
  <2>1. ASSUME NEW p \in F PROVE case[p] \in Flagged(JUnitEntries, TRUE, FALSE)
    BY <1>2, <1>4, <1>5, <1>7, <1>9 DEF Flagged
  <2>2. ASSUME NEW e \in Flagged(JUnitEntries, TRUE, FALSE) PROVE \E p \in F : e = case[p]
    <3>1. e \in Cases /\ e.failure = TRUE /\ e.skipped = FALSE
      BY <1>2, <1>3 DEF Flagged
    <3>2. PICK p \in Names \X Rules : e = case[p]
      BY <1>8, <3>1
    <3> QED BY <1>4, <3>1, <3>2
  <2> QED BY <2>1, <2>2
<1>11. Flagged(JUnitEntries, TRUE, TRUE) = {case[p] : p \in S}
  <2>1. ASSUME NEW p \in S PROVE case[p] \in Flagged(JUnitEntries, TRUE, TRUE)
    BY <1>2, <1>4, <1>5, <1>7 DEF Flagged
  <2>2. ASSUME NEW e \in Flagged(JUnitEntries, TRUE, TRUE) PROVE \E p \in S : e = case[p]
    <3>1. e \in Cases /\ e.skipped = TRUE
      BY <1>2, <1>3 DEF Flagged
    <3>2. PICK p \in Names \X Rules : e = case[p]
      BY <1>8, <3>1
    <3> QED BY <1>4, <3>1, <3>2
  <2> QED BY <2>1, <2>2
<1>12. /\ EntriesFor(case, F, Flagged(JUnitEntries, TRUE, FALSE))
       /\ EntriesFor(case, S, Flagged(JUnitEntries, TRUE, TRUE))
  BY <1>4, <1>5, <1>10, <1>11 DEF EntriesFor
<1>13. Cardinality(Flagged(JUnitEntries, TRUE, FALSE)) = Cardinality(F)
  BY <1>6, <1>12, EntriesListed
<1>14. Cardinality(Flagged(JUnitEntries, TRUE, TRUE)) = Cardinality(S)
  BY <1>6, <1>12, EntriesListed
<1>15. Cardinality(S) = Cardinality(SkippedPairs(failed)) - Cardinality(BothPairs)
  <2>1. SkippedPairs(failed) \cap FailedPairs(failed) = BothPairs
    BY DEF BothPairs
  <2> QED BY <1>6, <2>1, FS_Difference DEF S
<1>16. /\ Cardinality(SkippedPairs(failed)) \in Nat /\ Cardinality(BothPairs) \in Nat
  <2>1. BothPairs \in SUBSET F
    BY DEF BothPairs, F
  <2>2. IsFiniteSet(BothPairs)
    BY <1>6, <2>1, FS_Subset
  <2> QED BY <1>6, <2>2, FS_CardinalityType
<1>17. Cardinality(SkippedPairs(failed))
         = Cardinality(Flagged(JUnitEntries, TRUE, TRUE)) + Cardinality(BothPairs)
  <2> DEFINE x == Cardinality(SkippedPairs(failed))
             y == Cardinality(Flagged(JUnitEntries, TRUE, TRUE))
             z == Cardinality(BothPairs)
  <2>1. y = x - z /\ x \in Nat /\ z \in Nat
    BY <1>14, <1>15, <1>16
  <2> HIDE DEF x, y, z
  <2>2. x = y + z
    BY <2>1
  <2> QED BY <2>2 DEF x, y, z
<1> QED BY <1>13, <1>17 DEF F

LEMMA CountsMatch ==
  ASSUME OInv
  PROVE  CountsMatchEntries
<1>1. ASSUME report.format \in {"text", "quiet", "JUnit"}
      PROVE  status = "formatted" /\ report = ReportOf(report.format)
  <2>1. printing = "printed"
    BY <1>1 DEF OInv, Printing, NoReport
  <2>2. PICK format \in Formats : report = ReportOf(format)
    BY <2>1 DEF OInv, Printing
  <2>3. report.format = format
    BY <2>2 DEF ReportOf
  <2> QED BY <2>1, <2>2, <2>3 DEF OInv, Printing
<1>2. ASSUME report.format \in {"text", "quiet", "JUnit"}
      PROVE  /\ report.entries = EntriesOf(report.format)
             /\ report.failed = Cardinality(FailedPairs(failed))
             /\ report.skipped = Cardinality(SkippedPairs(failed))
  <2> DEFINE format == report.format
  <2>1. report = ReportOf(format) /\ format # "sarif"
    BY <1>1, <1>2
  <2> HIDE DEF format
  <2>2. /\ report.entries = EntriesOf(format)
        /\ report.failed = Headline(format).failed
        /\ report.skipped = Headline(format).skipped
    BY <2>1 DEF ReportOf
  <2>3. /\ Headline(format).failed = summary.failedRules
        /\ Headline(format).skipped = summary.skippedRules
    BY <2>1 DEF Headline
  <2> QED BY <1>1, <1>2, <2>2, <2>3, SummaryIs DEF OInv, format
<1>3. PolicyEntries(TRUE, FALSE) = Cardinality(Flagged(report.entries, TRUE, FALSE))
      /\ PolicyEntries(FALSE, TRUE) = Cardinality(Flagged(report.entries, FALSE, TRUE))
      /\ PolicyEntries(TRUE, TRUE) = Cardinality(Flagged(report.entries, TRUE, TRUE))
  BY DEF PolicyEntries, Flagged
<1>4. ASSUME report.format = "text"
      PROVE  /\ report.failed = PolicyEntries(TRUE, FALSE)
             /\ report.skipped = PolicyEntries(FALSE, TRUE)
  <2>1. report.entries = TextEntries(FALSE)
    BY <1>2, <1>4 DEF EntriesOf
  <2>2. status = "formatted"
    BY <1>1, <1>4
  <2> QED BY <1>2, <1>3, <1>4, <2>1, <2>2, TextCounts
<1>5. ASSUME report.format = "quiet" PROVE report.failed = PolicyEntries(TRUE, FALSE)
  <2>1. report.entries = TextEntries(TRUE)
    BY <1>2, <1>5 DEF EntriesOf
  <2>2. status = "formatted"
    BY <1>1, <1>5
  <2> QED BY <1>2, <1>3, <1>5, <2>1, <2>2, TextCounts
<1>6. ASSUME report.format = "JUnit"
      PROVE  /\ report.failed = PolicyEntries(TRUE, FALSE)
             /\ report.skipped = PolicyEntries(TRUE, TRUE) + Cardinality(BothPairs)
  <2>1. report.entries = JUnitEntries
    BY <1>2, <1>6 DEF EntriesOf
  <2>2. status = "formatted"
    BY <1>1, <1>6
  <2> QED BY <1>2, <1>3, <1>6, <2>1, <2>2, JUnitCounts
<1> QED BY <1>4, <1>5, <1>6 DEF CountsMatchEntries

-----------------------------------------------------------------------------
(* Type correctness.                                                         *)

\* The files that fail are no more than the files.
LEMMA FilesPassedTyped ==
  ASSUME IInv, status = "formatted"
  PROVE  summary.filesPassed \in 0..Len(input)
<1> DEFINE n == Len(input)
           D == {input[i].name : i \in 1..n}
           f == [i \in 1..n |-> input[i].name]
           F == FailedFiles(failed)
<1>1. n \in Nat
  BY PlacesTyped DEF IInv
<1>2. IsFiniteSet(1..n) /\ Cardinality(1..n) = n
  BY <1>1, FS_Interval, SMTT(30)
<1>3. f \in Surjection(1..n, D)
  <2>1. f \in [1..n -> D] /\ \A d \in D : \E i \in 1..n : f[i] = d
    OBVIOUS
  <2> HIDE DEF f, D
  <2> QED BY <2>1 DEF Surjection
<1>4. IsFiniteSet(D) /\ Cardinality(D) <= n
  <2> HIDE DEF f, D, n
  <2> QED BY <1>2, <1>3, FS_Surjection
<1>5. F \in SUBSET D
  <2>1. ASSUME NEW m \in F PROVE m \in D
    <3>1. PICK p \in FailedPairs(failed) : p[1] = m
      BY DEF FailedFiles
    <3>2. PICK k \in Names, r \in Rules : p = <<k, r>>
      BY <3>1 DEF FailedPairs, Pairs
    <3>3. p \in Pairs(failed) /\ k = m
      BY <3>1, <3>2 DEF FailedPairs
    <3> QED BY <3>2, <3>3, PairsHaveFiles
  <2> QED BY <2>1
<1>6. summary.filesPassed = n - Cardinality(F)
  BY SummaryIs
<1> HIDE DEF f, D, n, F
<1>7. IsFiniteSet(F) /\ Cardinality(F) <= Cardinality(D)
  BY <1>4, <1>5, FS_Subset
<1>8. Cardinality(F) \in Nat /\ Cardinality(D) \in Nat
  BY <1>4, <1>7, FS_CardinalityType
<1> QED BY <1>1, <1>4, <1>6, <1>7, <1>8 DEF n

LEMMA SummaryTyped ==
  ASSUME IInv
  PROVE  /\ summary.failedRules \in Nat /\ summary.skippedRules \in Nat
         /\ summary.passedRules \in Int /\ summary.filesPassed \in 0..Len(input)
<1>1. Len(input) \in Nat
  BY PlacesTyped DEF IInv
<1>2. CASE status # "formatted"
  BY <1>1, <1>2 DEF IInv, Counted, NoSummary
<1>3. CASE status = "formatted"
  <2>1. Cardinality(FailedPairs(failed)) \in Nat /\ Cardinality(SkippedPairs(failed)) \in Nat
        /\ Cardinality(Rules) \in Nat
    BY <1>3, PairsFinite, PoliciesAssumption, FS_CardinalityType
  <2>2. summary.failedRules \in Nat /\ summary.skippedRules \in Nat
    BY <1>3, <2>1, SummaryIs
  <2>3. summary.passedRules \in Int
    <3>1. CASE input = << >>
      BY <1>3, <3>1 DEF IInv, Counted, CountsOf, NoSummary
    <3>2. CASE input # << >>
      BY <1>1, <1>3, <2>1, <3>2 DEF IInv, Counted, CountsOf
    <3> QED BY <3>1, <3>2
  <2> QED BY <1>3, <2>2, <2>3, FilesPassedTyped
<1> QED BY <1>2, <1>3

LEMMA TypeFollows ==
  ASSUME IInv
  PROVE  TypeOK
<1>1. \A n \in DOMAIN failed :
         /\ n \in Names /\ DOMAIN failed[n] \subseteq Rules /\ DOMAIN failed[n] # {}
         /\ \A r \in DOMAIN failed[n] :
               /\ Len(failed[n][r]) > 0
               /\ \A i \in 1..Len(failed[n][r]) : failed[n][r][i] \in Occurrence
  <2>1. ASSUME NEW s \in Seq(Occurrence), s # << >>
        PROVE  Len(s) > 0 /\ \A i \in 1..Len(s) : s[i] \in Occurrence
    BY <2>1
  <2> QED BY <2>1 DEF IInv, Shaped
<1> QED BY <1>1, SummaryTyped DEF IInv, Cursor, TypeOK

-----------------------------------------------------------------------------
(* The theorems.                                                             *)

THEOREM Invariant == OutputSpec => []OInv
<1>1. OutputInit => OInv
  BY InitOInv
<1>2. OInv /\ [OutputNext]_<<vars, outputVars>> => OInv'
  BY StepOInv
<1> QED BY <1>1, <1>2, PTL DEF OutputSpec

\* Type correctness of the policy check.
THEOREM TypeCorrect == OutputSpec => []TypeOK
<1>1. OInv => TypeOK
  BY TypeFollows DEF OInv
<1> QED BY <1>1, Invariant, PTL

\* The summary counts, of every policy and every set of files, the rules violated
\* without a skip annotation, those skipped, and the files without a violation.
THEOREM Counts == OutputSpec => []CountsExact
<1>1. OInv => CountsExact
  BY CountsFollow DEF OInv
<1> QED BY <1>1, Invariant, PTL

\* A key that could not be judged, reached through any depth of allOf, has its rule
\* reported for the file, with the message of the key.
THEOREM BrokenTold == OutputSpec => []BrokenKeyTold
<1>1. OInv => BrokenKeyTold
  BY BrokenFollows DEF OInv
<1> QED BY <1>1, Invariant, PTL

\* customKeyRule89 fails for just the pods that mount a hostPath volume writable, for
\* any number of containers, mounts and volumes.
THEOREM HostPathsReported == OutputSpec => []HostPathMountsReported
<1>1. OInv => HostPathMountsReported
  BY HostPathFollows DEF OInv
<1> QED BY <1>1, Invariant, PTL

\* What is printed, and what is saved in CI, tells just what the files violate, and
\* something exactly when the exit status says so, but for the limits of SARIF.
THEOREM VerdictTells == OutputSpec => []ReportsTellVerdict
<1>1. OInv => ReportsTellVerdict
  BY VerdictFollows
<1> QED BY <1>1, Invariant, PTL

\* The counts printed beside the entries of a report are those of its entries.
THEOREM HeadlineCounts == OutputSpec => []CountsMatchEntries
<1>1. OInv => CountsMatchEntries
  BY CountsMatch
<1> QED BY <1>1, Invariant, PTL
=============================================================================
