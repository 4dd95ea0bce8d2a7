----------------------- MODULE DeploymentResultsProofs -----------------------
(***************************************************************************)
(* Theorems about DeploymentResults.                                       *)
(***************************************************************************)
EXTENDS DeploymentResults, FiniteSetTheorems, SequenceTheorems, WellFoundedInduction, TLAPS

-----------------------------------------------------------------------------
(* Numbers, lists and orders.  The induction theorems of the library take  *)
(* a predicate, which the provers do not find; the proofs below look at    *)
(* the least counterexample instead.                                       *)

\* A set of numbers has a least one.
LEMMA LeastNumber ==
    ASSUME NEW T, T \subseteq Nat, T # {}
    PROVE  \E x \in T : \A y \in T : x <= y
<1>1. PICK x \in T : \A y \in T : ~(<<y, x>> \in OpToRel(<, Nat))
  BY NatLessThanWellFounded, WFMin, Zenon
<1>2. \A y \in T : ~(y < x)
  BY <1>1, Zenon DEF OpToRel
<1> QED BY <1>2

\* The elements of a list are finitely many.
LEMMA ElementsFinite ==
    ASSUME NEW S, NEW s \in Seq(S)
    PROVE  IsFiniteSet(ToSet(s)) /\ IsFiniteSet(DOMAIN s) /\ ToSet(s) \subseteq S
<1>1. IsFiniteSet(1..Len(s)) /\ DOMAIN s = 1..Len(s) /\ s \in [1..Len(s) -> S]
  BY FS_Interval, LenProperties
<1>2. s \in Surjection(1..Len(s), ToSet(s))
  BY <1>1 DEF Surjection, ToSet
<1>3. IsFiniteSet(ToSet(s))
  BY <1>1, <1>2, FS_Surjection
<1> QED BY <1>1, <1>3 DEF ToSet

\* What a function makes of finitely many elements is finite.
LEMMA ImageFinite ==
    ASSUME NEW S, IsFiniteSet(S), NEW f
    PROVE  IsFiniteSet({f[x] : x \in S})
<1> DEFINE T == {f[x] : x \in S}
<1>1. [x \in S |-> f[x]] \in Surjection(S, T)
  BY DEF Surjection
<1> QED BY <1>1, FS_Surjection

\* A listing of a finite set has every element, once.
LEMMA Listing ==
    ASSUME NEW S, IsFiniteSet(S), NEW s \in SetToSeqs(S)
    PROVE  /\ Cardinality(S) \in Nat
           /\ DOMAIN s = 1..Cardinality(S) /\ Len(s) = Cardinality(S) /\ s \in Seq(S)
           /\ \A i, j \in DOMAIN s : s[i] = s[j] => i = j
           /\ ToSet(s) = S
<1> DEFINE D == 1..Cardinality(S)
<1>1. Cardinality(S) \in Nat
  BY FS_CardinalityType
<1>2. s \in [D -> S] /\ \A i, j \in D : i # j => s[i] # s[j]
  BY DEF SetToSeqs
<1>3. s \in Seq(S) /\ Len(s) = Cardinality(S) /\ DOMAIN s = D
  BY <1>1, <1>2
<1>4. s \in Injection(D, S)
  BY <1>2 DEF Injection, IsInjective
<1>5. Cardinality(D) = Cardinality(S)
  BY <1>1, FS_Interval
<1>6. s \in Surjection(D, S)
  BY <1>4, <1>5, FS_Injection
<1>7. ToSet(s) = S
  BY <1>2, <1>3, <1>6 DEF Surjection, ToSet
<1> QED BY <1>1, <1>2, <1>3, <1>7

\* A finite set can be listed in the order of any key.
LEMMA SortedListing ==
    ASSUME NEW S, IsFiniteSet(S), NEW key \in [S -> Nat]
    PROVE  \E s \in SetToSeqs(S) : \A i, j \in DOMAIN s : i < j => key[s[i]] <= key[s[j]]
<1> DEFINE Sorted(T, s) == \A i, j \in DOMAIN s : i < j => key[s[i]] <= key[s[j]]
           Subsets(n) == {T \in SUBSET S : Cardinality(T) = n}
           Bad == {n \in Nat : \E T \in Subsets(n) : ~ \E s \in SetToSeqs(T) : Sorted(T, s)}
<1>1. SUFFICES Bad = {}
  <2>1. Cardinality(S) \in Nat /\ S \in Subsets(Cardinality(S))
    BY FS_CardinalityType
  <2> QED BY <1>1, <2>1
<1>2. SUFFICES ASSUME Bad # {} PROVE FALSE
  OBVIOUS
<1>3. PICK n \in Bad : \A m \in Bad : n <= m
  <2>1. Bad \subseteq Nat
    OBVIOUS
  <2> HIDE DEF Bad
  <2> QED BY <1>2, <2>1, LeastNumber, Zenon
<1>4. PICK T \in Subsets(n) : ~ \E s \in SetToSeqs(T) : Sorted(T, s)
  BY <1>3
<1>5. /\ IsFiniteSet(T) /\ T \subseteq S /\ Cardinality(T) = n /\ n \in Nat
  BY <1>3, <1>4, FS_Subset
<1>6. T # {}
  <2> SUFFICES ASSUME T = {} PROVE FALSE
    OBVIOUS
  <2>1. Cardinality(T) = 0 /\ 1..0 = {}
    BY FS_EmptySet
  <2>2. << >> \in SetToSeqs(T) /\ Sorted(T, << >>)
    BY <2>1 DEF SetToSeqs
  <2> QED BY <1>4, <2>2
<1>7. PICK x \in T : \A y \in T : key[x] <= key[y]
  <2> DEFINE Keys == {key[y] : y \in T}
  <2>1. Keys \subseteq Nat /\ Keys # {}
    BY <1>5, <1>6
  <2>2. PICK k \in Keys : \A l \in Keys : k <= l
    <3> HIDE DEF Keys
    <3> QED BY <2>1, LeastNumber, Zenon
  <2> QED BY <2>2
<1> DEFINE U == T \ {x}
<1>8. /\ IsFiniteSet(U) /\ Cardinality(U) = n - 1 /\ U \subseteq S /\ n - 1 \in Nat
  <2>1. IsFiniteSet(U) /\ Cardinality(U) = n - 1
    BY <1>5, <1>7, FS_RemoveElement
  <2>2. Cardinality(U) \in Nat
    BY <2>1, FS_CardinalityType
  <2> QED BY <1>5, <2>1, <2>2
<1>9. PICK s \in SetToSeqs(U) : Sorted(U, s)
  <2>1. n - 1 \notin Bad
    BY <1>3, <1>5
  <2>2. U \in Subsets(n - 1)
    BY <1>8
  <2> QED BY <1>8, <2>1, <2>2
<1>10. /\ DOMAIN s = 1..(n - 1) /\ s \in [1..(n - 1) -> U]
       /\ \A i, j \in 1..(n - 1) : i # j => s[i] # s[j]
  BY <1>8, Zenon DEF SetToSeqs
<1> DEFINE t == [i \in 1..n |-> IF i = 1 THEN x ELSE s[i - 1]]
<1>11. \A i \in 1..n : i # 1 => i - 1 \in 1..(n - 1) /\ t[i] = s[i - 1] /\ t[i] \in U
  BY <1>5, <1>10
<1>12. t \in SetToSeqs(T)
  <2>1. t \in [1..n -> T] /\ t[1] = x
    BY <1>5, <1>7, <1>8, <1>11
  <2>2. ASSUME NEW i \in 1..n, NEW j \in 1..n, i # j, t[i] = t[j] PROVE FALSE
    <3>1. CASE i # 1 /\ j # 1
      <4>1. i - 1 # j - 1
        BY <1>5, <2>2
      <4> QED BY <1>10, <1>11, <2>2, <3>1, <4>1
    <3>2. CASE i = 1 \/ j = 1
      BY <1>11, <2>1, <2>2, <3>2
    <3> QED BY <3>1, <3>2
  <2> QED BY <1>5, <2>1, <2>2, Zenon DEF SetToSeqs
<1>13. Sorted(T, t)
  <2> SUFFICES ASSUME NEW i \in 1..n, NEW j \in 1..n, i < j PROVE key[t[i]] <= key[t[j]]
    OBVIOUS
  <2>1. CASE i = 1
    <3>1. j # 1 /\ t[i] = x /\ t[j] \in T
      BY <1>5, <1>11, <2>1
    <3> QED BY <1>7, <3>1
  <2>2. CASE i # 1
    <3>1. j # 1 /\ i - 1 < j - 1
      BY <1>5, <2>2
    <3> QED BY <1>9, <1>10, <1>11, <2>2, <3>1
  <2> QED BY <2>1, <2>2
<1> QED BY <1>4, <1>12, <1>13, Zenon

\* Two lists in the strict order of a field, with the same elements: the first
\* is a beginning of the second.
LEMMA StrictBeginning ==
    ASSUME NEW S, NEW s \in Seq(S), NEW t \in Seq(S), \A r \in S : r.header \in Nat,
           \A i, j \in DOMAIN s : i < j => s[i].header < s[j].header,
           \A i, j \in DOMAIN t : i < j => t[i].header < t[j].header,
           ToSet(s) = ToSet(t)
    PROVE  \A i \in DOMAIN s : i \in DOMAIN t /\ s[i] = t[i]
<1> DEFINE Bad == {i \in DOMAIN s : ~(i \in DOMAIN t /\ s[i] = t[i])}
<1> SUFFICES ASSUME Bad # {} PROVE FALSE
  OBVIOUS
<1>1. DOMAIN s = 1..Len(s) /\ DOMAIN t = 1..Len(t) /\ Len(s) \in Nat /\ Len(t) \in Nat
  BY LenProperties
<1>2. PICK i \in Bad : \A k \in Bad : i <= k
  <2>1. Bad \subseteq Nat
    BY <1>1
  <2> HIDE DEF Bad
  <2> QED BY <2>1, LeastNumber, Zenon
<1>3. \A k \in DOMAIN s : k < i => k \in DOMAIN t /\ s[k] = t[k]
  BY <1>1, <1>2
<1>4. (\A k \in DOMAIN s : s[k].header \in Nat) /\ (\A k \in DOMAIN t : t[k].header \in Nat)
  BY <1>1, ElementOfSeq
<1>5. PICK j \in DOMAIN t : s[i] = t[j]
  BY Zenon DEF ToSet
<1>6. ~(j < i)
  <2> SUFFICES ASSUME j < i PROVE FALSE
    OBVIOUS
  <2>1. j \in DOMAIN s /\ s[j] = t[j]
    BY <1>1, <1>3
  <2>2. s[j].header < s[i].header
    BY <2>1
  <2> QED BY <1>4, <1>5, <2>1, <2>2
<1>7. i \in DOMAIN t
  BY <1>1, <1>6
<1>8. PICK m \in DOMAIN s : t[i] = s[m]
  BY <1>7, Zenon DEF ToSet
<1>9. ~(m < i)
  <2> SUFFICES ASSUME m < i PROVE FALSE
    OBVIOUS
  <2>1. m \in DOMAIN t /\ s[m] = t[m]
    BY <1>3
  <2>2. t[m].header < t[i].header
    BY <1>7, <2>1
  <2> QED BY <1>4, <1>7, <1>8, <2>1, <2>2
<1>10. s[i].header <= t[i].header
  <2>1. CASE m = i
    BY <1>4, <1>8, <2>1
  <2>2. CASE i < m
    BY <1>4, <1>8, <2>2
  <2> QED BY <1>1, <1>9, <2>1, <2>2
<1>11. j = i
  <2> SUFFICES ASSUME i < j PROVE FALSE
    BY <1>1, <1>6
  <2>1. t[i].header < t[j].header
    BY <1>7
  <2> QED BY <1>4, <1>5, <1>7, <1>10, <2>1
<1> QED BY <1>5, <1>7, <1>11

\* So they are the same.
LEMMA StrictOrder ==
    ASSUME NEW S, NEW s \in Seq(S), NEW t \in Seq(S), \A r \in S : r.header \in Nat,
           \A i, j \in DOMAIN s : i < j => s[i].header < s[j].header,
           \A i, j \in DOMAIN t : i < j => t[i].header < t[j].header,
           ToSet(s) = ToSet(t)
    PROVE  s = t
<1>1. \A i \in DOMAIN s : i \in DOMAIN t /\ s[i] = t[i]
  BY StrictBeginning
<1>2. \A i \in DOMAIN t : i \in DOMAIN s
  BY StrictBeginning
<1>3. DOMAIN s = 1..Len(s) /\ DOMAIN t = 1..Len(t) /\ Len(s) \in Nat /\ Len(t) \in Nat
  BY LenProperties
<1>4. DOMAIN s = DOMAIN t
  BY <1>1, <1>2
<1>5. \A m, n \in Nat : 1..m = 1..n => m = n
  <2> SUFFICES ASSUME NEW m \in Nat, NEW n \in Nat, 1..m = 1..n PROVE m = n
    OBVIOUS
  <2>1. (m # 0 => m \in 1..n) /\ (n # 0 => n \in 1..m)
    OBVIOUS
  <2> QED BY <2>1
<1>6. Len(s) = Len(t)
  BY <1>3, <1>4, <1>5, Zenon
<1> QED BY <1>1, <1>3, <1>6, SeqEqual, Zenon

-----------------------------------------------------------------------------
(* From results to rules: buildRouteRules                                  *)

\* The results of a vector, by component.
VectorType(v) ==
    /\ IsFiniteSet(DOMAIN v) /\ DOMAIN v \subseteq Component
    /\ \A c \in DOMAIN v : v[c] \in Seq(Result)

RuleType == [header: Nat, backend: Nat, port: {"web", "rpc"}]

\* The exposed results of a vector are finitely many results of its components.
LEMMA ExposedResults ==
    ASSUME NEW v, VectorType(v)
    PROVE  /\ IsFiniteSet(Exposed(v))
           /\ \A x \in Exposed(v) : /\ x[1] \in DOMAIN v /\ x[2] \in DOMAIN v[x[1]]
                                    /\ x = <<x[1], x[2]>>
                                    /\ At(v, x) \in Result /\ Rule(At(v, x)) \in RuleType
<1> DEFINE places == [c \in DOMAIN v |-> {c} \X DOMAIN v[c]]
           Places == {{c} \X DOMAIN v[c] : c \in DOMAIN v}
<1>1. \A c \in DOMAIN v : IsFiniteSet(DOMAIN v[c])
  BY ElementsFinite DEF VectorType
<1>2. \A c \in DOMAIN v : IsFiniteSet({c} \X DOMAIN v[c])
  <2>1. \A c, D : IsFiniteSet(D) => IsFiniteSet({c} \X D)
    BY FS_Singleton, FS_Product, Zenon
  <2> QED BY <1>1, <2>1, Zenon
<1>3. IsFiniteSet(Places)
  <2>1. PICK f : f = places
    BY Zenon
  <2>2. \A c \in DOMAIN v : f[c] = {c} \X DOMAIN v[c]
    BY <2>1, Zenon
  <2>3. Places = {f[c] : c \in DOMAIN v}
    BY <2>2, Zenon
  <2>4. IsFiniteSet({f[c] : c \in DOMAIN v})
    BY ImageFinite DEF VectorType
  <2> QED BY <2>3, <2>4, Zenon
<1>4. IsFiniteSet(UNION Places)
  <2>1. \A P \in Places : IsFiniteSet(P)
    BY <1>2, Zenon
  <2> HIDE DEF Places
  <2> QED BY <1>3, <2>1, FS_UNION
<1>5. IsFiniteSet(Exposed(v))
  BY <1>4, FS_Subset DEF Exposed
<1>6. ASSUME NEW x \in Exposed(v)
      PROVE  /\ x[1] \in DOMAIN v /\ x[2] \in DOMAIN v[x[1]] /\ x = <<x[1], x[2]>>
             /\ At(v, x) \in Result /\ At(v, x).exposed # NoPort
  <2>1. PICK c \in DOMAIN v : x \in {c} \X DOMAIN v[c]
    BY DEF Exposed
  <2>2. x[1] = c /\ x[2] \in DOMAIN v[c] /\ x = <<x[1], x[2]>>
    BY <2>1
  <2>3. v[c][x[2]] \in Result
    BY <2>2, LenProperties, ElementOfSeq DEF VectorType
  <2> QED BY <2>2, <2>3 DEF At, Exposed
<1>7. ASSUME NEW r \in Result, r.exposed # NoPort PROVE Rule(r) \in RuleType
  <2>1. r.name \in Nat /\ r.service \in Nat
    BY DEF Result
  <2>2. r.exposed \in {"web", "rpc"}
    BY <1>7 DEF Result
  <2> QED BY <2>1, <2>2 DEF Rule, RuleType
<1> QED BY <1>5, <1>6, <1>7

\* The rules that come out of buildRouteRules: one for each exposed result, and
\* in the order of the names.
LEMMA BuiltRules ==
    ASSUME NEW v, VectorType(v), NEW rules \in buildRouteRules(v)
    PROVE  /\ rules \in Seq(RuleType)
           /\ Len(rules) = Cardinality(Exposed(v))
           /\ ToSet(rules) = {Rule(At(v, x)) : x \in Exposed(v)}
           /\ \A x \in Exposed(v) : portSelectable(At(v, x).ports, At(v, x).exposed)
           /\ (\A x, y \in Exposed(v) : At(v, x).name = At(v, y).name => x = y)
                 => \A i, j \in DOMAIN rules : i < j => rules[i].header < rules[j].header
<1>1. /\ \A x \in Exposed(v) : portSelectable(At(v, x).ports, At(v, x).exposed)
      /\ \E s \in sortedTargets(v) : rules = [i \in DOMAIN s |-> Rule(At(v, s[i]))]
  BY DEF buildRouteRules
<1>2. PICK s \in sortedTargets(v) : rules = [i \in DOMAIN s |-> Rule(At(v, s[i]))]
  BY <1>1
<1> DEFINE n == Cardinality(Exposed(v))
<1>3. s \in SetToSeqs(Exposed(v)) /\ \A i, j \in DOMAIN s : i < j => At(v, s[i]).name <= At(v, s[j]).name
  BY DEF sortedTargets
<1>4. /\ n \in Nat /\ DOMAIN s = 1..n /\ ToSet(s) = Exposed(v)
      /\ \A i, j \in DOMAIN s : s[i] = s[j] => i = j
  BY <1>3, ExposedResults, Listing
<1>5. \A i \in DOMAIN s : s[i] \in Exposed(v)
  BY <1>4 DEF ToSet
<1>6. DOMAIN rules = 1..n /\ \A i \in 1..n : rules[i] = Rule(At(v, s[i])) /\ rules[i] \in RuleType
  BY <1>2, <1>4, <1>5, ExposedResults
<1>7. rules \in Seq(RuleType) /\ Len(rules) = n
  <2>1. rules \in [1..n -> RuleType]
    <3>1. rules = [i \in 1..n |-> rules[i]]
      BY <1>2, <1>4
    <3> QED BY <1>6, <3>1
  <2> QED BY <1>4, <2>1
<1>8. ToSet(rules) = {Rule(At(v, x)) : x \in Exposed(v)}
  BY <1>4, <1>6 DEF ToSet
<1>9. ASSUME \A x, y \in Exposed(v) : At(v, x).name = At(v, y).name => x = y,
             NEW i \in DOMAIN rules, NEW j \in DOMAIN rules, i < j
      PROVE  rules[i].header < rules[j].header
  <2>1. i \in DOMAIN s /\ j \in DOMAIN s /\ i # j
    BY <1>4, <1>6, <1>9
  <2>2. At(v, s[i]).name <= At(v, s[j]).name /\ At(v, s[i]).name # At(v, s[j]).name
    BY <1>3, <1>4, <1>5, <1>9, <2>1
  <2>3. rules[i].header = At(v, s[i]).name /\ rules[j].header = At(v, s[j]).name
    BY <1>4, <1>6, <2>1 DEF Rule
  <2>4. rules[i].header \in Nat /\ rules[j].header \in Nat
    BY <1>6, <1>9 DEF RuleType
  <2> QED BY <2>2, <2>3, <2>4
<1> QED BY <1>1, <1>7, <1>8, <1>9

\* There are rules unless some exposed result has no port to route to.
LEMMA RulesExist ==
    ASSUME NEW v, VectorType(v),
           \A x \in Exposed(v) : portSelectable(At(v, x).ports, At(v, x).exposed)
    PROVE  buildRouteRules(v) # {}
<1> DEFINE key == [x \in Exposed(v) |-> At(v, x).name]
<1>1. key \in [Exposed(v) -> Nat]
  BY ExposedResults DEF Result
<1>2. IsFiniteSet(Exposed(v))
  BY ExposedResults
<1>3. PICK s \in SetToSeqs(Exposed(v)) : \A i, j \in DOMAIN s : i < j => key[s[i]] <= key[s[j]]
  <2> HIDE DEF key
  <2> QED BY <1>1, <1>2, SortedListing
<1>4. \A i \in DOMAIN s : s[i] \in Exposed(v)
  BY <1>2, Listing DEF ToSet
<1>5. \A i, j \in DOMAIN s : i < j => At(v, s[i]).name <= At(v, s[j]).name
  BY <1>3, <1>4, Zenon
<1>6. s \in sortedTargets(v)
  BY <1>5, Zenon DEF sortedTargets
<1>7. [i \in DOMAIN s |-> Rule(At(v, s[i]))] \in buildRouteRules(v)
  BY <1>6, Zenon DEF buildRouteRules
<1> QED BY <1>7

-----------------------------------------------------------------------------
(* From Services to results: the status updater                            *)

\* What a deployment may publish: names that differ, and exposed ports that
\* can be routed to.
Published(results) ==
    /\ results \in Seq(Result)
    /\ \A i, j \in DOMAIN results : results[i].name = results[j].name => i = j
    /\ \A i \in DOMAIN results :
          results[i].exposed # NoPort => portSelectable(results[i].ports, results[i].exposed)

\* The results that mapServicesToDeploymentResults makes of Services that
\* validateExposePorts has passed.
LEMMA MappedResults ==
    ASSUME services \in Seq(Service), NEW listed \in SUBSET DOMAIN services,
           validateExposePorts(listed), NEW results \in mapServicesToDeploymentResults(listed)
    PROVE  /\ Published(results)
           /\ {r.service : r \in ToSet(results)} = {s \in listed : hasDeploymentResultName(s)}
<1>0. PICK opted : opted = {s \in listed : hasDeploymentResultName(s)}
  BY Zenon
<1>1. /\ resultsDistinct(opted)
      /\ \E order \in SetToSeqs(opted) : results = [i \in DOMAIN order |-> resultOf(order[i])]
  BY <1>0, Zenon DEF mapServicesToDeploymentResults
<1>2. PICK order \in SetToSeqs(opted) : results = [i \in DOMAIN order |-> resultOf(order[i])]
  BY <1>1
<1> DEFINE n == Cardinality(opted)
<1>3. DOMAIN services = 1..Len(services) /\ Len(services) \in Nat /\ IsFiniteSet(DOMAIN services)
  BY LenProperties, ElementsFinite
<1>4. opted \subseteq listed /\ IsFiniteSet(opted)
  BY <1>0, <1>3, FS_Subset
<1>5. /\ n \in Nat /\ DOMAIN order = 1..n /\ ToSet(order) = opted
      /\ \A i, j \in DOMAIN order : order[i] = order[j] => i = j
  BY <1>4, Listing
<1>6. \A i \in 1..n : order[i] \in opted /\ results[i] = resultOf(order[i])
  BY <1>2, <1>5 DEF ToSet
<1>7. ASSUME NEW s \in opted
      PROVE  /\ resultOf(s) \in Result /\ resultOf(s).service = s
             /\ resultOf(s).name = services[s].result
             /\ resultOf(s).ports = services[s].ports /\ resultOf(s).exposed = services[s].exposed
  <2>1. s \in Nat /\ services[s] \in Service
    BY <1>3, <1>4, ElementOfSeq
  <2>2. services[s].result \in Nat /\ services[s].ports \in Ports
        /\ services[s].exposed \in {NoPort, "web", "rpc"}
    BY <2>1 DEF Service
  <2>3. resultOf(s) \in Result
    BY <2>1, <2>2 DEF resultOf, Result
  <2> QED BY <2>3 DEF resultOf
<1>8. results \in Seq(Result) /\ DOMAIN results = 1..n
  <2>1. results = [i \in 1..n |-> results[i]]
    BY <1>2, <1>5
  <2>2. results \in [1..n -> Result]
    BY <1>6, <1>7, <2>1
  <2> QED BY <1>5, <2>2
<1>9. ASSUME NEW i \in 1..n, NEW j \in 1..n, results[i].name = results[j].name PROVE i = j
  <2>1. services[order[i]].result = services[order[j]].result
    BY <1>6, <1>7, <1>9
  <2>2. order[i] = order[j]
    BY <1>1, <1>6, <2>1, Zenon DEF resultsDistinct
  <2> QED BY <1>5, <2>2
<1>10. ASSUME NEW i \in 1..n, results[i].exposed # NoPort
       PROVE  portSelectable(results[i].ports, results[i].exposed)
  BY <1>0, <1>6, <1>7, <1>10 DEF validateExposePorts
<1>11. {r.service : r \in ToSet(results)} = opted
  <2>1. ToSet(results) = {resultOf(s) : s \in opted}
    BY <1>5, <1>6, <1>8 DEF ToSet
  <2> QED BY <1>7, <2>1
<1> QED BY <1>0, <1>8, <1>9, <1>10, <1>11 DEF Published

\* What may be published is accepted by both consumers.
LEMMA PublishedAccepted ==
    ASSUME NEW c \in Component, NEW results, Published(results)
    PROVE  /\ buildRouteRules([k \in {c} |-> results]) # {}
           /\ assertUniqueResults(results)
<1>1. PICK v : v = [k \in {c} |-> results]
  BY Zenon
<1>2. DOMAIN v = {c} /\ v[c] = results /\ results \in Seq(Result)
  BY <1>1 DEF Published
<1>3. VectorType(v)
  BY <1>2, FS_Singleton, Zenon DEF VectorType
<1>4. ASSUME NEW x \in Exposed(v) PROVE portSelectable(At(v, x).ports, At(v, x).exposed)
  <2>1. x[1] = c /\ x[2] \in DOMAIN results
    BY <1>2, <1>3, ExposedResults
  <2>2. At(v, x).exposed # NoPort /\ At(v, x) = results[x[2]]
    BY <1>2, <2>1 DEF Exposed, At
  <2> QED BY <2>1, <2>2 DEF Published
<1>5. buildRouteRules(v) # {}
  BY <1>3, <1>4, RulesExist
<1> QED BY <1>1, <1>5 DEF Published, assertUniqueResults

-----------------------------------------------------------------------------
(* The rules of two vectors with the same results                          *)

\* A result that is exposed in one vector is exposed in another with the same
\* results, if in another place of its component's list.
LEMMA ExposedToo ==
    ASSUME NEW v, NEW w, VectorType(v), VectorType(w), DOMAIN v = DOMAIN w,
           \A c \in DOMAIN v : ToSet(v[c]) = ToSet(w[c]), NEW x \in Exposed(w)
    PROVE  \E y \in Exposed(v) : y[1] = x[1] /\ At(v, y) = At(w, x)
<1>1. x[1] \in DOMAIN v /\ x[2] \in DOMAIN w[x[1]]
  BY ExposedResults
<1>2. At(w, x) \in ToSet(w[x[1]]) /\ At(w, x).type = HTTP /\ At(w, x).exposed # NoPort
  BY <1>1 DEF At, ToSet, Exposed
<1>3. PICK j \in DOMAIN v[x[1]] : v[x[1]][j] = At(w, x)
  BY <1>1, <1>2 DEF ToSet
<1>4. PICK y : y = <<x[1], j>>
  BY Zenon
<1>5. y[1] = x[1] /\ y[2] = j
  BY <1>4
<1>6. y \in {x[1]} \X DOMAIN v[x[1]] /\ At(v, y) = At(w, x)
  BY <1>3, <1>4, <1>5 DEF At
<1>7. y \in UNION {{c} \X DOMAIN v[c] : c \in DOMAIN v}
  BY <1>1, <1>6, Zenon
<1>8. y \in Exposed(v)
  BY <1>2, <1>6, <1>7, ZenonT(40) DEF Exposed
<1> QED BY <1>5, <1>6, <1>8

\* The order in which the results of a component are listed does not matter.
LEMMA SameRules ==
    ASSUME NEW v, NEW w, VectorType(v), VectorType(w), DOMAIN v = DOMAIN w,
           \A c \in DOMAIN v : ToSet(v[c]) = ToSet(w[c]),
           \A x, y \in Exposed(v) : At(v, x).name = At(v, y).name => x = y,
           \A c \in DOMAIN w : \/ w[c] = v[c]
                               \/ \A i, j \in DOMAIN w[c] : w[c][i].name = w[c][j].name => i = j,
           NEW r \in buildRouteRules(v), NEW q \in buildRouteRules(w)
    PROVE  q = r
<1>1. ASSUME NEW x \in Exposed(w), NEW y \in Exposed(w), At(w, x).name = At(w, y).name PROVE x = y
  <2>1. PICK x2 \in Exposed(v) : x2[1] = x[1] /\ At(v, x2) = At(w, x)
    BY ExposedToo
  <2>2. PICK y2 \in Exposed(v) : y2[1] = y[1] /\ At(v, y2) = At(w, y)
    BY ExposedToo
  <2>3. x2 = y2
    BY <1>1, <2>1, <2>2
  <2>4. /\ x[1] = y[1] /\ x[1] \in DOMAIN w /\ x[2] \in DOMAIN w[x[1]] /\ y[2] \in DOMAIN w[x[1]]
        /\ x = <<x[1], x[2]>> /\ y = <<y[1], y[2]>>
    BY <2>1, <2>2, <2>3, ExposedResults
  <2>5. w[x[1]][x[2]].name = w[x[1]][y[2]].name
    BY <1>1, <2>4 DEF At
  <2>6. CASE w[x[1]] = v[x[1]]
    <3>1. \A z \in Exposed(w) : z[1] = x[1] => z \in Exposed(v) /\ At(v, z) = At(w, z)
      <4> SUFFICES ASSUME NEW z \in Exposed(w), z[1] = x[1]
                   PROVE  z \in Exposed(v) /\ At(v, z) = At(w, z)
        OBVIOUS
      <4>1. At(v, z) = At(w, z) /\ At(w, z).type = HTTP /\ At(w, z).exposed # NoPort
        BY <2>6 DEF At, Exposed
      <4>2. z \in {x[1]} \X DOMAIN v[x[1]]
        <5>1. z[2] \in DOMAIN v[x[1]] /\ z = <<x[1], z[2]>>
          BY <2>6, ExposedResults
        <5> QED BY <5>1
      <4>3. z \in UNION {{c} \X DOMAIN v[c] : c \in DOMAIN v}
        BY <2>4, <4>2, Zenon
      <4> QED BY <4>1, <4>3, Zenon DEF Exposed
    <3>2. x \in Exposed(v) /\ y \in Exposed(v) /\ At(v, x).name = At(v, y).name
      BY <1>1, <2>4, <3>1
    <3> QED BY <3>2
  <2>7. CASE \A i, j \in DOMAIN w[x[1]] : w[x[1]][i].name = w[x[1]][j].name => i = j
    <3>1. x[2] = y[2]
      BY <2>4, <2>5, <2>7
    <3> QED BY <2>4, <3>1
  <2> QED BY <2>4, <2>6, <2>7
<1>2. ToSet(q) = ToSet(r)
  <2>1. ToSet(q) = {Rule(At(w, x)) : x \in Exposed(w)} /\ ToSet(r) = {Rule(At(v, x)) : x \in Exposed(v)}
    BY BuiltRules
  <2>2. \A x \in Exposed(w) : \E y \in Exposed(v) : At(v, y) = At(w, x)
    BY ExposedToo
  <2>3. \A y \in Exposed(v) : \E x \in Exposed(w) : At(v, y) = At(w, x)
    BY ExposedToo
  <2> QED BY <2>1, <2>2, <2>3
<1>3. /\ r \in Seq(RuleType) /\ \A i, j \in DOMAIN r : i < j => r[i].header < r[j].header
  BY BuiltRules
<1>4. /\ q \in Seq(RuleType) /\ \A i, j \in DOMAIN q : i < j => q[i].header < q[j].header
  BY <1>1, BuiltRules
<1>5. \A e \in RuleType : e.header \in Nat
  BY DEF RuleType
<1> QED BY <1>2, <1>3, <1>4, <1>5, StrictOrder

-----------------------------------------------------------------------------
(* From results to ConfigMap keys, and back                                *)

\* A key without its prefix and its suffix.
LEMMA Unwrapped ==
    ASSUME NEW S, NEW b \in Seq(S), NEW f \in S, NEW l \in S
    PROVE  LET key == <<f>> \o b \o <<l>>
           IN key[Len(key)] = l /\ SubSeq(key, 2, Len(key) - 1) = b
<1>1. PICK h : h = <<f>> \o b
  BY Zenon
<1>2. /\ h \in Seq(S) /\ Len(h) = Len(b) + 1 /\ Len(b) \in Nat
      /\ \A i \in 1..Len(b) : h[i + 1] = b[i]
  BY <1>1
<1>3. PICK key : key = h \o <<l>>
  BY Zenon
<1>4. /\ key \in Seq(S) /\ Len(key) = Len(b) + 2 /\ key[Len(b) + 2] = l
      /\ \A i \in 1..(Len(b) + 1) : key[i] = h[i]
  BY <1>2, <1>3
<1>5. \A i \in 1..Len(b) : key[i + 1] = b[i]
  BY <1>2, <1>4
<1>6. SubSeq(key, 2, Len(b) + 1) = b
  <2>1. \A i \in 2..(Len(b) + 1) : key[i] \in S
    BY <1>2, <1>4
  <2>2. /\ SubSeq(key, 2, Len(b) + 1) \in Seq(S) /\ Len(SubSeq(key, 2, Len(b) + 1)) = Len(b)
        /\ \A i \in 1..Len(b) : SubSeq(key, 2, Len(b) + 1)[i] = key[2 + i - 1]
    BY <1>2, <2>1, SubSeqProperties
  <2>3. \A i \in 1..Len(b) : SubSeq(key, 2, Len(b) + 1)[i] = b[i]
    BY <1>2, <1>5, <2>2
  <2> QED BY <2>2, <2>3, SeqEqual
<1>7. Len(key) - 1 = Len(b) + 1
  BY <1>2, <1>4
<1> QED BY <1>1, <1>3, <1>4, <1>6, <1>7

\* The name in a key is the base name of the component it was made of.
LEMMA NameInKey ==
    ASSUME NEW c \in Component
    PROVE  deploymentName(dataKey(c)) = componentBasename(c)
<1> DEFINE S == STRING \cup {DeploymentResultsPrefix, JSONSuffix}
<1>1. componentBasename(c) \in Seq(S)
  <2>1. c \in Seq(S)
    BY SeqMonotonic DEF Component
  <2>2. Len(c) > 1 => Last(c) \in S
    BY <2>1 DEF Last
  <2> HIDE DEF S
  <2>3. CASE Len(c) > 1 /\ Last(c) # ""
    <3>1. \A l \in S : <<l>> \in Seq(S)
      OBVIOUS
    <3>2. <<Last(c)>> \in Seq(S)
      BY <2>2, <2>3, <3>1, Zenon
    <3> QED BY <2>3, <3>2, Zenon DEF componentBasename
  <2>4. CASE ~(Len(c) > 1 /\ Last(c) # "")
    BY <2>1, <2>4, Zenon DEF componentBasename
  <2> QED BY <2>3, <2>4, Zenon
<1>2. PICK b : b = componentBasename(c)
  OBVIOUS
<1>3. PICK key : key = <<DeploymentResultsPrefix>> \o b \o <<JSONSuffix>>
  BY Zenon
<1>4. key[Len(key)] = JSONSuffix /\ SubSeq(key, 2, Len(key) - 1) = b
  <2>1. b \in Seq(S) /\ DeploymentResultsPrefix \in S /\ JSONSuffix \in S
    BY <1>1, <1>2
  <2> HIDE DEF S
  <2> QED BY <1>3, <2>1, Unwrapped
<1> QED BY <1>2, <1>3, <1>4 DEF dataKey, deploymentName, Last

\* What the service reads out of the ConfigMap is what was rendered into it.
LEMMA ServedBack ==
    ASSUME NEW vd, DOMAIN vd.results \subseteq Component,
           NEW cm, cm = renderData(vd), cm # Absent
    PROVE  /\ DOMAIN getConfiguration(cm).deploymentResults =
                 {componentBasename(c) : c \in Rendered(vd.results)}
           /\ \A c \in Rendered(vd.results) :
                 getConfiguration(cm).deploymentResults[componentBasename(c)] = vd.results[c]
<1> DEFINE R == Rendered(vd.results)
<1>1. R \subseteq Component
  BY Zenon DEF Rendered
<1> DEFINE value(k) == vd.results[CHOOSE c \in R : dataKey(c) = k]
           Keys == {dataKey(c) : c \in R}
<1>2. PICK f : f = [k \in Keys |-> value(k)]
  BY Zenon
<1>3. /\ \A c, e \in R : dataKey(c) = dataKey(e) => c = e
      /\ cm = [features |-> rawOrNull(vd.features), results |-> f]
  BY <1>2, Zenon DEF renderData
<1>4. cm.results = [k \in Keys |-> value(k)]
  <2>1. cm.results = f
    BY <1>3
  <2> QED BY <1>2, <2>1, Zenon
<1>5. DOMAIN cm.results = Keys
  BY <1>4, Zenon
<1>6. ASSUME NEW c \in R PROVE cm.results[dataKey(c)] = vd.results[c]
  <2>1. (CHOOSE e \in R : dataKey(e) = dataKey(c)) = c
    BY <1>3
  <2>2. cm.results[dataKey(c)] = value(dataKey(c))
    BY <1>4, ZenonT(40)
  <2> QED BY <2>1, <2>2, Zenon
<1> DEFINE found(n) == CHOOSE k \in DOMAIN cm.results : deploymentName(k) = n
<1>7. PICK served : served = getConfiguration(cm).deploymentResults
  OBVIOUS
<1>8. served = [n \in {deploymentName(k) : k \in DOMAIN cm.results} |-> cm.results[found(n)]]
  BY <1>7, Zenon DEF getConfiguration
<1>9. \A c \in R : deploymentName(dataKey(c)) = componentBasename(c)
  BY <1>1, NameInKey
<1>10. DOMAIN served = {componentBasename(c) : c \in R}
  <2>1. DOMAIN served = {deploymentName(k) : k \in Keys}
    BY <1>5, <1>8, Zenon
  <2> QED BY <1>9, <2>1, Zenon
<1>11. ASSUME NEW c \in R PROVE served[componentBasename(c)] = vd.results[c]
  <2>1. dataKey(c) \in DOMAIN cm.results /\ deploymentName(dataKey(c)) = componentBasename(c)
    BY <1>5, <1>9, Zenon
  <2>2. /\ found(componentBasename(c)) \in DOMAIN cm.results
        /\ deploymentName(found(componentBasename(c))) = componentBasename(c)
    BY <2>1, Zenon
  <2>3. PICK e \in R : found(componentBasename(c)) = dataKey(e)
    BY <1>5, <2>2, Zenon
  <2>4. componentBasename(e) = componentBasename(c)
    BY <1>9, <2>2, <2>3, Zenon
  <2>5. dataKey(e) = dataKey(c)
    BY <2>4 DEF dataKey
  <2>6. served[componentBasename(c)] = cm.results[found(componentBasename(c))]
    BY <1>8, <1>10, <2>1, ZenonT(40)
  <2> QED BY <1>6, <2>3, <2>5, <2>6, ZenonT(40)
<1> QED BY <1>7, <1>10, <1>11, ZenonT(40)

-----------------------------------------------------------------------------
(* What is true of the state                                               *)

\* The results of another deployer, which Star takes as they are.
ForeignResults(c) == (CHOOSE f \in ToSet(given.foreign) : f[1] = c)[2]

\* A vector that Star has collected: what the deployments have published, and
\* the results of the others.
FromStar(v) ==
    /\ VectorType(v)
    /\ \A c \in DOMAIN v : IF c \in ToSet(given.component) THEN Published(v[c])
                           ELSE v[c] = ForeignResults(c)

StatusInv ==
    /\ given \in Scenarios
    /\ services \in Seq(Service) /\ DOMAIN services = DOMAIN given.services /\ changes \in Nat
    /\ status \in [Deployments -> [created: {"Unknown", "True", "Stalled"}, results: Seq(Result)]]
    /\ \A d \in Deployments : Published(status[d].results)

RouteInv ==
    /\ FromStar(vector) /\ FromStar(route.from)
    /\ route.rules \in buildRouteRules(route.from)

DataInv ==
    /\ vectorData # Absent => VectorType(vectorData.results)
    /\ data = Absent \/ (vectorData # Absent /\ data = renderData(vectorData))

\* A client holds the flags of the ConfigMap it was answered from, and an ETag
\* of nothing else.
ClientInv ==
    /\ client \in [code: {0, 200, 304, 500}, etag: SUBSET {client.flags}, flags: {client.flags},
                   of: {client.of}]
    /\ client.code \in {200, 304} =>
          LET config == getConfiguration(client.of)
          IN client.flags = allFlags(config) /\ (config # Absent => ~featuresFail(config))

IInv == StatusInv /\ RouteInv /\ DataInv /\ ClientInv

-----------------------------------------------------------------------------
(* The initial states                                                      *)

\* Without a VectorData there is nothing to route: the rule list is empty.
LEMMA NothingExposed == VectorType(Absent) /\ << >> \in buildRouteRules(Absent)
<1>1. DOMAIN Absent = {}
  BY DEF Absent
<1>2. VectorType(Absent)
  BY <1>1, FS_EmptySet DEF VectorType
<1>3. Exposed(Absent) = {}
  BY <1>1, <1>2, ExposedResults
<1>4. PICK r \in buildRouteRules(Absent) : TRUE
  BY <1>2, <1>3, RulesExist
<1>5. r \in Seq(RuleType) /\ Len(r) = 0
  <2>1. Cardinality(Exposed(Absent)) = 0
    BY <1>3, FS_EmptySet
  <2> QED BY <1>2, <1>4, <2>1, BuiltRules
<1>6. r = << >>
  BY <1>5, EmptySeq
<1> QED BY <1>2, <1>4, <1>6

\* The inductive invariant holds before the first reconcile.
LEMMA Initially == Init => IInv
<1> SUFFICES ASSUME Init PROVE IInv
  OBVIOUS
<1>1. given \in Scenarios /\ given \in Scenario
  BY ScenarioAssumption DEF Init
<1>2. Published(<< >>)
  BY DEF Published
<1>3. StatusInv
  <2>1. services \in Seq(Service) /\ services = given.services /\ changes \in Nat
    BY <1>1 DEF Init, Scenario
  <2>2. NoStatus \in [created: {"Unknown", "True", "Stalled"}, results: Seq(Result)]
    BY EmptySeq DEF NoStatus
  <2>3. NoStatus.results = << >> /\ status = [d \in Deployments |-> NoStatus]
    BY DEF Init, NoStatus
  <2> QED BY <1>1, <1>2, <2>1, <2>2, <2>3 DEF StatusInv
<1>4. RouteInv
  <2>1. vector = Absent /\ route.from = Absent /\ route.rules = << >> /\ DOMAIN Absent = {}
    BY DEF Init, NoRoute, Absent
  <2> QED BY <2>1, NothingExposed DEF RouteInv, FromStar
<1>5. DataInv
  BY DEF Init, DataInv
<1>6. ClientInv
  BY DEF Init, NoClient, ClientInv
<1> QED BY <1>3, <1>4, <1>5, <1>6 DEF IInv

-----------------------------------------------------------------------------
(* Every step keeps them                                                   *)

\* The status updater stores what may be published, or nothing.
LEMMA StatusStep ==
    ASSUME StatusInv, [Next]_vars
    PROVE  StatusInv'
<1>1. /\ given \in Scenarios /\ given \in Scenario
      /\ services \in Seq(Service) /\ DOMAIN services = DOMAIN given.services /\ changes \in Nat
  BY ScenarioAssumption DEF StatusInv
<1>2. ASSUME UNCHANGED <<given, services, changes, status>> PROVE StatusInv'
  BY <1>2 DEF StatusInv, Deployments
<1>3. ASSUME NEW d \in Deployments, MutateStatus(d) PROVE StatusInv'
  <2>1. UNCHANGED <<given, services, changes>>
    BY <1>3 DEF MutateStatus
  <2>2. ASSUME NEW created \in {"True", "Stalled"}, NEW results, Published(results),
               status' = [status EXCEPT ![d] = [created |-> created, results |-> results]]
        PROVE  StatusInv'
    <3>1. [created |-> created, results |-> results]
             \in [created: {"Unknown", "True", "Stalled"}, results: Seq(Result)]
      BY <2>2 DEF Published
    <3>2. status' \in [Deployments -> [created: {"Unknown", "True", "Stalled"}, results: Seq(Result)]]
      BY <2>2, <3>1 DEF StatusInv
    <3>3. ASSUME NEW e \in Deployments PROVE Published(status'[e].results)
      BY <2>2 DEF StatusInv
    <3>4. Deployments' = Deployments
      BY <2>1 DEF Deployments
    <3> QED BY <2>1, <3>2, <3>3, <3>4 DEF StatusInv
  <2>3. Published(<< >>)
    BY DEF Published
  <2>4. fetchExposableServices(d) \in SUBSET DOMAIN services
    BY DEF fetchExposableServices
  <2>5. CASE validateExposePorts(fetchExposableServices(d))
    <3>1. PICK results \in mapServicesToDeploymentResults(fetchExposableServices(d)) :
             status' = [status EXCEPT ![d] = [created |-> "True", results |-> results]]
      BY <1>3, <2>5, ZenonT(40) DEF MutateStatus
    <3>2. Published(results)
      BY <1>1, <2>4, <2>5, MappedResults
    <3> QED BY <2>2, <3>1, <3>2, ZenonT(40)
  <2>6. CASE ~validateExposePorts(fetchExposableServices(d))
    <3>1. status' = [status EXCEPT ![d] = [created |-> "Stalled", results |-> << >>]]
      BY <1>3, <2>6, ZenonT(40) DEF MutateStatus
    <3> QED BY <2>2, <2>3, <3>1, ZenonT(40)
  <2> QED BY <2>5, <2>6
<1>4. ASSUME NEW s \in DOMAIN services, ChangeService(s) PROVE StatusInv'
  <2>1. PICK look \in given.looks : services' = [services EXCEPT ![s] = look]
    BY <1>4, Zenon DEF ChangeService
  <2>2. look \in Service
    BY <1>1, <2>1 DEF Scenario
  <2>3. services' \in Seq(Service) /\ DOMAIN services' = DOMAIN services
    BY <1>1, <2>1, <2>2, LenProperties, ExceptSeq
  <2>4. changes' \in Nat /\ UNCHANGED <<given, status>>
    BY <1>1, <1>4 DEF ChangeService
  <2> QED BY <1>1, <2>3, <2>4 DEF StatusInv, Deployments
<1> QED BY <1>2, <1>3, <1>4, ZenonT(40)
        DEF Next, vars, Collect, CreateVectorData, DeleteVectorData, ApplyRoute, Materialize,
            handleEvaluateBulk

\* Star collects the results of finitely many components.
LEMMA CollectedType ==
    ASSUME StatusInv
    PROVE  FromStar(Collected)
<1> DEFINE Own == ToSet(given.component)
           Others == {f[1] : f \in ToSet(given.foreign)}
           chosen(c) == CHOOSE d \in Deployments : given.component[d] = c
<1>1. /\ given \in Scenario /\ DOMAIN given.component = Deployments
  BY ScenarioAssumption DEF StatusInv, Deployments
<1>2. given.component \in Seq(Component) /\ given.foreign \in Seq(Component \X Seq(Result))
  BY <1>1 DEF Scenario
<1>3. IsFiniteSet(Own) /\ Own \subseteq Component
  BY <1>2, ElementsFinite
<1>4. IsFiniteSet(ToSet(given.foreign)) /\ ToSet(given.foreign) \subseteq Component \X Seq(Result)
  BY <1>2, ElementsFinite
<1>5. IsFiniteSet(Others) /\ Others \subseteq Component
  <2>1. PICK g : g = [f \in ToSet(given.foreign) |-> f[1]]
    BY Zenon
  <2>2. Others = {g[f] : f \in ToSet(given.foreign)}
    BY <2>1
  <2>3. IsFiniteSet({g[f] : f \in ToSet(given.foreign)})
    BY <1>4, ImageFinite
  <2>4. Others \subseteq Component
    BY <1>4
  <2> QED BY <2>2, <2>3, <2>4, ZenonT(40)
<1>6. IsFiniteSet(Own \cup Others)
  BY <1>3, <1>5, FS_Union, ZenonT(40)
<1>7. PICK v : v = Collected
  BY Zenon
<1>8. /\ DOMAIN v = Own \cup Others
      /\ \A c \in Own \cup Others :
            v[c] = IF c \in Own THEN status[chosen(c)].results ELSE ForeignResults(c)
  BY <1>7, Zenon DEF Collected, ForeignResults
<1>9. ASSUME NEW c \in Own PROVE Published(v[c]) /\ v[c] \in Seq(Result)
  <2>1. \E d \in Deployments : given.component[d] = c
    BY <1>1 DEF ToSet
  <2>2. chosen(c) \in Deployments
    BY <2>1, Zenon
  <2>3. v[c] = status[chosen(c)].results
    BY <1>8, Zenon
  <2>4. Published(v[c])
    BY <2>2, <2>3 DEF StatusInv
  <2> QED BY <2>4 DEF Published
<1>10. ASSUME NEW c \in Others, c \notin Own PROVE v[c] = ForeignResults(c) /\ v[c] \in Seq(Result)
  <2>1. v[c] = ForeignResults(c)
    BY <1>8, <1>10, Zenon
  <2>2. PICK f : f = CHOOSE g \in ToSet(given.foreign) : g[1] = c
    BY Zenon
  <2>3. \E g \in ToSet(given.foreign) : g[1] = c
    BY Zenon
  <2>4. f \in ToSet(given.foreign)
    BY <2>2, <2>3, ZenonT(40)
  <2>5. f[2] \in Seq(Result)
    BY <1>4, <2>4
  <2>6. ForeignResults(c) = f[2]
    BY <2>2, Zenon DEF ForeignResults
  <2> QED BY <2>1, <2>5, <2>6
<1>11. VectorType(v)
  <2>1. DOMAIN v \subseteq Component
    BY <1>3, <1>5, <1>8
  <2>2. IsFiniteSet(DOMAIN v)
    BY <1>6, <1>8
  <2>3. \A c \in DOMAIN v : v[c] \in Seq(Result)
    BY <1>8, <1>9, <1>10
  <2> QED BY <2>1, <2>2, <2>3 DEF VectorType
<1>12. FromStar(v)
  BY <1>8, <1>9, <1>10, <1>11 DEF FromStar
<1> QED BY <1>7, <1>12

\* The route keeps the rules of the vector it was built from.
LEMMA RouteStep ==
    ASSUME StatusInv, RouteInv, [Next]_vars
    PROVE  RouteInv'
<1>1. ASSUME NEW v, FromStar(v), given' = given PROVE FromStar(v)'
  BY <1>1 DEF FromStar, ForeignResults
<1>2. ASSUME UNCHANGED <<given, vector, route>> PROVE RouteInv'
  BY <1>2 DEF RouteInv, FromStar, ForeignResults
<1>3. ASSUME Collect PROVE RouteInv'
  <2>1. UNCHANGED <<given, route>> /\ vector' = Collected
    BY <1>3 DEF Collect
  <2>2. PICK v : v = Collected
    BY Zenon
  <2>3. FromStar(v)'
    BY <1>1, <2>1, <2>2, CollectedType
  <2>4. PICK f : f = route.from
    BY Zenon
  <2>5. FromStar(f)'
    BY <1>1, <2>1, <2>4 DEF RouteInv
  <2>6. FromStar(vector)' /\ FromStar(route.from)'
    BY <2>1, <2>2, <2>3, <2>4, <2>5
  <2> QED BY <2>1, <2>6 DEF RouteInv
<1>4. ASSUME ApplyRoute PROVE RouteInv'
  <2>1. UNCHANGED <<given, vector>>
    BY <1>4 DEF ApplyRoute
  <2>2. PICK rules \in buildRouteRules(vector) : route' = [rules |-> rules, from |-> vector]
    BY <1>4, Zenon DEF ApplyRoute
  <2>3. route'.rules = rules /\ route'.from = vector
    BY <2>2
  <2>4. PICK v : v = vector
    BY Zenon
  <2>5. FromStar(v)'
    BY <1>1, <2>1, <2>4 DEF RouteInv
  <2>6. FromStar(vector)' /\ FromStar(route.from)'
    BY <2>1, <2>3, <2>4, <2>5
  <2> QED BY <2>2, <2>3, <2>6 DEF RouteInv
<1> QED BY <1>2, <1>3, <1>4, ZenonT(40)
        DEF Next, vars, MutateStatus, ChangeService, CreateVectorData, DeleteVectorData,
            Materialize, handleEvaluateBulk

\* The ConfigMap is the rendered VectorData, and goes before it does.
LEMMA DataStep ==
    ASSUME RouteInv, DataInv, [Next]_vars
    PROVE  DataInv'
<1>1. ASSUME UNCHANGED <<vectorData, data>> PROVE DataInv'
  BY <1>1 DEF DataInv
<1>2. ASSUME CreateVectorData PROVE DataInv'
  <2>1. vectorData'.results = vector /\ data' = Absent
    BY <1>2 DEF CreateVectorData, DataInv
  <2>2. VectorType(vectorData'.results)
    BY <2>1 DEF RouteInv, FromStar
  <2> QED BY <2>1, <2>2 DEF DataInv
<1>3. ASSUME DeleteVectorData PROVE DataInv'
  BY <1>3 DEF DeleteVectorData, DataInv
<1>4. ASSUME Materialize PROVE DataInv'
  <2>1. vectorData' = vectorData /\ vectorData # Absent /\ data' = renderData(vectorData)
    BY <1>4, Zenon DEF Materialize
  <2> QED BY <2>1 DEF DataInv
<1> QED BY <1>1, <1>2, <1>3, <1>4, ZenonT(40)
        DEF Next, vars, MutateStatus, ChangeService, Collect, ApplyRoute, handleEvaluateBulk

\* What the client holds after an answer without flags: an error, or 304 Not
\* Modified.
LEMMA AnsweredWithout ==
  ASSUME NEW C, NEW E, NEW F, NEW O, NEW r \in [code: C, etag: E, flags: F, of: O], NEW c, NEW n,
         NEW new, new = [[r EXCEPT !.code = c] EXCEPT !.of = n]
  PROVE  new \in [code: {c}, etag: E, flags: F, of: {n}]
BY Zenon

\* What the client holds after an answer with flags.
LEMMA AnsweredWith ==
  ASSUME NEW C, NEW E, NEW F, NEW O, NEW r \in [code: C, etag: E, flags: F, of: O],
         NEW c, NEW n, NEW e, NEW f,
         NEW new, new = [[r EXCEPT !.code = c, !.etag = e, !.flags = f] EXCEPT !.of = n]
  PROVE  new \in [code: {c}, etag: {e}, flags: {f}, of: {n}]
BY Zenon

\* What the client holds, its flags and what they were read from given names.
LEMMA ClientHolds ==
  ASSUME NEW C, NEW r, r \in [code: C, etag: SUBSET {r.flags}, flags: {r.flags}, of: {r.of}]
  PROVE  \E f, o : r \in [code: C, etag: SUBSET {f}, flags: {f}, of: {o}]
<1>1. PICK f : f = r.flags
  BY Zenon
<1>2. PICK o : o = r.of
  BY Zenon
<1>3. r \in [code: C, etag: SUBSET {f}, flags: {f}, of: {o}]
  BY <1>1, <1>2, Zenon
<1> QED BY <1>3, Zenon

\* Each answer leaves the client with the flags of that ConfigMap, or with an
\* error.
LEMMA ClientStep ==
    ASSUME ClientInv, [Next]_vars
    PROVE  ClientInv'
<1>1. ASSUME UNCHANGED client PROVE ClientInv'
  BY <1>1 DEF ClientInv
<1>2. ASSUME handleEvaluateBulk PROVE ClientInv'
  <2>1. PICK config : config = getConfiguration(data)
    BY Zenon
  <2>2. PICK flags : flags = allFlags(config)
    BY Zenon
  <2>3. PICK now : now = data
    BY Zenon
  <2>4. PICK f, o : client \in [code: {0, 200, 304, 500}, etag: SUBSET {f}, flags: {f}, of: {o}]
    BY ClientHolds DEF ClientInv
  <2>5. PICK C : C = {0, 200, 304, 500}
    BY Zenon
  <2>6. PICK E : E = SUBSET {f}
    BY Zenon
  <2>7. PICK F : F = {f}
    BY Zenon
  <2>8. PICK O : O = {o}
    BY Zenon
  <2>9. client \in [code: C, etag: E, flags: F, of: O]
    BY <2>4, <2>5, <2>6, <2>7, <2>8, ZenonT(40)
  <2>10. ASSUME NEW code \in {0, 200, 304, 500}, NEW held,
               code \in {200, 304} => held = flags /\ (config # Absent => ~featuresFail(config)),
               client' \in [code: {code}, etag: SUBSET {held}, flags: {held}, of: {now}]
        PROVE  ClientInv'
    <3>1. client'.code = code /\ client'.flags = held /\ client'.of = now
      BY <2>10
    <3>2. getConfiguration(client'.of) = config
      BY <2>1, <2>3, <3>1
    <3>3. client' \in [code: {0, 200, 304, 500}, etag: SUBSET {client'.flags}, flags: {client'.flags},
                       of: {client'.of}]
      BY <2>10, <3>1
    <3>4. client'.code \in {200, 304} =>
            client'.flags = allFlags(config) /\ (config # Absent => ~featuresFail(config))
      BY <2>2, <2>10, <3>1
    <3> QED BY <3>2, <3>3, <3>4, ZenonT(40) DEF ClientInv
  <2>11. CASE config # Absent /\ featuresFail(config)
    <3>1. client' = [[client EXCEPT !.code = 500] EXCEPT !.of = now]
      BY <1>2, <2>1, <2>3, <2>11, ZenonT(40) DEF handleEvaluateBulk
    <3>2. PICK error : error = 500
      BY Zenon
    <3>3. client' = [[client EXCEPT !.code = error] EXCEPT !.of = now]
      BY <3>1, <3>2, Zenon
    <3>4. client' \in [code: {error}, etag: E, flags: F, of: {now}]
      BY <2>9, <3>3, AnsweredWithout, ZenonT(40)
    <3>5. client' \in [code: {error}, etag: SUBSET {f}, flags: {f}, of: {now}]
      BY <3>4, <2>6, <2>7, ZenonT(40)
    <3> QED BY <2>10, <3>2, <3>5
  <2>12. CASE ~(config # Absent /\ featuresFail(config)) /\ flags \in client.etag
    <3>1. client' = [[client EXCEPT !.code = 304] EXCEPT !.of = now]
      BY <1>2, <2>1, <2>2, <2>3, <2>12, ZenonT(40) DEF handleEvaluateBulk, generateEtag
    <3>2. client' \in [code: {304}, etag: E, flags: F, of: {now}]
      BY <2>9, <3>1, AnsweredWithout, ZenonT(40)
    <3>3. client' \in [code: {304}, etag: SUBSET {f}, flags: {f}, of: {now}]
      BY <3>2, <2>6, <2>7, Zenon
    <3>4. f = flags
      BY <2>4, <2>12
    <3> QED BY <2>10, <2>12, <3>3, <3>4
  <2>13. CASE ~(config # Absent /\ featuresFail(config)) /\ flags \notin client.etag
    <3>1. client' = [[client EXCEPT !.code = 200, !.etag = {flags}, !.flags = flags] EXCEPT !.of = now]
      BY <1>2, <2>1, <2>2, <2>3, <2>13, ZenonT(40) DEF handleEvaluateBulk, generateEtag
    <3>2. client' \in [code: {200}, etag: {{flags}}, flags: {flags}, of: {now}]
      BY <2>9, <3>1, AnsweredWith, ZenonT(40)
    <3>3. client' \in [code: {200}, etag: SUBSET {flags}, flags: {flags}, of: {now}]
      BY <3>2
    <3> QED BY <2>10, <2>13, <3>3
  <2> QED BY <2>11, <2>12, <2>13
<1> QED BY <1>1, <1>2, ZenonT(40)
        DEF Next, vars, MutateStatus, ChangeService, Collect, CreateVectorData, DeleteVectorData,
            ApplyRoute, Materialize

\* Every step of the pipeline keeps the inductive invariant.
LEMMA Stepwise == IInv /\ [Next]_vars => IInv'
  BY StatusStep, RouteStep, DataStep, ClientStep DEF IInv

\* The results on their way through the system.
THEOREM Inductive == Spec => []IInv
  BY Initially, Stepwise, PTL DEF Spec

-----------------------------------------------------------------------------
(* What follows: the invariants                                            *)

\* The variables keep their types: what comes out of the status updater, of Star
\* and of buildRouteRules is well-formed, and a ConfigMap has its VectorData.
THEOREM TypeCorrect == Spec => []TypeOK
<1>1. IInv => TypeOK
  <2> SUFFICES ASSUME IInv PROVE TypeOK
    OBVIOUS
  <2>1. services \in Seq(Service) /\ changes \in Nat
    BY DEF IInv, StatusInv
  <2>2. \A d \in Deployments :
          status[d].created \in {"Unknown", "True", "Stalled"} /\ status[d].results \in Seq(Result)
    BY DEF IInv, StatusInv
  <2>3. \A c \in DOMAIN vector : vector[c] \in Seq(Result)
    BY DEF IInv, RouteInv, FromStar, VectorType
  <2>4. route.rules \in Seq([header: Nat, backend: Nat, port: {"web", "rpc"}])
    BY BuiltRules DEF IInv, RouteInv, FromStar, RuleType
  <2>5. client.code \in {0, 200, 304, 500}
    BY DEF IInv, ClientInv
  <2>6. data # Absent => vectorData # Absent
    BY DEF IInv, DataInv
  <2> QED BY <2>1, <2>2, <2>3, <2>4, <2>5, <2>6, ZenonT(40) DEF TypeOK
<1> QED BY Inductive, <1>1, PTL

\* What the Flux deployer publishes is fit for buildRouteRules and for
\* assertUniqueResults, whatever the Services were like and however they change.
THEOREM AcceptedByBoth == Spec => []PublishedIsAccepted
<1>1. IInv => PublishedIsAccepted
  <2> SUFFICES ASSUME IInv, NEW d \in Deployments
               PROVE  /\ buildRouteRules([c \in {given.component[d]} |-> status[d].results]) # {}
                      /\ assertUniqueResults(status[d].results)
    BY Zenon DEF PublishedIsAccepted
  <2>1. given \in Scenario /\ DOMAIN given.component = Deployments
    BY ScenarioAssumption DEF IInv, StatusInv, Deployments
  <2>2. given.component \in Seq(Component)
    BY <2>1 DEF Scenario
  <2>3. given.component[d] \in Component
    BY <2>1, <2>2, LenProperties, ElementOfSeq
  <2>4. Published(status[d].results)
    BY DEF IInv, StatusInv
  <2> QED BY <2>3, <2>4, PublishedAccepted, ZenonT(40)
<1> QED BY Inductive, <1>1, PTL

\* The route has one rule for each exposed result of the vector it was built
\* from, to a TCP port of its Service: buildRouteRules leaves none out.
THEOREM NoneLeftOut == Spec => []EachExposedIsRouted
<1>1. IInv => EachExposedIsRouted
  <2> SUFFICES ASSUME IInv PROVE EachExposedIsRouted
    OBVIOUS
  <2>1. VectorType(route.from) /\ route.rules \in buildRouteRules(route.from)
    BY DEF IInv, RouteInv, FromStar
  <2>2. Len(route.rules) = Cardinality(Exposed(route.from))
    BY <2>1, BuiltRules
  <2>3. ASSUME NEW x \in Exposed(route.from)
        PROVE  /\ Rule(At(route.from, x)) \in ToSet(route.rules)
               /\ portSelectable(At(route.from, x).ports, At(route.from, x).exposed)
    BY <2>1, BuiltRules
  <2> QED BY <2>2, <2>3, ZenonT(40) DEF EachExposedIsRouted
<1> QED BY Inductive, <1>1, PTL

\* What getConfiguration reads out of the ConfigMap is what renderData was given:
\* no component is lost on the way to a key and back, and none takes another's place.
THEOREM ServedFaithfully == Spec => []ServedAsPublished
<1>1. IInv => ServedAsPublished
  <2> SUFFICES ASSUME IInv, data # Absent PROVE ServedAsPublished
    BY DEF ServedAsPublished
  <2>1. VectorType(vectorData.results) /\ data = renderData(vectorData)
    BY DEF IInv, DataInv
  <2>2. DOMAIN vectorData.results \subseteq Component
    BY <2>1 DEF VectorType
  <2> QED BY <2>1, <2>2, ServedBack, ZenonT(40) DEF ServedAsPublished
<1> QED BY Inductive, <1>1, PTL

\* A client of the bulk endpoint has for each flag what handleEvaluateSingle would
\* answer, also when it was only told that nothing has changed (304).
THEOREM BulkAgrees == Spec => []ClientAgrees
<1>1. IInv => ClientAgrees
  <2> SUFFICES ASSUME IInv, client.code \in {200, 304}, client.of = data, NEW key \in {"f", "g"}
               PROVE  LET held == IF key \in DOMAIN client.flags THEN client.flags[key] ELSE Nil
                      IN handleEvaluateSingle(key) = Answer(IF held = Nil THEN 404 ELSE 200, held)
    BY Zenon DEF ClientAgrees
  <2>1. PICK config : config = getConfiguration(data)
    BY Zenon
  <2>2. PICK flags : flags = client.flags
    OBVIOUS
  <2>3. flags = allFlags(config) /\ (config # Absent => ~featuresFail(config))
    BY <2>1, <2>2, ZenonT(40) DEF IInv, ClientInv
  <2>4. PICK held : held = IF key \in DOMAIN flags THEN flags[key] ELSE Nil
    OBVIOUS
  <2>5. SUFFICES handleEvaluateSingle(key) = Answer(IF held = Nil THEN 404 ELSE 200, held)
    BY <2>2, <2>4, ZenonT(40)
  <2>6. CASE config = Absent
    <3>1. DOMAIN flags = {}
      BY <2>3, <2>6 DEF allFlags
    <3>2. held = Nil
      BY <2>4, <3>1
    <3>3. handleEvaluateSingle(key) = Answer(404, Nil)
      BY <2>1, <2>6 DEF handleEvaluateSingle
    <3> QED BY <3>2, <3>3
  <2>7. CASE config # Absent
    <3>1. PICK features : features = config.features.flags
      OBVIOUS
    <3>2. flags = [k \in DOMAIN features |-> parseFlagValue(features[k])]
      BY <2>3, <2>7, <3>1, ZenonT(40) DEF allFlags
    <3>3. held = IF key \in DOMAIN features THEN parseFlagValue(features[key]) ELSE Nil
      BY <2>4, <3>2, ZenonT(40)
    <3>4. handleEvaluateSingle(key) = Answer(IF held = Nil THEN 404 ELSE 200, held)
      BY <2>1, <2>3, <2>7, <3>1, <3>3 DEF handleEvaluateSingle
    <3> QED BY <3>4
  <2> QED BY <2>6, <2>7
<1> QED BY Inductive, <1>1, PTL

-----------------------------------------------------------------------------
(* What follows: what a step may not do                                    *)

\* The status updater gives a deployment the results of its own Services, all of
\* them and no others, when sanitizing leaves its name alone: names are distinct.
THEOREM OwnServices == Spec => PublishesOwnServices
<1>1. ASSUME IInv, [Next]_vars, NEW d \in Deployments,
             status'[d] # status[d], status'[d].created = "True",
             SanitizeK8sResourceName(given.name[d]) = given.name[d]
      PROVE  {r.service : r \in ToSet(status'[d].results)} =
               {s \in DOMAIN services : given.owner[s] = d /\ hasDeploymentResultName(s)}
  <2>1. PICK e \in Deployments : MutateStatus(e)
    BY <1>1, Zenon DEF Next, vars, ChangeService, Collect, CreateVectorData, DeleteVectorData,
                       ApplyRoute, Materialize, handleEvaluateBulk
  <2>2. PICK new : status' = [status EXCEPT ![e] = new]
    BY <2>1, Zenon DEF MutateStatus
  <2>3. e = d
    BY <1>1, <2>2 DEF IInv, StatusInv
  <2>4. PICK listed : listed = fetchExposableServices(d)
    BY Zenon
  <2>5. \A out : status' = [status EXCEPT ![d] = out] => status'[d] = out
    BY <1>1 DEF IInv, StatusInv
  <2>6. /\ validateExposePorts(listed)
        /\ \E results \in mapServicesToDeploymentResults(listed) : status'[d].results = results
    <3>1. ASSUME ~validateExposePorts(listed) PROVE FALSE
      <4>1. status' = [status EXCEPT ![d] = [created |-> "Stalled", results |-> << >>]]
        BY <2>1, <2>3, <2>4, <3>1, ZenonT(40) DEF MutateStatus
      <4>2. status'[d].created = "Stalled"
        BY <2>5, <4>1, ZenonT(40)
      <4> QED BY <1>1, <4>2
    <3>2. validateExposePorts(listed)
      BY <3>1
    <3>3. PICK results \in mapServicesToDeploymentResults(listed) :
             status' = [status EXCEPT ![d] = [created |-> "True", results |-> results]]
      BY <2>1, <2>3, <2>4, <3>2, ZenonT(40) DEF MutateStatus
    <3>4. status'[d].results = results
      BY <2>5, <3>3, ZenonT(40)
    <3> QED BY <3>2, <3>4
  <2>7. services \in Seq(Service) /\ listed \in SUBSET DOMAIN services
    BY <1>1, <2>4 DEF IInv, StatusInv, fetchExposableServices
  <2>8. {r.service : r \in ToSet(status'[d].results)} = {s \in listed : hasDeploymentResultName(s)}
    BY <2>6, <2>7, MappedResults
  <2>9. \A s \in DOMAIN services : s \in listed <=> given.owner[s] = d
    <3>1. /\ \A s \in DOMAIN services : given.owner[s] \in DOMAIN given.name
          /\ \A a, b \in DOMAIN given.name : given.name[a] = given.name[b] => a = b
      BY <1>1, ScenarioAssumption DEF IInv, StatusInv
    <3> QED BY <1>1, <2>4, <3>1, ZenonT(40) DEF fetchExposableServices, Label, Deployments
  <2> QED BY <2>7, <2>8, <2>9, ZenonT(40)
<1>2. IInv /\ [Next]_vars => 
        [\A d \in Deployments :
           /\ status'[d] # status[d] /\ status'[d].created = "True"
           /\ SanitizeK8sResourceName(given.name[d]) = given.name[d]
           => {r.service : r \in ToSet(status'[d].results)} =
                {s \in DOMAIN services : given.owner[s] = d /\ hasDeploymentResultName(s)}]_vars
  BY <1>1, Zenon
<1> QED BY Inductive, <1>2, PTL DEF Spec, PublishesOwnServices

\* buildRouteRules sorts: results listed in another order give the same rules, as
\* long as no name occurs in two components.
THEOREM RouteStaysPut == Spec => RouteIsStable
<1> DEFINE same == /\ DOMAIN route'.from = DOMAIN route.from
                   /\ \A c \in DOMAIN route.from : ToSet(route'.from[c]) = ToSet(route.from[c])
           unique == \A x, y \in Exposed(route.from) :
                        At(route.from, x).name = At(route.from, y).name => x = y
<1>1. ASSUME IInv, [Next]_vars, same, unique PROVE route'.rules = route.rules
  <2>1. CASE route' = route
    BY <2>1
  <2>2. CASE ApplyRoute
    <3>1. PICK v : v = route.from
      BY Zenon
    <3>2. PICK rules \in buildRouteRules(vector) : route' = [rules |-> rules, from |-> vector]
      BY <2>2, Zenon DEF ApplyRoute
    <3>3. route'.rules = rules /\ route'.from = vector
      BY <3>2
    <3>4. FromStar(v) /\ FromStar(vector) /\ route.rules \in buildRouteRules(v)
      BY <1>1, <3>1 DEF IInv, RouteInv
    <3>5. ASSUME NEW c \in DOMAIN vector
          PROVE  \/ vector[c] = v[c]
                 \/ \A i, j \in DOMAIN vector[c] : vector[c][i].name = vector[c][j].name => i = j
      <4>1. c \in DOMAIN v
        BY <1>1, <3>1, <3>3, ZenonT(40)
      <4>2. CASE c \in ToSet(given.component)
        BY <3>4, <4>2, Zenon DEF FromStar, Published
      <4>3. CASE c \notin ToSet(given.component)
        BY <3>4, <4>1, <4>3, ZenonT(40) DEF FromStar
      <4> QED BY <4>2, <4>3
    <3>6. /\ DOMAIN v = DOMAIN vector /\ \A c \in DOMAIN v : ToSet(v[c]) = ToSet(vector[c])
          /\ \A x, y \in Exposed(v) : At(v, x).name = At(v, y).name => x = y
      BY <1>1, <3>1, <3>3, ZenonT(40)
    <3>7. VectorType(v) /\ VectorType(vector)
      BY <3>4 DEF FromStar
    <3> HIDE DEF same, unique
    <3> QED BY <3>2, <3>3, <3>4, <3>5, <3>6, <3>7, SameRules
  <2> QED BY <1>1, <2>1, <2>2, ZenonT(40)
          DEF Next, vars, MutateStatus, ChangeService, Collect, CreateVectorData, DeleteVectorData,
              Materialize, handleEvaluateBulk
<1>2. IInv /\ [Next]_vars => [same /\ unique => route'.rules = route.rules]_vars
  BY <1>1, Zenon
<1> QED BY Inductive, <1>2, PTL DEF Spec, RouteIsStable

=============================================================================
