----------------------------- MODULE MacAclProofs -----------------------------
(* What a reconciled MAC access list says stands, whatever IDs its entries    *)
(* get meanwhile, and an undisturbed update succeeds and leaves in place what *)
(* is to stay: for any rules, ID space, calls, faults and reboots.            *)
EXTENDS MacAcl, FiniteSetTheorems, WellFoundedInduction, TLAPS

-----------------------------------------------------------------------------
(* The inductive invariant.                                                *)

\* Entries: IDs of the space, no rule twice.
Tables == {e \in UNION {[S -> Rules] : S \in SUBSET (1..MaxId)} : IsInjective(e)}

Pcs == {"idle", "read", "refuse", "entries", "drop", "next", "write", "verify", "save"}
Applies == {"next", "write"}

TypeInv ==
    /\ native \in {Absent} \union Lists /\ current \in {Absent} \union Lists
    /\ db \in {Absent} \union Tables
    /\ entries \in Tables /\ target \in Tables /\ expected \in Tables /\ began \in Tables
    /\ bound \in BOOLEAN /\ unowned \in BOOLEAN /\ writeFailed \in BOOLEAN
    /\ quiet \in BOOLEAN /\ faultless \in BOOLEAN
    /\ call \in {NoCall} \union Calls /\ pc \in Pcs
    /\ result \in {"none", "done", "refused", "failed"}

\* Which calls may be where, and what they have prepared there.
CallInv ==
    /\ call = NoCall <=> pc = "idle"
    /\ pc \in Applies => call.op = "apply"
    /\ pc \in {"drop", "refuse"} => call.op = "delete"
    /\ pc \in Applies \union {"verify"} /\ call.op = "apply" => ListOf(target) = call.rules
    /\ pc \in {"read", "entries"} => began = NoEntries

\* What is noted is what stands, and what the call takes the switch to have.
NotedInv ==
    own # "none" =>
        /\ own = <<native>>
        /\ pc \notin {"idle", "read"} => current = native
        /\ pc = "save" => native = Goal
        /\ pc \in Applies /\ current # Absent => native = ListOf(entries)

\* Undisturbed, RESTCONF and the configuration agree, and the call knows both.
QuietInv ==
    quiet /\ faultless =>
        /\ result # "failed"
        /\ pc \notin {"idle", "read"} => unowned = bound
        /\ pc \in Applies \union {"entries", "drop"} => current = native
        /\ pc \in Applies \union {"drop", "verify"} => Synced
        /\ pc = "save" => Synced \/ began = NoEntries
        /\ pc \in {"entries", "drop"} /\ call.op = "delete" => ~bound /\ native # Absent
        /\ pc \in Applies => Entries = entries
        /\ pc = "write" => expected = Result
        /\ pc = "verify" /\ call.op = "apply" => db # Absent /\ Entries = expected
        /\ pc = "verify" => ~writeFailed
        /\ pc = "verify" /\ call.op = "delete" => native = Absent

IInv == TypeInv /\ CallInv /\ NotedInv /\ QuietInv /\ RetainedStay

-----------------------------------------------------------------------------
(* macTargets.                                                             *)

\* The last of ascending IDs is at least their number.
LEMMA LastIsLargest ==
    ASSUME NEW ids \in IdLists, NEW i \in 1..Len(ids)
    PROVE  ids[i] <= ids[Len(ids)]
<1>. Len(ids) \in Nat /\ ids \in Seq(1..MaxId) /\ Len(ids) \in 1..Len(ids)
  BY DEF IdLists
<1>1. CASE i = Len(ids)
  BY <1>1, MacTargetsAssumption
<1>2. CASE i < Len(ids)
  <2>1. ids[i] < ids[Len(ids)]
    BY <1>2 DEF IdLists, Ascending
  <2>. QED
    BY <2>1, MacTargetsAssumption
<1>. QED
  BY <1>1, <1>2

\* macTargets gives every rule an entry ID of the switch's ID space, in the
\* order of the rules, so that no two rules of an access list share an ID and
\* ascending IDs keep native order (macTargets, validateMAC's limit).
THEOREM TargetsFit ==
    ASSUME NEW ids \in IdLists, NEW n \in 0..MaxId
    PROVE  Targets(ids, n) \in IdLists /\ Len(Targets(ids, n)) = n
<1>. DEFINE k == Len(ids)
            t == Targets(ids, n)
            fresh == k = 0 \/ Exhausted(ids, n)
<1>0. /\ MaxId \in Nat \ {0} /\ k \in Nat /\ n \in Nat /\ n <= MaxId
      /\ ids \in Seq(1..MaxId) /\ \A i \in 1..k : ids[i] \in 1..MaxId
  BY MacTargetsAssumption DEF IdLists
<1>1. \A i \in 1..n : t[i] = IF fresh THEN i ELSE IF i <= k THEN ids[i] ELSE ids[k] + (i - k)
  BY DEF Targets
<1>2. \A i \in 1..n : t[i] \in 1..MaxId
  <2>. SUFFICES ASSUME NEW i \in 1..n PROVE t[i] \in 1..MaxId
    OBVIOUS
  <2>1. CASE fresh
    BY <1>0, <1>1, <2>1
  <2>2. CASE ~fresh /\ i <= k
    <3>1. t[i] = ids[i] /\ i \in 1..k
      BY <1>0, <1>1, <2>2
    <3>. QED
      BY <1>0, <3>1
  <2>3. CASE ~fresh /\ i > k
    <3>1. t[i] = ids[k] + (i - k)
      BY <1>0, <1>1, <2>3
    <3>2. k \in 1..k /\ ids[k] \in 1..MaxId
      BY <1>0, <2>3
    <3>3. (n - k) + ids[k] <= MaxId
      BY <1>0, <2>3, <3>2 DEF Exhausted
    <3>. QED
      BY <1>0, <2>3, <3>1, <3>2, <3>3
  <2>. QED
    BY <2>1, <2>2, <2>3, <1>0
<1>3. \A i, j \in 1..n : i < j => t[i] < t[j]
  <2>. SUFFICES ASSUME NEW i \in 1..n, NEW j \in 1..n, i < j PROVE t[i] < t[j]
    OBVIOUS
  <2>1. CASE fresh
    BY <1>0, <1>1, <2>1
  <2>2. CASE ~fresh /\ j <= k
    <3>1. i \in 1..k /\ j \in 1..k /\ t[i] = ids[i] /\ t[j] = ids[j]
      BY <1>0, <1>1, <2>2
    <3>. QED
      BY <3>1 DEF IdLists, Ascending
  <2>3. CASE ~fresh /\ i <= k /\ j > k
    <3>1. i \in 1..k /\ k \in 1..k /\ t[i] = ids[i] /\ t[j] = ids[k] + (j - k)
      BY <1>0, <1>1, <2>3
    <3>2. ids[i] <= ids[k]
      BY <3>1, LastIsLargest
    <3>. QED
      BY <1>0, <2>3, <3>1, <3>2
  <2>4. CASE ~fresh /\ i > k
    <3>1. k \in 1..k /\ t[i] = ids[k] + (i - k) /\ t[j] = ids[k] + (j - k)
      BY <1>0, <1>1, <2>4
    <3>. QED
      BY <1>0, <2>4, <3>1
  <2>. QED
    BY <2>1, <2>2, <2>3, <2>4, <1>0
<1>4. t \in Seq(1..MaxId) /\ Len(t) = n
  <2>1. t \in [1..n -> 1..MaxId]
    BY <1>2 DEF Targets
  <2>. QED
    BY <1>0, <2>1
<1>. QED
  BY <1>3, <1>4 DEF IdLists, Ascending

\* An entry whose position stays keeps its ID unless appending would exhaust
\* the IDs: reconciliation rewrites no rule it could leave alone (macTargets).
THEOREM PositionsKeepIds ==
    ASSUME NEW ids \in IdLists, NEW n \in 0..MaxId, ~Exhausted(ids, n),
           NEW i \in 1..n, i <= Len(ids)
    PROVE  Targets(ids, n)[i] = ids[i]
<1>1. Len(ids) # 0 /\ Len(ids) \in Nat
  BY MacTargetsAssumption DEF IdLists
<1>. QED
  BY <1>1 DEF Targets

-----------------------------------------------------------------------------
(* Ascending IDs.                                                          *)

\* A set of natural numbers has a least member.
LEMMA Least ==
    ASSUME NEW S \in SUBSET Nat, S # {}
    PROVE  \E x \in S : \A y \in S : x <= y
<1> DEFINE R == OpToRel(<, Nat)
<1>1. IsWellFoundedOn(R, Nat)
  BY NatLessThanWellFounded
<1> HIDE DEF R
<1>2. PICK x \in S : \A y \in S : ~(<<y, x>> \in R)
  BY <1>1, WFMin
<1>3. \A y \in S : x <= y
  <2> SUFFICES ASSUME NEW y \in S PROVE ~(y < x)
    BY <1>2
  <2>1. y < x => <<y, x>> \in R
    BY <1>2 DEF R, OpToRel
  <2> QED BY <1>2, <2>1
<1> QED BY <1>3

\* The entry that is removed first is the last of those to go.
LEMMA MaxIs ==
    ASSUME NEW S \in SUBSET (1..MaxId), S # {}
    PROVE  Max(S) \in S
<1> DEFINE T == {MaxId - x : x \in S}
<1>1. T \in SUBSET Nat /\ T # {}
  <2>1. \A x \in S : MaxId - x \in Nat
    BY MacTargetsAssumption
  <2> QED BY <2>1
<1>2. PICK t \in T : \A u \in T : t <= u
  BY <1>1, Least
<1>3. PICK x \in S : t = MaxId - x
  BY <1>2
<1>4. \A y \in S : x >= y
  BY <1>2, <1>3, MacTargetsAssumption
<1> QED BY <1>4 DEF Max

\* Ascending IDs are distinct.
LEMMA AscendingInjects ==
    ASSUME NEW n \in Nat, NEW S \in SUBSET Int, NEW ids \in [1..n -> S], Ascending(ids)
    PROVE  Len(ids) = n /\ ids \in Injection(1..n, S)
<1>1. Len(ids) = n
  OBVIOUS
<1>2. \A i, j \in 1..n : i < j => ids[i] < ids[j]
  BY <1>1 DEF Ascending
<1>3. \A i, j \in 1..n : ids[i] = ids[j] => i = j
  <2> SUFFICES ASSUME NEW i \in 1..n, NEW j \in 1..n, ids[i] = ids[j] PROVE i = j
    OBVIOUS
  <2>1. ids[i] \in Int /\ ids[j] \in Int
    OBVIOUS
  <2> QED BY <1>2, <2>1
<1> QED BY <1>1, <1>3 DEF Injection, IsInjective

\* There are as many ascending IDs as they number.
LEMMA AscendingCounts ==
    ASSUME NEW n \in Nat, NEW S \in SUBSET (1..MaxId), NEW ids \in [1..n -> S], Ascending(ids)
    PROVE  /\ IsFiniteSet(S) /\ Cardinality(S) \in Nat
           /\ n <= Cardinality(S) /\ Cardinality(S) <= MaxId
           /\ n = Cardinality(S) <=> \A x \in S : \E i \in 1..n : ids[i] = x
<1>1. IsFiniteSet(1..MaxId) /\ Cardinality(1..MaxId) = MaxId
  BY MacTargetsAssumption, FS_Interval
<1>2. IsFiniteSet(S) /\ Cardinality(S) <= MaxId
  BY <1>1, FS_Subset
<1>3. Cardinality(S) \in Nat
  BY <1>2, FS_CardinalityType
<1>4. ids \in Injection(1..n, S)
  BY AscendingInjects
<1>5. /\ Cardinality(1..n) <= Cardinality(S)
      /\ Cardinality(1..n) = Cardinality(S) <=> ids \in Surjection(1..n, S)
  BY <1>2, <1>4, FS_Injection
<1>6. Cardinality(1..n) = n
  BY FS_Interval
<1>7. ids \in Surjection(1..n, S) <=> \A x \in S : \E i \in 1..n : ids[i] = x
  BY DEF Surjection
<1> QED BY <1>2, <1>3, <1>5, <1>6, <1>7

\* Two ascending lists of the same IDs do not differ first where one is below.
LEMMA NotBelow ==
    ASSUME NEW n \in Nat, NEW S \in SUBSET Int, NEW c \in [1..n -> S], NEW d \in [1..n -> S],
           Ascending(c), Ascending(d), \A x \in S : \E i \in 1..n : d[i] = x,
           NEW i \in 1..n, \A j \in 1..n : j < i => c[j] = d[j]
    PROVE  ~(c[i] < d[i])
<1>1. Len(c) = n /\ Len(d) = n
  OBVIOUS
<1>2. /\ \A j, k \in 1..n : j < k => c[j] < c[k]
      /\ \A j, k \in 1..n : j < k => d[j] < d[k]
  BY <1>1 DEF Ascending
<1>3. PICK j \in 1..n : d[j] = c[i]
  OBVIOUS
<1>4. c[i] \in Int /\ d[i] \in Int /\ \A k \in 1..n : c[k] \in Int
  OBVIOUS
<1>5. CASE j < i
  BY <1>2, <1>3, <1>4, <1>5
<1>6. CASE j = i
  BY <1>3, <1>4, <1>6
<1>7. CASE i < j
  BY <1>2, <1>3, <1>4, <1>7
<1> QED BY <1>5, <1>6, <1>7

LEMMA AscendingIsUnique ==
    ASSUME NEW n \in Nat, NEW S \in SUBSET Int, NEW c \in [1..n -> S], NEW d \in [1..n -> S],
           Ascending(c), Ascending(d),
           \A x \in S : \E i \in 1..n : c[i] = x, \A x \in S : \E i \in 1..n : d[i] = x
    PROVE  c = d
<1> DEFINE Bad == {i \in 1..n : c[i] # d[i]}
<1>1. SUFFICES ASSUME Bad # {} PROVE FALSE
  OBVIOUS
<1>0. Bad \in SUBSET Nat
  OBVIOUS
<1>2. PICK i \in Bad : \A j \in Bad : i <= j
  <2> HIDE DEF Bad
  <2> QED BY <1>0, <1>1, Least
<1>3. i \in 1..n /\ c[i] # d[i] /\ \A j \in 1..n : j < i => c[j] = d[j]
  BY <1>2
<1>4. ~(c[i] < d[i]) /\ ~(d[i] < c[i])
  BY <1>3, NotBelow
<1>5. c[i] \in Int /\ d[i] \in Int
  BY <1>3
<1> QED BY <1>3, <1>4, <1>5

\* Every set of IDs can be listed in ascending order.
Listed(S) == \E n \in Nat : \E ids \in [1..n -> S] :
                 Ascending(ids) /\ \A x \in S : \E i \in 1..n : ids[i] = x

LEMMA ListedAfter ==
    ASSUME NEW m \in Nat, NEW S \in SUBSET (1..m), Listed(S)
    PROVE  Listed(S \union {m + 1})
<1>0. PICK n \in Nat : \E ids \in [1..n -> S] :
          Ascending(ids) /\ \A x \in S : \E i \in 1..n : ids[i] = x
  BY DEF Listed
<1>1. PICK ids \in [1..n -> S] :
          Ascending(ids) /\ \A x \in S : \E i \in 1..n : ids[i] = x
  BY <1>0
<1> DEFINE more == [i \in 1..n + 1 |-> IF i = n + 1 THEN m + 1 ELSE ids[i]]
<1>2. Len(ids) = n /\ Len(more) = n + 1
  OBVIOUS
<1>3. more \in [1..n + 1 -> S \union {m + 1}]
  OBVIOUS
<1>4. Ascending(more)
  <2> SUFFICES ASSUME NEW i \in 1..n + 1, NEW j \in 1..n + 1, i < j PROVE more[i] < more[j]
    BY <1>2 DEF Ascending
  <2>1. i \in 1..n
    OBVIOUS
  <2>2. more[i] = ids[i] /\ ids[i] \in 1..m
    <3>1. more[i] = ids[i]
      BY <2>1
    <3>2. ids[i] \in S
      BY <2>1
    <3> QED BY <3>1, <3>2
  <2>3. CASE j = n + 1
    BY <2>2, <2>3
  <2>4. CASE j # n + 1
    <3>1. j \in 1..n /\ more[j] = ids[j]
      BY <2>4
    <3>2. ids[i] < ids[j]
      BY <1>1, <1>2, <2>1, <3>1 DEF Ascending
    <3> QED BY <2>2, <3>1, <3>2
  <2> QED BY <2>3, <2>4
<1>5. \A x \in S \union {m + 1} : \E i \in 1..n + 1 : more[i] = x
  <2> TAKE x \in S \union {m + 1}
  <2>1. CASE x = m + 1
    BY <2>1
  <2>2. CASE x \in S
    <3>1. PICK i \in 1..n : ids[i] = x
      BY <1>1, <2>2
    <3> QED BY <3>1
  <2> QED BY <2>1, <2>2
<1>6. n + 1 \in Nat
  OBVIOUS
<1> HIDE DEF more
<1> QED BY <1>3, <1>4, <1>5, <1>6 DEF Listed

LEMMA AllListed ==
    ASSUME NEW S \in SUBSET (1..MaxId)
    PROVE  Listed(S)
<1> DEFINE Bad == {m \in Nat : \E T \in SUBSET (1..m) : ~Listed(T)}
<1>1. SUFFICES ASSUME Bad # {} PROVE FALSE
  BY MacTargetsAssumption
<1>2. PICK m \in Bad : \A k \in Bad : m <= k
  BY <1>1, Least
<1>3. PICK T \in SUBSET (1..m) : ~Listed(T)
  BY <1>2
<1>4. CASE m = 0
  <2>1. T = {}
    BY <1>3, <1>4
  <2>2. <<>> \in [1..0 -> T] /\ Len(<<>>) = 0
    OBVIOUS
  <2>3. Ascending(<<>>)
    BY <2>2 DEF Ascending
  <2>4. Listed(T)
    BY <2>1, <2>2, <2>3 DEF Listed
  <2> QED BY <1>3, <2>4
<1>5. CASE m # 0
  <2>1. PICK k \in Nat : m = k + 1
    BY <1>2, <1>5
  <2>2. k \notin Bad
    BY <1>2, <2>1
  <2>3. T \ {m} \in SUBSET (1..k)
    BY <1>3, <2>1
  <2>4. Listed(T \ {m})
    BY <2>2, <2>3
  <2>5. CASE m \in T
    <3>1. T = (T \ {m}) \union {k + 1}
      BY <2>1, <2>5
    <3> QED BY <1>3, <2>3, <2>4, <3>1, ListedAfter
  <2>6. CASE m \notin T
    <3>1. T = T \ {m}
      BY <2>6
    <3> QED BY <1>3, <2>4, <3>1
  <2> QED BY <2>5, <2>6
<1> QED BY <1>4, <1>5

LEMMA SeqIs ==
    ASSUME NEW S, NEW n \in Nat, NEW s \in [1..n -> S]
    PROVE  s \in Seq(S) /\ Len(s) = n
OBVIOUS

LEMMA SeqHas ==
    ASSUME NEW S, NEW s \in Seq(S)
    PROVE  s \in [1..Len(s) -> S]
OBVIOUS

\* What Ids picks: all the IDs, once each, in ascending order.
LEMMA IdsAre ==
    ASSUME NEW e, DOMAIN e \in SUBSET (1..MaxId)
    PROVE  /\ Cardinality(DOMAIN e) \in 0..MaxId
           /\ Ids(e) \in [1..Cardinality(DOMAIN e) -> DOMAIN e] /\ Ascending(Ids(e))
           /\ \A x \in DOMAIN e : \E i \in 1..Cardinality(DOMAIN e) : Ids(e)[i] = x
<1> DEFINE D == DOMAIN e
           k == Cardinality(D)
<1>0. MaxId \in Nat
  BY MacTargetsAssumption
<1> HIDE DEF D
<1>1. D \in SUBSET (1..MaxId)
  BY DEF D
<1>2. PICK n \in Nat : \E ids \in [1..n -> D] : Ascending(ids) /\ \A x \in D : \E i \in 1..n : ids[i] = x
  BY <1>1, AllListed DEF Listed
<1>3. PICK ids \in [1..n -> D] : Ascending(ids) /\ \A x \in D : \E i \in 1..n : ids[i] = x
  BY <1>2
<1>4. n = k /\ k \in Nat /\ k <= MaxId
  BY <1>1, <1>2, <1>3, AscendingCounts
<1>5. \E c \in [1..k -> D] : Ascending(c)
  BY <1>3, <1>4
<1>6. Ids(e) = CHOOSE c \in [1..k -> D] : Ascending(c)
  BY DEF Ids, D
<1>7. Ids(e) \in [1..k -> D] /\ Ascending(Ids(e))
  BY <1>5, <1>6
<1>8. \A x \in D : \E i \in 1..k : Ids(e)[i] = x
  BY <1>1, <1>4, <1>7, AscendingCounts
<1>9. k \in 0..MaxId
  BY <1>0, <1>4
<1> QED BY <1>7, <1>8, <1>9 DEF D

LEMMA TableIs ==
    ASSUME NEW e \in Tables
    PROVE  /\ DOMAIN e \in SUBSET (1..MaxId) /\ e \in [DOMAIN e -> Rules]
           /\ \A x, y \in DOMAIN e : e[x] = e[y] => x = y
BY DEF Tables, IsInjective

LEMMA TableIf ==
    ASSUME NEW S \in SUBSET (1..MaxId), NEW e \in [S -> Rules],
           \A x, y \in S : e[x] = e[y] => x = y
    PROVE  e \in Tables
<1>1. IsInjective(e)
  BY DEF IsInjective
<1> QED BY <1>1 DEF Tables

LEMMA ListIs ==
    ASSUME NEW rules \in Lists
    PROVE  /\ Len(rules) \in 0..MaxId /\ rules \in [1..Len(rules) -> Rules]
           /\ \A i, j \in 1..Len(rules) : rules[i] = rules[j] => i = j
<1>1. PICK m \in 0..MaxId : rules \in [1..m -> Rules]
  BY DEF Lists, SeqOf
<1>2. Len(rules) = m
  BY <1>1, MacTargetsAssumption
<1>3. IsInjective(rules)
  BY DEF Lists
<1> QED BY <1>1, <1>2, <1>3 DEF IsInjective

LEMMA ListIf ==
    ASSUME NEW m \in 0..MaxId, NEW rules \in [1..m -> Rules],
           \A i, j \in 1..m : rules[i] = rules[j] => i = j
    PROVE  rules \in Lists
<1>1. IsInjective(rules)
  BY DEF IsInjective
<1>2. rules \in SeqOf(Rules, MaxId)
  BY DEF SeqOf
<1> QED BY <1>1, <1>2 DEF Lists

\* Neither entries nor rules are no access list.
LEMMA NotAbsent == Absent \notin Tables /\ Absent \notin Lists
<1>1. \A S \in SUBSET (1..MaxId) : Absent \notin [S -> Rules]
  BY MacAclAssumption
<1>2. Absent \notin Tables
  BY <1>1, Zenon DEF Tables
<1>3. \A m \in 0..MaxId : 1..m \in SUBSET (1..MaxId)
  BY MacTargetsAssumption
<1>4. Absent \notin Lists
  BY <1>1, <1>3, Zenon DEF Lists, SeqOf
<1> QED BY <1>2, <1>4

\* The rules of entries, in the order of their IDs.
LEMMA ListOfIs ==
    ASSUME NEW e \in Tables
    PROVE  ListOf(e) \in Lists /\ Ids(e) \in IdLists
<1> DEFINE D == DOMAIN e
           k == Cardinality(D)
           c == Ids(e)
<1>1. /\ D \in SUBSET (1..MaxId) /\ e \in [D -> Rules] /\ \A x, y \in D : e[x] = e[y] => x = y
  BY TableIs
<1>2. k \in 0..MaxId /\ c \in [1..k -> D] /\ Ascending(c)
  BY <1>1, IdsAre
<1> HIDE DEF D, k, c
<1>3. k \in Nat /\ D \in SUBSET Int
  BY <1>1, <1>2, MacTargetsAssumption
<1>4. Len(c) = k /\ c \in Injection(1..k, D)
  BY <1>2, <1>3, AscendingInjects
<1>5. ListOf(e) = [i \in 1..k |-> e[c[i]]]
  BY <1>4 DEF ListOf, c
<1>6. ListOf(e) \in [1..k -> Rules]
  <2>1. \A i \in 1..k : c[i] \in D
    BY <1>2
  <2>2. \A i \in 1..k : e[c[i]] \in Rules
    BY <1>1, <2>1
  <2> QED BY <1>5, <2>2
<1>7. \A i, j \in 1..k : c[i] = c[j] => i = j
  BY <1>4 DEF Injection, IsInjective
<1>8. \A i, j \in 1..k : ListOf(e)[i] = ListOf(e)[j] => i = j
  <2>1. \A i \in 1..k : c[i] \in D /\ ListOf(e)[i] = e[c[i]]
    BY <1>2, <1>5
  <2> SUFFICES ASSUME NEW i \in 1..k, NEW j \in 1..k, ListOf(e)[i] = ListOf(e)[j] PROVE i = j
    OBVIOUS
  <2>2. c[i] = c[j]
    <3>1. c[i] \in D /\ c[j] \in D /\ e[c[i]] = e[c[j]]
      BY <2>1
    <3> QED BY <1>1, <3>1, Zenon
  <2> QED BY <1>7, <2>2
<1>9. ListOf(e) \in Lists
  BY <1>2, <1>6, <1>8, ListIf
<1>10. c \in Seq(1..MaxId)
  <2>1. c \in [1..k -> 1..MaxId]
    BY <1>1, <1>2
  <2> QED BY <1>3, <2>1, SeqIs
<1> QED BY <1>2, <1>9, <1>10 DEF IdLists, c

\* Rules numbered in ascending order are entries that list them in their order.
LEMMA NumberedIs ==
    ASSUME NEW rules \in Lists, NEW ids \in [1..Len(rules) -> 1..MaxId], Ascending(ids)
    PROVE  Numbered(ids, rules) \in Tables /\ ListOf(Numbered(ids, rules)) = rules
<1> DEFINE n == Len(rules)
           D == {ids[i] : i \in 1..n}
           e == Numbered(ids, rules)
           c == Ids(e)
<1>1. /\ n \in Nat /\ n \in 0..MaxId /\ rules \in [1..n -> Rules]
      /\ \A i, j \in 1..n : rules[i] = rules[j] => i = j
  BY ListIs, MacTargetsAssumption
<1> HIDE DEF n, D
<1>2. D \in SUBSET (1..MaxId) /\ ids \in [1..n -> D] /\ D \in SUBSET Int
  BY DEF n, D
<1>3. \A x \in D : \E i \in 1..n : ids[i] = x
  BY DEF D
<1>4. \A i, j \in 1..n : ids[i] = ids[j] => i = j
  BY <1>1, <1>2, AscendingInjects DEF Injection, IsInjective
<1>5. e = [id \in D |-> rules[CHOOSE i \in 1..n : ids[i] = id]]
  BY DEF Numbered, n, D
<1> HIDE DEF e
<1>6. \A i \in 1..n : e[ids[i]] = rules[i]
  <2> TAKE i \in 1..n
  <2>1. (CHOOSE j \in 1..n : ids[j] = ids[i]) = i
    BY <1>4
  <2>2. ids[i] \in D
    BY DEF D
  <2> QED BY <1>5, <2>1, <2>2
<1>7. DOMAIN e = D /\ e \in [D -> Rules]
  <2>1. \A x \in D : (CHOOSE i \in 1..n : ids[i] = x) \in 1..n
    BY <1>3
  <2> QED BY <1>1, <1>5, <2>1
<1>8. \A x, y \in D : e[x] = e[y] => x = y
  <2> SUFFICES ASSUME NEW x \in D, NEW y \in D, e[x] = e[y] PROVE x = y
    OBVIOUS
  <2>1. PICK i \in 1..n : ids[i] = x
    BY <1>3
  <2>2. PICK j \in 1..n : ids[j] = y
    BY <1>3
  <2>3. rules[i] = rules[j]
    BY <1>6, <2>1, <2>2
  <2> QED BY <1>1, <2>1, <2>2, <2>3
<1>9. e \in Tables
  BY <1>2, <1>7, <1>8, TableIf
<1>10. Cardinality(D) = n
  BY <1>1, <1>2, <1>3, AscendingCounts
<1>11. c \in [1..n -> D] /\ Ascending(c) /\ \A x \in D : \E i \in 1..n : c[i] = x
  BY <1>2, <1>7, <1>10, IdsAre
<1> HIDE DEF c
<1>12. c = ids
  BY <1>1, <1>2, <1>3, <1>11, AscendingIsUnique
<1>13. Len(c) = n
  BY <1>1, <1>11
<1>14. ListOf(e) = [i \in 1..n |-> e[c[i]]]
  BY <1>13 DEF ListOf, c
<1>15. ListOf(e) = rules
  BY <1>1, <1>6, <1>12, <1>14
<1> QED BY <1>9, <1>15 DEF e

LEMMA NumberingsAre ==
    ASSUME NEW rules \in Lists, NEW e \in Numberings(rules)
    PROVE  e \in Tables /\ ListOf(e) = rules
<1>1. PICK ids \in [1..Len(rules) -> 1..MaxId] : Ascending(ids) /\ e = Numbered(ids, rules)
  BY DEF Numberings
<1> QED BY <1>1, NumberedIs

\* Wanted rules, under the IDs macTargets gives them.
LEMMA TargetIs ==
    ASSUME NEW e \in Tables, NEW rules \in Lists
    PROVE  LET t == Numbered(Targets(Ids(e), Len(rules)), rules) IN t \in Tables /\ ListOf(t) = rules
<1> DEFINE ids == Targets(Ids(e), Len(rules))
<1>1. Len(rules) \in 0..MaxId /\ Ids(e) \in IdLists
  BY ListIs, ListOfIs
<1>2. ids \in IdLists /\ Len(ids) = Len(rules)
  BY <1>1, TargetsFit
<1> HIDE DEF ids
<1>3. ids \in [1..Len(rules) -> 1..MaxId] /\ Ascending(ids)
  <2>1. ids \in Seq(1..MaxId) /\ Ascending(ids)
    BY <1>2 DEF IdLists
  <2>2. ids \in [1..Len(ids) -> 1..MaxId]
    BY <2>1, SeqHas
  <2> QED BY <1>2, <2>1, <2>2
<1>4. Numbered(ids, rules) \in Tables /\ ListOf(Numbered(ids, rules)) = rules
  BY <1>3, NumberedIs
<1> QED BY <1>4 DEF ids

-----------------------------------------------------------------------------
(* What requests do to the switch.                                         *)

LEMMA NoneIs == NoEntries \in Tables /\ DOMAIN NoEntries = {}
<1>1. {} \in SUBSET (1..MaxId) /\ NoEntries \in [{} -> Rules]
  BY DEF NoEntries
<1> QED BY <1>1, TableIf

LEMMA RestrictIs ==
    ASSUME NEW e \in Tables, NEW S \in SUBSET DOMAIN e
    PROVE  /\ Restrict(e, S) \in Tables /\ DOMAIN Restrict(e, S) = S
           /\ \A x \in S : Restrict(e, S)[x] = e[x]
<1>1. /\ DOMAIN e \in SUBSET (1..MaxId) /\ e \in [DOMAIN e -> Rules]
      /\ \A x, y \in DOMAIN e : e[x] = e[y] => x = y
  BY TableIs
<1>2. DOMAIN Restrict(e, S) = S /\ \A x \in S : Restrict(e, S)[x] = e[x]
  BY DEF Restrict
<1>3. Restrict(e, S) \in [S -> Rules]
  BY <1>1 DEF Restrict
<1>4. \A x, y \in S : Restrict(e, S)[x] = Restrict(e, S)[y] => x = y
  BY <1>1, <1>2
<1>5. S \in SUBSET (1..MaxId)
  BY <1>1
<1> QED BY <1>2, <1>3, <1>4, <1>5, TableIf

LEMMA SeedIs == [id \in {1} |-> Deny] \in Tables
<1>1. {1} \in SUBSET (1..MaxId) /\ [id \in {1} |-> Deny] \in [{1} -> Rules]
  BY MacTargetsAssumption, MacAclAssumption
<1> QED BY <1>1, TableIf

LEMMA EntriesAre ==
    ASSUME TypeInv
    PROVE  Entries \in Tables /\ (db = Absent => Entries = NoEntries) /\ (db # Absent => Entries = db)
BY NoneIs DEF TypeInv, Entries

LEMMA WithIs ==
    ASSUME TypeInv, NEW a \in Tables
    PROVE  /\ DOMAIN With(a) = DOMAIN a \union DOMAIN Entries
           /\ \A x \in DOMAIN a : With(a)[x] = a[x]
           /\ \A x \in DOMAIN Entries \ DOMAIN a : With(a)[x] = Entries[x]
           /\ ~Collides(a) => With(a) \in Tables
<1> DEFINE e == Entries
           m == With(a)
           D == DOMAIN a \union DOMAIN e
<1>0. e \in Tables
  BY EntriesAre
<1>1. /\ DOMAIN a \in SUBSET (1..MaxId) /\ a \in [DOMAIN a -> Rules]
      /\ \A x, y \in DOMAIN a : a[x] = a[y] => x = y
  BY TableIs
<1>2. /\ DOMAIN e \in SUBSET (1..MaxId) /\ e \in [DOMAIN e -> Rules]
      /\ \A x, y \in DOMAIN e : e[x] = e[y] => x = y
  BY <1>0, TableIs
<1>3. m = [x \in D |-> IF x \in DOMAIN a THEN a[x] ELSE e[x]]
  BY DEF With
<1> HIDE DEF m
<1>4. /\ DOMAIN m = D /\ \A x \in DOMAIN a : m[x] = a[x]
      /\ \A x \in DOMAIN e \ DOMAIN a : m[x] = e[x]
  BY <1>3
<1>5. m \in [D -> Rules] /\ D \in SUBSET (1..MaxId)
  BY <1>1, <1>2, <1>3
<1>6. ASSUME ~Collides(a)
      PROVE  m \in Tables
  <2>0. \A x \in DOMAIN a, y \in DOMAIN e : x # y /\ a[x] # e[y]
    BY <1>6 DEF Collides
  <2> SUFFICES ASSUME NEW x \in D, NEW y \in D, m[x] = m[y] PROVE x = y
    BY <1>5, TableIf
  <2>1. CASE x \in DOMAIN a /\ y \in DOMAIN a
    BY <1>1, <1>4, <2>1
  <2>2. CASE x \in DOMAIN a /\ y \notin DOMAIN a
    BY <1>4, <2>0, <2>2
  <2>3. CASE x \notin DOMAIN a /\ y \in DOMAIN a
    BY <1>4, <2>0, <2>3
  <2>4. CASE x \notin DOMAIN a /\ y \notin DOMAIN a
    BY <1>2, <1>4, <2>4
  <2> QED BY <2>1, <2>2, <2>3, <2>4
<1> QED BY <1>4, <1>6 DEF m

\* A step after which the switch still holds an access list or none.
SwitchKept == native' \in {Absent} \union Lists /\ db' \in {Absent} \union Tables /\ bound' = bound

LEMMA PutIs ==
    ASSUME NEW e \in {Absent} \union Tables, Put(e)
    PROVE  SwitchKept /\ Synced' /\ db' = e
<1>1. db' = e /\ native' = (IF e = Absent THEN Absent ELSE ListOf(e)) /\ bound' = bound
  BY DEF Put
<1>2. e # Absent => ListOf(e) \in Lists /\ ListOf(e) # Absent
  BY ListOfIs, NotAbsent
<1>3. ListOf(db)' = ListOf(db')
  BY DEF ListOf, Ids, Ascending
<1>4. SwitchKept
  BY <1>1, <1>2 DEF SwitchKept
<1>5. Synced'
  BY <1>1, <1>2, <1>3 DEF Synced
<1> QED BY <1>1, <1>4, <1>5

LEMMA ExactlyIs ==
    ASSUME NEW e \in Tables, Exactly(e)
    PROVE  SwitchKept /\ (Synced => Synced' /\ db' = e)
<1>1. CASE Synced
  <2>1. Put(e)
    BY <1>1 DEF Exactly
  <2> QED BY <2>1, PutIs
<1>2. CASE ~Synced
  <2>1. PICK rules \in Wanted \union {Absent} :
            /\ native' = rules /\ bound' = bound
            /\ db' \in IF rules = Absent THEN {Absent} ELSE Numberings(rules)
    BY <1>2 DEF Exactly
  <2>2. rules # Absent => rules \in Lists
    BY DEF Wanted
  <2>3. db' \in {Absent} \union Tables
    BY <2>1, <2>2, NumberingsAre
  <2> QED BY <1>2, <2>1, <2>2, <2>3 DEF SwitchKept
<1> QED BY <1>1, <1>2

LEMMA Unchanged ==
    ASSUME TypeInv, UNCHANGED switch
    PROVE  SwitchKept /\ db' = db /\ native' = native
BY DEF TypeInv, switch, SwitchKept

LEMMA PatchIs ==
    ASSUME TypeInv, NEW added \in Tables, Patch(added)
    PROVE  SwitchKept /\ (Synced /\ ~Collides(added) => Synced' /\ db' = With(added))
<1>1. CASE Collides(added)
  BY <1>1, Unchanged DEF Patch
<1>2. CASE ~Collides(added)
  <2>1. Exactly(With(added))
    BY <1>2 DEF Patch
  <2>2. With(added) \in Tables
    BY <1>2, WithIs
  <2> QED BY <1>2, <2>1, <2>2, ExactlyIs
<1> QED BY <1>1, <1>2

LEMMA DeleteEntryIs ==
    ASSUME TypeInv, NEW id, DeleteEntry(id)
    PROVE  /\ SwitchKept
           /\ Synced /\ id \in DOMAIN Entries =>
                  Synced' /\ db' = Restrict(Entries, DOMAIN Entries \ {id})
<1>1. CASE id \notin DOMAIN Entries
  BY <1>1, Unchanged DEF DeleteEntry
<1>2. CASE id \in DOMAIN Entries
  <2>1. Exactly(Restrict(Entries, DOMAIN Entries \ {id}))
    BY <1>2 DEF DeleteEntry
  <2>2. Restrict(Entries, DOMAIN Entries \ {id}) \in Tables
    BY EntriesAre, RestrictIs
  <2> QED BY <2>1, <2>2, ExactlyIs
<1> QED BY <1>1, <1>2

LEMMA DeleteSetIs ==
    ASSUME TypeInv, DeleteSet
    PROVE  SwitchKept /\ (~bound /\ db # Absent => Synced' /\ db' = Absent)
<1>1. CASE db # Absent /\ Put(Absent)
  BY <1>1, PutIs
<1>2. CASE (db = Absent \/ bound) /\ UNCHANGED switch
  BY <1>2, Unchanged
<1> QED BY <1>1, <1>2 DEF DeleteSet

\* The call's own work: entries that go, that come, and that remain.
LEMMA WorkIs ==
    ASSUME TypeInv
    PROVE  /\ Changed \in SUBSET DOMAIN entries /\ Added \in Tables /\ Initial \in Tables
           /\ Result \in Tables
           /\ DOMAIN Added = {id \in DOMAIN target : id \notin DOMAIN entries \/ target[id] # entries[id]}
           /\ \A id \in DOMAIN Added : Added[id] = target[id]
<1>1. target \in Tables /\ entries \in Tables
  BY DEF TypeInv
<1>2. Changed \in SUBSET DOMAIN entries
  BY DEF Changed
<1> DEFINE S == {id \in DOMAIN target : id \notin DOMAIN entries \/ target[id] # entries[id]}
<1>3. S \in SUBSET DOMAIN target /\ Added = Restrict(target, S)
  BY DEF Added
<1> HIDE DEF S
<1>4. Added \in Tables /\ DOMAIN Added = S /\ \A id \in S : Added[id] = target[id]
  BY <1>1, <1>3, RestrictIs
<1>5. Initial \in Tables
  BY <1>1, SeedIs DEF Initial
<1>6. \A id : Restrict(entries, DOMAIN entries \ {id}) \in Tables
  BY <1>1, RestrictIs
<1>7. Result \in Tables
  BY <1>1, <1>5, <1>6 DEF Result
<1> QED BY <1>2, <1>4, <1>5, <1>7 DEF S

-----------------------------------------------------------------------------
(* Every action keeps the invariant.                                       *)

LEMMA CallIs ==
    ASSUME NEW c \in Calls
    PROVE  c # NoCall /\ ((c.op = "apply" /\ c.rules \in Lists) \/ c.op = "delete")
BY DEF Calls, NoCall, Wanted

LEMMA Primes ==
    /\ ListOf(target)' = ListOf(target') /\ ListOf(entries)' = ListOf(entries')
    /\ ListOf(db)' = ListOf(db')
BY DEF ListOf, Ids, Ascending

\* A call that returns notes nothing but what stands, and no quiet one failed.
LEMMA Returned ==
    ASSUME IInv, NEW how \in {"done", "refused", "failed"}, NEW note, Return(how, note),
           UNCHANGED local, quiet' = quiet, faultless' \in {faultless, FALSE},
           how = "failed" => ~quiet \/ ~faultless',
           note # "none" => note = <<native>>
    PROVE  IInv'
<1>1. /\ pc' = "idle" /\ call' = NoCall /\ result' = how /\ own' = note
      /\ native' = native /\ db' = db /\ bound' = bound
      /\ current' = current /\ unowned' = unowned /\ entries' = entries /\ target' = target
      /\ expected' = expected /\ writeFailed' = writeFailed /\ began' = began
  BY DEF Return, switch, local
<1>2. faultless' \in BOOLEAN
  BY DEF IInv, TypeInv
<1>3. TypeInv'
  BY <1>1, <1>2 DEF IInv, TypeInv, Pcs
<1>4. CallInv'
  BY <1>1 DEF CallInv, Applies
<1>5. NotedInv'
  BY <1>1 DEF NotedInv, Applies
<1>6. QuietInv'
  BY <1>1 DEF QuietInv, Applies
<1>7. RetainedStay'
  BY <1>1 DEF RetainedStay, NoCall
<1> QED BY <1>3, <1>4, <1>5, <1>6, <1>7 DEF IInv

LEMMA BoundsKept ==
    ASSUME IInv, UNCHANGED bounds
    PROVE  quiet' = quiet /\ faultless' = faultless
BY DEF bounds

LEMMA BeginKeeps ==
    ASSUME IInv, NEW c \in Calls, Begin(c)
    PROVE  IInv'
<1>1. /\ call' = c /\ pc' = "read" /\ current' = Absent /\ unowned' = FALSE
      /\ entries' = NoEntries /\ target' = NoEntries /\ expected' = NoEntries
      /\ began' = NoEntries /\ writeFailed' = FALSE /\ own' = "none" /\ result' = "none"
      /\ quiet' = TRUE /\ faultless' = TRUE
      /\ native' = native /\ db' = db /\ bound' = bound
  BY DEF Begin, switch
<1>2. TypeInv'
  BY <1>1, NoneIs DEF IInv, TypeInv, Pcs
<1>3. CallInv'
  BY <1>1, CallIs DEF CallInv, Applies
<1>4. NotedInv'
  BY <1>1 DEF NotedInv
<1>5. QuietInv'
  BY <1>1 DEF QuietInv, Applies
<1>6. RetainedStay'
  BY <1>1 DEF RetainedStay
<1> QED BY <1>2, <1>3, <1>4, <1>5, <1>6 DEF IInv

LEMMA ReadKeeps ==
    ASSUME IInv, Read
    PROVE  IInv'
<1>1. /\ pc = "read" /\ current' = native /\ unowned' = bound /\ own' = <<native>>
      /\ pc' = IF native = Goal THEN "save"
               ELSE IF call.op = "delete" /\ Referenced THEN "refuse" ELSE "entries"
      /\ native' = native /\ db' = db /\ bound' = bound /\ call' = call
      /\ entries' = entries /\ target' = target /\ expected' = expected
      /\ writeFailed' = writeFailed /\ began' = began /\ result' = result
      /\ quiet' = quiet /\ faultless' = faultless
  BY DEF Read, switch, bounds
<1>2. TypeInv'
  BY <1>1 DEF IInv, TypeInv, Pcs
<1>3. pc' \in {"save", "refuse", "entries"} /\ (pc' = "refuse" => call.op = "delete")
      /\ (pc' = "save" => native = Goal)
  BY <1>1
<1>4. Goal' = Goal
  BY <1>1 DEF Goal
<1>5. began = NoEntries /\ call # NoCall
  BY <1>1 DEF IInv, CallInv
<1>6. CallInv'
  BY <1>1, <1>3, <1>5 DEF CallInv, Applies
<1>7. NotedInv'
  BY <1>1, <1>3, <1>4 DEF NotedInv, Applies
<1>8. QuietInv'
  <2> SUFFICES ASSUME quiet, faultless PROVE QuietInv'
    BY <1>1 DEF QuietInv
  <2>1. result # "failed"
    BY DEF IInv, QuietInv
  <2>2. pc' = "entries" /\ call.op = "delete" => ~bound /\ native # Absent
    BY <1>1 DEF Goal, Referenced
  <2> QED BY <1>1, <1>3, <1>5, <2>1, <2>2 DEF QuietInv, Applies
<1>9. RetainedStay'
  <2>1. DOMAIN began' = {}
    BY <1>1, <1>5, NoneIs
  <2> QED BY <1>1, <2>1 DEF RetainedStay
<1> QED BY <1>2, <1>6, <1>7, <1>8, <1>9 DEF IInv

LEMMA ReadEntriesKeeps ==
    ASSUME IInv, ReadEntries
    PROVE  IInv'
<1>1. CASE ~Agrees
  <2>1. Return("refused", "none") /\ UNCHANGED <<local, bounds>>
    BY <1>1 DEF ReadEntries, Refuse
  <2>2. quiet' = quiet /\ faultless' = faultless /\ UNCHANGED local
    BY <2>1 DEF bounds
  <2> QED BY <2>1, <2>2, Returned
<1>2. CASE Agrees
  <2>1. /\ pc = "entries" /\ entries' = Entries /\ began' = Entries
        /\ target' = (IF call.op = "apply" THEN Target ELSE NoEntries)
        /\ pc' = (IF call.op = "delete" THEN "drop" ELSE "next")
        /\ native' = native /\ db' = db /\ bound' = bound /\ call' = call
        /\ current' = current /\ unowned' = unowned /\ expected' = expected
        /\ writeFailed' = writeFailed /\ own' = own /\ result' = result
        /\ quiet' = quiet /\ faultless' = faultless
    BY <1>2 DEF ReadEntries, switch, bounds
  <2>2. call # NoCall /\ call \in Calls
    BY <2>1 DEF IInv, CallInv, TypeInv
  <2>3. Entries \in Tables /\ (db # Absent => Entries = db)
    BY EntriesAre DEF IInv
  <2>4. call.op = "apply" => Target \in Tables /\ ListOf(Target) = call.rules
    BY <2>2, <2>3, CallIs, TargetIs DEF Target
  <2>5. target' \in Tables
    BY <2>1, <2>4, NoneIs
  <2>6. TypeInv'
    BY <2>1, <2>3, <2>5 DEF IInv, TypeInv, Pcs
  <2>7. \/ pc' = "drop" /\ call.op = "delete"
        \/ pc' = "next" /\ call.op = "apply"
    BY <2>1, <2>2, CallIs
  <2>8. CallInv'
    BY <2>1, <2>2, <2>4, <2>7, Primes DEF CallInv, Applies
  <2>9. Goal' = Goal /\ Entries' = Entries
    BY <2>1 DEF Goal, Entries
  <2>10. Agrees => current = IF db = Absent THEN Absent ELSE ListOf(db)
    BY DEF Agrees
  <2>11. NotedInv'
    <3> SUFFICES ASSUME own # "none" PROVE NotedInv'
      BY <2>1 DEF NotedInv
    <3>1. own = <<native>> /\ current = native
      BY <2>1 DEF IInv, NotedInv
    <3>2. current # Absent => native = ListOf(entries')
      BY <1>2, <2>1, <2>3, <2>10, <3>1
    <3> QED BY <2>1, <2>7, <3>1, <3>2, Primes DEF NotedInv, Applies
  <2>12. QuietInv'
    <3> SUFFICES ASSUME quiet, faultless PROVE QuietInv'
      BY <2>1 DEF QuietInv
    <3>1. /\ result # "failed" /\ unowned = bound /\ current = native
          /\ call.op = "delete" => ~bound /\ native # Absent
      BY <2>1 DEF IInv, QuietInv
    <3>2. Synced
      BY <1>2, <3>1 DEF Agrees, Synced
    <3>3. Synced'
      BY <2>1, <3>2, Primes DEF Synced
    <3> QED BY <2>1, <2>7, <2>9, <3>1, <3>3 DEF QuietInv, Applies
  <2>13. RetainedStay'
    BY <2>1, <2>9 DEF RetainedStay
  <2> QED BY <2>6, <2>8, <2>11, <2>12, <2>13 DEF IInv
<1> QED BY <1>1, <1>2

LEMMA SameEntries ==
    ASSUME NEW e \in Tables, NEW f \in Tables, DOMAIN e = DOMAIN f,
           \A x \in DOMAIN e : e[x] = f[x]
    PROVE  e = f
<1>1. e \in [DOMAIN e -> Rules] /\ f \in [DOMAIN e -> Rules]
  BY TableIs
<1> QED BY <1>1

LEMMA CheckIdsKeeps ==
    ASSUME IInv, CheckIds
    PROVE  IInv'
<1>0. pc = "next" /\ call.op = "apply" /\ ListOf(target) = call.rules /\ call # NoCall
  BY DEF CheckIds, IInv, CallInv, Applies
<1>1. entries \in Tables /\ target \in Tables
  BY DEF IInv, TypeInv
<1>2. CASE current # Absent /\ Changed = {} /\ DOMAIN Added = {}
  <2>1. /\ pc' = "save" /\ native' = native /\ db' = db /\ bound' = bound /\ call' = call
        /\ current' = current /\ unowned' = unowned /\ entries' = entries /\ target' = target
        /\ expected' = expected /\ writeFailed' = writeFailed /\ began' = began /\ own' = own
        /\ result' = result /\ quiet' = quiet /\ faultless' = faultless
    BY <1>2 DEF CheckIds, Goto, switch, local, bounds
  <2>2. \A id \in DOMAIN entries : id \in DOMAIN target /\ target[id] = entries[id]
    BY <1>2 DEF Changed
  <2>3. \A id \in DOMAIN target : id \in DOMAIN entries
    BY <1>2, WorkIs DEF IInv
  <2>4. entries = target
    <3>1. DOMAIN entries = DOMAIN target
      BY <2>2, <2>3
    <3> QED BY <1>1, <2>2, <3>1, SameEntries
  <2>5. TypeInv'
    BY <2>1 DEF IInv, TypeInv, Pcs
  <2>6. CallInv'
    BY <1>0, <2>1 DEF CallInv, Applies
  <2>7. NotedInv'
    <3> SUFFICES ASSUME own # "none" PROVE NotedInv'
      BY <2>1 DEF NotedInv
    <3>1. own = <<native>> /\ current = native /\ native = ListOf(entries)
      BY <1>0, <1>2 DEF IInv, NotedInv, Applies
    <3>2. native' = Goal'
      BY <1>0, <2>1, <2>4, <3>1 DEF Goal
    <3> QED BY <2>1, <3>1, <3>2 DEF NotedInv, Applies
  <2>8. QuietInv'
    <3> SUFFICES ASSUME quiet, faultless PROVE QuietInv'
      BY <2>1 DEF QuietInv
    <3>1. result # "failed" /\ unowned = bound /\ Synced
      BY <1>0 DEF IInv, QuietInv, Applies
    <3>2. Synced'
      BY <2>1, <3>1, Primes DEF Synced
    <3> QED BY <2>1, <3>1, <3>2 DEF QuietInv, Applies
  <2>9. RetainedStay'
    BY <1>0, <2>1 DEF IInv, RetainedStay, Entries
  <2> QED BY <2>5, <2>6, <2>7, <2>8, <2>9 DEF IInv
<1>3. CASE ~(current # Absent /\ Changed = {} /\ DOMAIN Added = {}) /\ ~Known
  <2>1. Return("failed", "none") /\ UNCHANGED <<local, bounds>>
    BY <1>3 DEF CheckIds, Failed
  <2>2. UNCHANGED local /\ quiet' = quiet /\ faultless' = faultless
    BY <2>1 DEF bounds
  <2>3. ~quiet \/ ~faultless
    <3> SUFFICES ASSUME quiet, faultless PROVE FALSE
      BY DEF IInv, TypeInv
    <3>1. current = native /\ Synced /\ Entries = entries
      BY <1>0 DEF IInv, QuietInv, Applies
    <3> QED BY <1>3, <3>1 DEF Known, Agrees, Synced
  <2> QED BY <2>1, <2>2, <2>3, Returned
<1>4. CASE ~(current # Absent /\ Changed = {} /\ DOMAIN Added = {}) /\ Known
  <2>1. /\ pc' = "write" /\ native' = native /\ db' = db /\ bound' = bound /\ call' = call
        /\ current' = current /\ unowned' = unowned /\ entries' = entries /\ target' = target
        /\ expected' = Result /\ writeFailed' = writeFailed /\ began' = began /\ own' = own
        /\ result' = result /\ quiet' = quiet /\ faultless' = faultless
    BY <1>4 DEF CheckIds, switch, bounds
  <2>2. Result \in Tables
    BY WorkIs DEF IInv
  <2>3. Result' = Result /\ Entries' = Entries
    BY <2>1 DEF Result, Initial, Changed, Entries
  <2>5. TypeInv'
    BY <2>1, <2>2 DEF IInv, TypeInv, Pcs
  <2>6. CallInv'
    BY <1>0, <2>1, Primes DEF CallInv, Applies
  <2>7. NotedInv'
    BY <1>0, <2>1, Primes DEF IInv, NotedInv, Applies
  <2>8. QuietInv'
    <3> SUFFICES ASSUME quiet, faultless PROVE QuietInv'
      BY <2>1 DEF QuietInv
    <3>1. /\ result # "failed" /\ unowned = bound /\ Synced /\ current = native
          /\ Entries = entries
      BY <1>0 DEF IInv, QuietInv, Applies
    <3>2. Synced'
      BY <2>1, <3>1, Primes DEF Synced
    <3> QED BY <2>1, <2>3, <3>1, <3>2 DEF QuietInv, Applies
  <2>9. RetainedStay'
    BY <1>0, <2>1, <2>3 DEF IInv, RetainedStay
  <2> QED BY <2>5, <2>6, <2>7, <2>8, <2>9 DEF IInv
<1> QED BY <1>2, <1>3, <1>4

\* What a request of applyMAC does unless a fault loses it, and its refusal.
Change ==
    IF current = Absent THEN Patch(Initial)
    ELSE IF Changed # {} THEN DeleteEntry(Max(Changed)) ELSE Patch(Added)

Refusal ==
    IF current = Absent THEN Collides(Initial)
    ELSE IF Changed # {} THEN FALSE ELSE Collides(Added)

LEMMA WriteIs ==
    ASSUME Write
    PROVE  /\ pc = "write" /\ pc' = "verify" /\ own' = "none"
           /\ call' = call /\ current' = current /\ unowned' = unowned /\ entries' = entries
           /\ target' = target /\ expected' = expected /\ began' = began /\ result' = result
           /\ quiet' = quiet /\ faultless' \in {faultless, FALSE} /\ writeFailed' \in BOOLEAN
           /\ Change \/ UNCHANGED switch
           /\ faultless' => faultless /\ Change /\ writeFailed' = Refusal
<1>1. /\ pc = "write" /\ pc' = "verify" /\ own' = "none"
      /\ UNCHANGED <<call, current, unowned, entries, target, expected, began, result>>
  BY Zenon DEF Write, Request
<1>2. \/ Change /\ writeFailed' = Refusal /\ UNCHANGED bounds
      \/ Fault /\ Change /\ writeFailed' = TRUE
      \/ Fault /\ UNCHANGED switch /\ writeFailed' \in BOOLEAN
  <2>1. CASE current = Absent
    BY <2>1, Zenon DEF Write, Request, Change, Refusal
  <2>2. CASE current # Absent /\ Changed # {}
    BY <2>2, Zenon DEF Write, Request, Change, Refusal
  <2>3. CASE current # Absent /\ Changed = {}
    BY <2>3, Zenon DEF Write, Request, Change, Refusal
  <2> QED BY <2>1, <2>2, <2>3, Zenon
<1>3. Refusal \in BOOLEAN
  BY Zenon DEF Refusal, Collides
<1>4. Fault => quiet' = quiet /\ faultless' = FALSE
  BY DEF Fault
<1>5. UNCHANGED bounds => quiet' = quiet /\ faultless' = faultless
  BY DEF bounds
<1>6. /\ quiet' = quiet /\ faultless' \in {faultless, FALSE}
  BY <1>2, <1>4, <1>5, Zenon
<1>7. writeFailed' \in BOOLEAN
  BY <1>2, <1>3, Zenon
<1>8. (Change \/ UNCHANGED switch) /\ (faultless' => faultless /\ Change /\ writeFailed' = Refusal)
  <2>1. (Fault => ~faultless') /\ (UNCHANGED bounds => (faultless' => faultless))
    BY <1>4, <1>5
  <2>2. Change \/ UNCHANGED switch
    BY <1>2, Zenon
  <2>3. faultless' => Change /\ writeFailed' = Refusal /\ UNCHANGED bounds
    BY <1>2, <2>1, Zenon
  <2> QED BY <2>1, <2>2, <2>3, Zenon
<1> QED BY <1>1, <1>6, <1>7, <1>8

LEMMA ChangeKept ==
    ASSUME TypeInv, Change
    PROVE  SwitchKept
<1>1. CASE current = Absent
  BY <1>1, WorkIs, PatchIs DEF Change
<1>2. CASE current # Absent /\ Changed # {}
  BY <1>2, DeleteEntryIs DEF Change
<1>3. CASE current # Absent /\ Changed = {}
  BY <1>3, WorkIs, PatchIs DEF Change
<1> QED BY <1>1, <1>2, <1>3

\* Undisturbed, a request is not refused and leaves what the call expects,
\* among it every entry that is to stay.
LEMMA ChangeIs ==
    ASSUME IInv, quiet, faultless, pc = "write", Change
    PROVE  /\ ~Refusal /\ Synced' /\ db' = Result
           /\ \A id \in DOMAIN began \intersect DOMAIN target :
                  began[id] = target[id] => id \in DOMAIN Result /\ Result[id] = began[id]
<1>0. /\ TypeInv /\ entries \in Tables /\ target \in Tables
      /\ Changed \in SUBSET DOMAIN entries /\ Added \in Tables /\ Initial \in Tables
      /\ DOMAIN Added = {id \in DOMAIN target : id \notin DOMAIN entries \/ target[id] # entries[id]}
      /\ \A id \in DOMAIN Added : Added[id] = target[id]
  BY WorkIs DEF IInv, TypeInv
<1>1. Synced /\ current = native /\ Entries = entries /\ call.op = "apply"
  BY DEF IInv, QuietInv, CallInv, Applies
<1>2. \A id \in DOMAIN began \intersect DOMAIN target :
          began[id] = target[id] => id \in DOMAIN entries /\ entries[id] = began[id]
  BY <1>1 DEF IInv, RetainedStay
<1>3. CASE current = Absent
  <2>1. DOMAIN Entries = {}
    BY <1>1, <1>3, NoneIs DEF Synced, Entries
  <2>2. ~Collides(Initial)
    BY <2>1 DEF Collides
  <2>3. Patch(Initial)
    BY <1>3 DEF Change
  <2>4. Synced' /\ db' = With(Initial)
    BY <1>0, <1>1, <2>2, <2>3, PatchIs
  <2>5. With(Initial) = Initial
    <3>1. /\ With(Initial) \in Tables /\ DOMAIN With(Initial) = DOMAIN Initial
          /\ \A x \in DOMAIN Initial : With(Initial)[x] = Initial[x]
      BY <1>0, <2>1, <2>2, WithIs
    <3> QED BY <1>0, <3>1, SameEntries
  <2>6. Result = Initial /\ Refusal = Collides(Initial)
    BY <1>3, Zenon DEF Result, Refusal
  <2>7. DOMAIN began \intersect DOMAIN target = {}
        \/ \A id \in DOMAIN began \intersect DOMAIN target : began[id] # target[id]
    BY <1>1, <1>2, <2>1
  <2> QED BY <2>2, <2>4, <2>5, <2>6, <2>7
<1>4. CASE current # Absent /\ Changed # {}
  <2> DEFINE last == Max(Changed)
  <2>0. Changed \in SUBSET (1..MaxId)
    BY <1>0, TableIs
  <2>1. last \in Changed
    BY <1>4, <2>0, MaxIs
  <2>2. DeleteEntry(last)
    BY <1>4 DEF Change
  <2>3. ~Refusal /\ Result = Restrict(entries, DOMAIN entries \ {last})
    BY <1>4 DEF Refusal, Result
  <2> HIDE DEF last
  <2>4. last \in DOMAIN Entries
    BY <1>0, <1>1, <2>1
  <2>5. Synced' /\ db' = Restrict(Entries, DOMAIN Entries \ {last})
    BY <1>0, <1>1, <2>2, <2>4, DeleteEntryIs
  <2>6. /\ DOMAIN Result = DOMAIN entries \ {last}
        /\ \A x \in DOMAIN entries \ {last} : Result[x] = entries[x]
    BY <1>0, <2>3, RestrictIs
  <2>7. last \notin DOMAIN target \/ target[last] # entries[last]
    BY <2>1 DEF Changed
  <2>8. ASSUME NEW id \in DOMAIN began \intersect DOMAIN target, began[id] = target[id]
        PROVE  id \in DOMAIN Result /\ Result[id] = began[id]
    <3>1. id \in DOMAIN entries /\ entries[id] = began[id] /\ entries[id] = target[id]
      BY <1>2, <2>8
    <3>2. id # last
      BY <2>7, <2>8, <3>1
    <3> QED BY <2>6, <3>1, <3>2
  <2> QED BY <1>1, <2>3, <2>5, <2>8
<1>5. CASE current # Absent /\ Changed = {}
  <2>1. \A id \in DOMAIN entries : id \in DOMAIN target /\ target[id] = entries[id]
    BY <1>5 DEF Changed
  <2>2. \A x, y \in DOMAIN target : target[x] = target[y] => x = y
    BY <1>0, TableIs
  <2>3. ~Collides(Added)
    <3> SUFFICES ASSUME NEW id \in DOMAIN Added, NEW other \in DOMAIN entries,
                        id = other \/ Added[id] = entries[other]
                 PROVE  FALSE
      BY <1>1 DEF Collides
    <3>1. id \in DOMAIN target /\ (id \notin DOMAIN entries \/ target[id] # entries[id])
      BY <1>0
    <3>2. other \in DOMAIN target /\ target[other] = entries[other]
      BY <2>1
    <3>3. Added[id] = target[id]
      BY <1>0
    <3> QED BY <2>2, <3>1, <3>2, <3>3
  <2>4. Patch(Added)
    BY <1>5 DEF Change
  <2>5. Synced' /\ db' = With(Added)
    BY <1>0, <1>1, <2>3, <2>4, PatchIs
  <2>6. With(Added) = target
    <3>1. /\ With(Added) \in Tables /\ DOMAIN With(Added) = DOMAIN Added \union DOMAIN entries
          /\ \A x \in DOMAIN Added : With(Added)[x] = Added[x]
          /\ \A x \in DOMAIN entries \ DOMAIN Added : With(Added)[x] = entries[x]
      BY <1>0, <1>1, <2>3, WithIs
    <3>2. DOMAIN Added \union DOMAIN entries = DOMAIN target
      BY <1>0, <2>1
    <3>3. \A x \in DOMAIN target : With(Added)[x] = target[x]
      BY <1>0, <2>1, <3>1, <3>2
    <3> QED BY <1>0, <3>1, <3>2, <3>3, SameEntries
  <2>7. Result = target /\ Refusal = Collides(Added)
    BY <1>5, Zenon DEF Result, Refusal
  <2> QED BY <2>3, <2>5, <2>6, <2>7
<1> QED BY <1>3, <1>4, <1>5

LEMMA WriteKeeps ==
    ASSUME IInv, Write
    PROVE  IInv'
<1>1. /\ pc = "write" /\ pc' = "verify" /\ own' = "none"
      /\ call' = call /\ current' = current /\ unowned' = unowned /\ entries' = entries
      /\ target' = target /\ expected' = expected /\ began' = began /\ result' = result
      /\ quiet' = quiet /\ faultless' \in {faultless, FALSE} /\ writeFailed' \in BOOLEAN
  BY WriteIs
<1>2. SwitchKept
  BY WriteIs, ChangeKept, Unchanged DEF IInv
<1>3. call.op = "apply" /\ call # NoCall /\ ListOf(target) = call.rules
  BY <1>1 DEF IInv, CallInv, Applies
<1>4. ASSUME quiet', faultless'
      PROVE  /\ quiet /\ faultless /\ ~writeFailed' /\ Synced' /\ db' = Result
             /\ \A id \in DOMAIN began \intersect DOMAIN target :
                    began[id] = target[id] => id \in DOMAIN Result /\ Result[id] = began[id]
  <2>1. quiet /\ faultless /\ Change /\ writeFailed' = Refusal
    BY <1>1, <1>4, WriteIs, Zenon
  <2> QED BY <1>1, <2>1, ChangeIs, Zenon
<1>5. Result \in Tables /\ Result # Absent
  BY WorkIs, NotAbsent DEF IInv
<1>6. db' = Result => Entries' = Result
  BY <1>5 DEF Entries
<1>7. TypeInv'
  <2>1. faultless' \in BOOLEAN
    BY <1>1 DEF IInv, TypeInv
  <2> QED BY <1>1, <1>2, <2>1 DEF IInv, TypeInv, Pcs, SwitchKept
<1>8. CallInv'
  BY <1>1, <1>3, Primes DEF CallInv, Applies
<1>9. NotedInv'
  BY <1>1 DEF NotedInv
<1>10. QuietInv'
  <2> SUFFICES ASSUME quiet', faultless' PROVE QuietInv'
    BY DEF QuietInv
  <2>1. result # "failed" /\ unowned = bound /\ expected = Result
    BY <1>1, <1>4 DEF IInv, QuietInv, Applies
  <2> QED BY <1>1, <1>2, <1>3, <1>4, <1>5, <1>6, <2>1 DEF QuietInv, Applies, SwitchKept
<1>11. RetainedStay'
  BY <1>1, <1>4, <1>6 DEF RetainedStay
<1> QED BY <1>7, <1>8, <1>9, <1>10, <1>11 DEF IInv

LEMMA DropIs ==
    ASSUME Drop
    PROVE  /\ pc = "drop" /\ pc' = "verify" /\ own' = "none"
           /\ call' = call /\ current' = current /\ unowned' = unowned /\ entries' = entries
           /\ target' = target /\ expected' = expected /\ began' = began /\ result' = result
           /\ quiet' = quiet /\ faultless' \in {faultless, FALSE} /\ writeFailed' \in BOOLEAN
           /\ DeleteSet \/ UNCHANGED switch
           /\ faultless' => faultless /\ DeleteSet /\ ~writeFailed'
<1>1. /\ pc = "drop" /\ pc' = "verify" /\ own' = "none"
      /\ UNCHANGED <<call, current, unowned, entries, target, expected, began, result>>
  BY Zenon DEF Drop, Request
<1>2. \/ DeleteSet /\ writeFailed' = FALSE /\ UNCHANGED bounds
      \/ Fault /\ DeleteSet /\ writeFailed' = TRUE
      \/ Fault /\ UNCHANGED switch /\ writeFailed' \in BOOLEAN
  BY Zenon DEF Drop, Request
<1>3. Fault => quiet' = quiet /\ faultless' = FALSE
  BY DEF Fault
<1>4. UNCHANGED bounds => quiet' = quiet /\ faultless' = faultless
  BY DEF bounds
<1>5. quiet' = quiet /\ faultless' \in {faultless, FALSE}
  BY <1>2, <1>3, <1>4, Zenon
<1>6. writeFailed' \in BOOLEAN
  BY <1>2, Zenon
<1>7. (DeleteSet \/ UNCHANGED switch) /\ (faultless' => faultless /\ DeleteSet /\ ~writeFailed')
  <2>1. (Fault => ~faultless') /\ (UNCHANGED bounds => (faultless' => faultless))
    BY <1>3, <1>4
  <2>2. DeleteSet \/ UNCHANGED switch
    BY <1>2, Zenon
  <2>3. faultless' => DeleteSet /\ writeFailed' = FALSE /\ UNCHANGED bounds
    BY <1>2, <2>1, Zenon
  <2> QED BY <2>1, <2>2, <2>3
<1> QED BY <1>1, <1>5, <1>6, <1>7

LEMMA DropKeeps ==
    ASSUME IInv, Drop
    PROVE  IInv'
<1>1. /\ pc = "drop" /\ pc' = "verify" /\ own' = "none"
      /\ call' = call /\ current' = current /\ unowned' = unowned /\ entries' = entries
      /\ target' = target /\ expected' = expected /\ began' = began /\ result' = result
      /\ quiet' = quiet /\ faultless' \in {faultless, FALSE} /\ writeFailed' \in BOOLEAN
  BY DropIs
<1>2. SwitchKept
  BY DropIs, DeleteSetIs, Unchanged DEF IInv
<1>3. call.op = "delete" /\ call # NoCall
  BY <1>1 DEF IInv, CallInv
<1>4. ASSUME quiet', faultless'
      PROVE  quiet /\ faultless /\ ~writeFailed' /\ Synced' /\ native' = Absent
  <2>1. quiet /\ faultless /\ DeleteSet /\ ~writeFailed'
    BY <1>1, <1>4, DropIs, Zenon
  <2>2. ~bound /\ native # Absent /\ Synced
    BY <1>1, <1>3, <2>1 DEF IInv, QuietInv
  <2>3. db # Absent
    BY <2>2 DEF Synced
  <2>4. Synced' /\ db' = Absent
    BY <2>1, <2>2, <2>3, DeleteSetIs DEF IInv
  <2>5. native' = Absent
    BY <2>4 DEF Synced
  <2> QED BY <2>1, <2>4, <2>5
<1>5. TypeInv'
  <2>1. faultless' \in BOOLEAN
    BY <1>1 DEF IInv, TypeInv
  <2> QED BY <1>1, <1>2, <2>1 DEF IInv, TypeInv, Pcs, SwitchKept
<1>6. CallInv'
  BY <1>1, <1>3 DEF CallInv, Applies
<1>7. NotedInv'
  BY <1>1 DEF NotedInv
<1>8. QuietInv'
  <2> SUFFICES ASSUME quiet', faultless' PROVE QuietInv'
    BY DEF QuietInv
  <2>1. result # "failed" /\ unowned = bound
    BY <1>1, <1>4 DEF IInv, QuietInv
  <2> QED BY <1>1, <1>2, <1>3, <1>4, <2>1 DEF QuietInv, Applies, SwitchKept
<1>9. RetainedStay'
  BY <1>1, <1>3 DEF RetainedStay
<1> QED BY <1>5, <1>6, <1>7, <1>8, <1>9 DEF IInv

LEMMA VerifyKeeps ==
    ASSUME IInv, Verify
    PROVE  IInv'
<1>0. pc = "verify" /\ call # NoCall /\ call \in Calls
  BY DEF Verify, IInv, CallInv, TypeInv
<1>1. \/ call.op = "apply" /\ call.op # "delete"
      \/ call.op = "delete" /\ call.op # "apply"
  BY <1>0, CallIs
<1>2. CASE bound = unowned /\ Converged /\ ~writeFailed
  <2>1. /\ current' = native /\ own' = <<native>> /\ entries' = expected
        /\ pc' = (IF call.op = "delete" THEN "save" ELSE "next")
        /\ native' = native /\ db' = db /\ bound' = bound /\ call' = call
        /\ unowned' = unowned /\ target' = target /\ expected' = expected
        /\ writeFailed' = writeFailed /\ began' = began /\ result' = result
        /\ quiet' = quiet /\ faultless' = faultless
    BY <1>2 DEF Verify, switch, bounds
  <2>2. \/ pc' = "next" /\ call.op = "apply" /\ native # Absent /\ native = ListOf(expected)
        \/ pc' = "save" /\ call.op = "delete" /\ native = Absent
    BY <1>1, <1>2, <2>1 DEF Converged
  <2>3. TypeInv'
    BY <2>1, <2>2 DEF IInv, TypeInv, Pcs
  <2>4. CallInv'
    BY <1>0, <1>1, <2>1, <2>2, Primes DEF IInv, CallInv, Applies
  <2>5. Goal' = Goal /\ Entries' = Entries /\ (call.op = "delete" => Goal = Absent)
    BY <1>1, <2>1 DEF Goal, Entries
  <2>6. NotedInv'
    BY <1>1, <2>1, <2>2, <2>5, Primes DEF NotedInv, Applies
  <2>7. QuietInv'
    <3> SUFFICES ASSUME quiet, faultless PROVE QuietInv'
      BY <2>1 DEF QuietInv
    <3>1. /\ result # "failed" /\ unowned = bound /\ Synced
          /\ call.op = "apply" => Entries = expected
      BY <1>0 DEF IInv, QuietInv, Applies
    <3>2. Synced'
      BY <2>1, <3>1, Primes DEF Synced
    <3> QED BY <1>1, <2>1, <2>2, <2>5, <3>1, <3>2 DEF QuietInv, Applies
  <2>8. RetainedStay'
    BY <1>0, <2>1, <2>5 DEF IInv, RetainedStay
  <2> QED BY <2>3, <2>4, <2>6, <2>7, <2>8 DEF IInv
<1>3. CASE ~(bound = unowned /\ Converged /\ ~writeFailed)
  <2>1. Return("failed", "none") /\ UNCHANGED <<local, bounds>>
    BY <1>3 DEF Verify, Failed
  <2>2. UNCHANGED local /\ quiet' = quiet /\ faultless' = faultless
    BY <2>1 DEF bounds
  <2>3. ~quiet \/ ~faultless
    <3> SUFFICES ASSUME quiet, faultless PROVE FALSE
      BY DEF IInv, TypeInv
    <3>1. /\ Synced /\ unowned = bound /\ ~writeFailed
          /\ call.op = "apply" => db # Absent /\ Entries = expected
          /\ call.op = "delete" => native = Absent
      BY <1>0 DEF IInv, QuietInv, Applies
    <3>2. call.op = "apply" => native # Absent /\ native = ListOf(expected)
      BY <3>1 DEF Synced, Entries
    <3>3. Converged
      BY <1>1, <3>1, <3>2 DEF Converged
    <3> QED BY <1>3, <3>1, <3>3
  <2> QED BY <2>1, <2>2, <2>3, Returned
<1> QED BY <1>2, <1>3

LEMMA SaveKeeps ==
    ASSUME IInv, Save
    PROVE  IInv'
<1> DEFINE note == IF own = "none" THEN own ELSE <<Goal>>
<1>1. pc = "save" /\ Return("done", note) /\ UNCHANGED <<local, bounds>>
  BY DEF Save, Succeed
<1>2. UNCHANGED local /\ quiet' = quiet /\ faultless' = faultless
  BY <1>1 DEF bounds
<1>3. note # "none" => note = <<native>>
  BY <1>1 DEF IInv, NotedInv
<1> HIDE DEF note
<1> QED BY <1>1, <1>2, <1>3, Returned

LEMMA RefuseBoundKeeps ==
    ASSUME IInv, RefuseBound
    PROVE  IInv'
<1>1. Return("refused", "none") /\ UNCHANGED <<local, bounds>>
  BY DEF RefuseBound, Refuse
<1>2. UNCHANGED local /\ quiet' = quiet /\ faultless' = faultless
  BY <1>1 DEF bounds
<1> QED BY <1>1, <1>2, Returned

LEMMA ReadFailsKeeps ==
    ASSUME IInv, ReadFails
    PROVE  IInv'
<1>1. Return("failed", "none") /\ UNCHANGED local /\ quiet' = quiet /\ faultless' = FALSE
  BY DEF ReadFails, Fault
<1> QED BY <1>1, Returned

-----------------------------------------------------------------------------
(* The surroundings.                                                       *)

LEMMA DatabaseSyncsKeeps ==
    ASSUME IInv, DatabaseSyncs
    PROVE  IInv'
<1>1. /\ ~Synced /\ db' \in (IF native = Absent THEN {Absent} ELSE Numberings(native))
      /\ native' = native /\ bound' = bound /\ call' = call /\ pc' = pc
      /\ current' = current /\ unowned' = unowned /\ entries' = entries /\ target' = target
      /\ expected' = expected /\ writeFailed' = writeFailed /\ began' = began /\ own' = own
      /\ result' = result /\ quiet' = quiet /\ faultless' = faultless
  BY DEF DatabaseSyncs, local, bounds
<1>2. native = Absent \/ native \in Lists
  BY DEF IInv, TypeInv
<1>3. db' \in {Absent} \union Tables
  BY <1>1, <1>2, NumberingsAre
<1>4. TypeInv'
  BY <1>1, <1>3 DEF IInv, TypeInv
<1>5. Goal' = Goal
  BY <1>1 DEF Goal
<1>6. CallInv'
  BY <1>1, Primes DEF IInv, CallInv
<1>7. NotedInv'
  BY <1>1, <1>5, Primes DEF IInv, NotedInv
<1>8. quiet /\ faultless => pc \notin Applies \union {"drop", "verify"}
                           /\ (pc = "save" => began = NoEntries)
  BY <1>1 DEF IInv, QuietInv
<1>9. QuietInv'
  <2> SUFFICES ASSUME quiet, faultless PROVE QuietInv'
    BY <1>1 DEF QuietInv
  <2> QED BY <1>1, <1>8 DEF IInv, QuietInv, Applies
<1>10. RetainedStay'
  <2> SUFFICES ASSUME quiet, faultless, call.op = "apply", pc \notin {"read", "entries"}
               PROVE  RetainedStay'
    BY <1>1 DEF RetainedStay
  <2>1. call # NoCall
    BY DEF NoCall
  <2>2. pc = "save"
    BY <1>8, <2>1 DEF IInv, TypeInv, CallInv, Pcs, Applies
  <2>3. DOMAIN began' = {}
    BY <1>1, <1>8, <2>2, NoneIs
  <2> QED BY <2>3 DEF RetainedStay
<1> QED BY <1>4, <1>6, <1>7, <1>9, <1>10 DEF IInv

LEMMA RenumberKeeps ==
    ASSUME IInv, Renumber
    PROVE  IInv'
<1>1. /\ db # Absent /\ db' \in Numberings(ListOf(db)) /\ quiet' = FALSE
      /\ native' = native /\ bound' = bound /\ call' = call /\ pc' = pc
      /\ current' = current /\ unowned' = unowned /\ entries' = entries /\ target' = target
      /\ expected' = expected /\ writeFailed' = writeFailed /\ began' = began /\ own' = own
      /\ result' = result /\ faultless' = faultless
  BY DEF Renumber, Disturb, local
<1>2. db' \in Tables
  BY <1>1, ListOfIs, NumberingsAre DEF IInv, TypeInv
<1>3. TypeInv'
  BY <1>1, <1>2 DEF IInv, TypeInv
<1>4. Goal' = Goal
  BY <1>1 DEF Goal
<1>5. CallInv'
  BY <1>1, Primes DEF IInv, CallInv
<1>6. NotedInv'
  BY <1>1, <1>4, Primes DEF IInv, NotedInv
<1>7. QuietInv' /\ RetainedStay'
  BY <1>1 DEF QuietInv, RetainedStay
<1> QED BY <1>3, <1>5, <1>6, <1>7 DEF IInv

LEMMA OutsideKeeps ==
    ASSUME IInv, Outside
    PROVE  IInv'
<1>1. /\ quiet' = FALSE /\ db' = db /\ call' = call /\ pc' = pc
      /\ current' = current /\ unowned' = unowned /\ entries' = entries /\ target' = target
      /\ expected' = expected /\ writeFailed' = writeFailed /\ began' = began
      /\ result' = result /\ faultless' = faultless
  BY DEF Outside, Disturb, local
<1>2. \/ native' \in Wanted \union {Absent} /\ own' = "none" /\ bound' = bound
      \/ bound' = ~bound /\ native' = native /\ own' = own
  BY DEF Outside
<1>3. native' \in {Absent} \union Lists /\ bound' \in BOOLEAN
  BY <1>2 DEF IInv, TypeInv, Wanted
<1>4. TypeInv'
  BY <1>1, <1>3 DEF IInv, TypeInv
<1>5. Goal' = Goal
  BY <1>1 DEF Goal
<1>6. CallInv'
  BY <1>1, Primes DEF IInv, CallInv
<1>7. NotedInv'
  BY <1>1, <1>2, <1>5, Primes DEF IInv, NotedInv
<1>8. QuietInv' /\ RetainedStay'
  BY <1>1 DEF QuietInv, RetainedStay
<1> QED BY <1>4, <1>6, <1>7, <1>8 DEF IInv

LEMMA StutterKeeps ==
    ASSUME IInv, UNCHANGED vars
    PROVE  IInv'
<1>1. /\ native' = native /\ db' = db /\ bound' = bound /\ call' = call /\ pc' = pc
      /\ current' = current /\ unowned' = unowned /\ entries' = entries /\ target' = target
      /\ expected' = expected /\ writeFailed' = writeFailed /\ began' = began /\ own' = own
      /\ result' = result /\ quiet' = quiet /\ faultless' = faultless
  BY DEF vars, switch, local, bounds
<1>2. TypeInv'
  BY <1>1 DEF IInv, TypeInv
<1>3. Goal' = Goal /\ Entries' = Entries /\ Result' = Result
  BY <1>1 DEF Goal, Entries, Result, Initial, Changed
<1>4. CallInv' /\ NotedInv'
  BY <1>1, <1>3, Primes DEF IInv, CallInv, NotedInv
<1>5. Synced' <=> Synced
  BY <1>1, Primes DEF Synced
<1>6. QuietInv'
  BY <1>1, <1>3, <1>5 DEF IInv, QuietInv
<1>7. RetainedStay'
  BY <1>1, <1>3 DEF IInv, RetainedStay
<1> QED BY <1>2, <1>4, <1>6, <1>7 DEF IInv

-----------------------------------------------------------------------------
(* The theorems.                                                           *)

LEMMA InitHolds ==
    ASSUME Init
    PROVE  IInv
<1>1. /\ native \in Wanted \union {Absent}
      /\ db \in (IF native = Absent THEN {Absent} ELSE Numberings(native))
      /\ call = NoCall /\ pc = "idle" /\ result = "none" /\ own = "none"
  BY DEF Init
<1>2. native = Absent \/ native \in Lists
  BY <1>1 DEF Wanted
<1>3. db \in {Absent} \union Tables
  BY <1>1, <1>2, NumberingsAre
<1>4. TypeInv
  BY <1>1, <1>2, <1>3, NoneIs DEF Init, TypeInv, Pcs
<1>5. CallInv /\ NotedInv /\ QuietInv /\ RetainedStay
  BY <1>1 DEF CallInv, NotedInv, QuietInv, RetainedStay, Applies, NoCall
<1> QED BY <1>4, <1>5 DEF IInv

\* Every step of a call, of a switch that reboots or lags behind, and of
\* another administrator keeps the inductive invariant.
THEOREM Inductive == Spec => []IInv
<1>1. Init => IInv
  BY InitHolds
<1>2. IInv /\ [Next]_vars => IInv'
  <2> SUFFICES ASSUME IInv, [Next]_vars PROVE IInv'
    OBVIOUS
  <2>1. CASE \E c \in Calls : Begin(c)
    BY <2>1, BeginKeeps
  <2>2. CASE Step
    BY <2>2, ReadKeeps, RefuseBoundKeeps, ReadEntriesKeeps, CheckIdsKeeps, WriteKeeps,
       DropKeeps, VerifyKeeps, SaveKeeps DEF Step
  <2>3. CASE ReadFails
    BY <2>3, ReadFailsKeeps
  <2>4. CASE DatabaseSyncs
    BY <2>4, DatabaseSyncsKeeps
  <2>5. CASE Renumber
    BY <2>5, RenumberKeeps
  <2>6. CASE Outside
    BY <2>6, OutsideKeeps
  <2>7. CASE Done \/ UNCHANGED vars
    BY <2>7, StutterKeeps DEF Done
  <2> QED BY <2>1, <2>2, <2>3, <2>4, <2>5, <2>6, <2>7 DEF Next
<1> QED BY <1>1, <1>2, PTL DEF Spec

\* The rules are, in order, those the last successful call said or read,
\* whatever IDs reboots gave them meanwhile (applyMAC, deleteMAC, Read).
THEOREM ReportsStand == Spec => []ReportedStands
<1>1. IInv => ReportedStands
  BY DEF IInv, NotedInv, ReportedStands
<1> QED BY <1>1, Inductive, PTL

\* Undisturbed, an entry that is to stay stands, at its ID, through every
\* request of a reconciliation (macTargets, applyMAC's removals and additions).
THEOREM RetainedEntriesStay == Spec => []RetainedStay
<1>1. IInv => RetainedStay
  BY DEF IInv
<1> QED BY <1>1, Inductive, PTL

\* Undisturbed, no call fails: no request is refused for a collision, and every
\* answer and verification finds what it expects (applyMAC's write, deleteMAC).
THEOREM QuietCallsSucceed == Spec => []QuietCallSucceeds
<1>1. IInv => QuietCallSucceeds
  BY DEF IInv, TypeInv, QuietInv, QuietCallSucceeds
<1> QED BY <1>1, Inductive, PTL

\* Every variable has its type, and entries stay within the ID space.
THEOREM TypeCorrect == Spec => []TypeOK
<1>1. ASSUME IInv PROVE TypeOK
  <2>1. \A e \in {entries, target, expected, began} : DOMAIN e \subseteq 1..MaxId
    BY <1>1, TableIs DEF IInv, TypeInv
  <2>2. db # Absent => DOMAIN db \subseteq 1..MaxId
    BY <1>1, TableIs DEF IInv, TypeInv
  <2> QED BY <1>1, <2>1, <2>2 DEF IInv, TypeInv, CallInv, TypeOK
<1> QED BY <1>1, Inductive, PTL
=============================================================================
