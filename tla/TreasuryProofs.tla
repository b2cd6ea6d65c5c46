--------------------------- MODULE TreasuryProofs ---------------------------
(***************************************************************************)
(* Proofs about Treasury, for all accounts, months, amounts, statement     *)
(* lines, numbers of requests and bounds.                                  *)
(***************************************************************************)
EXTENDS Treasury, Functions, FiniteSetTheorems, WellFoundedInduction, TLAPS

----------------------------------------------------------------------------
(* Sums: what SumFunction computes, for every function from a finite set   *)
(* to the integers, in whatever order its values are taken.  The induction *)
(* over the subsets is on their cardinality, by the smallest natural at    *)
(* which the claim would fail.                                             *)

Pick(S) == CHOOSE x \in S : TRUE

(* Sums(f, g): g is the sum of f over every subset of its domain.          *)
Step(f, S, g) == IF S = {} THEN 0 ELSE f[Pick(S)] + g[S \ {Pick(S)}]
Sums(f, g) == g = [S \in SUBSET DOMAIN f |-> Step(f, S, g)]

(* Of the naturals at which a claim fails there is a smallest.              *)
LEMMA SmallestFailure ==
  ASSUME NEW F \in SUBSET Nat, F # {}
  PROVE  \E n \in F : \A m \in F : n <= m
<1> DEFINE R == OpToRel(<, Nat)
<1>1. IsWellFoundedOn(R, Nat)
  BY NatLessThanWellFounded
<1>2. PICK n \in F : \A m \in F : ~(<<m, n>> \in R)
  <2> HIDE DEF R
  <2> QED
    BY <1>1, WFMin
<1>3. \A m, k \in Nat : <<m, k>> \in R <=> m < k
  BY DEF OpToRel
<1>4. \A m \in F : ~(m < n)
  <2> HIDE DEF R
  <2> QED
    BY <1>2, <1>3
<1>5. ASSUME NEW m \in F PROVE n <= m
  BY <1>4
<1> QED
  BY <1>5

LEMMA SumIsChosen ==
  ASSUME NEW f
  PROVE  SumFunction(f) = (CHOOSE g : Sums(f, g))[DOMAIN f]
BY DEF SumFunction, SumFunctionOnSet, FoldFunctionOnSet, MapThenFoldSet, Sums, Step, Pick

LEMMA PickIn ==
  ASSUME NEW S, S # {}
  PROVE  Pick(S) \in S
BY DEF Pick

(* A set without one of its elements has one element less.                 *)
LEMMA Smaller ==
  ASSUME NEW S, IsFiniteSet(S), NEW x \in S
  PROVE  /\ IsFiniteSet(S \ {x})
         /\ Cardinality(S) \in Nat
         /\ Cardinality(S \ {x}) \in Nat
         /\ Cardinality(S \ {x}) = Cardinality(S) - 1
BY FS_RemoveElement, FS_CardinalityType, Z3

LEMMA SubsetFinite ==
  ASSUME NEW D, IsFiniteSet(D), NEW S \in SUBSET D
  PROVE  IsFiniteSet(S) /\ Cardinality(S) \in Nat
BY FS_Subset, FS_CardinalityType

(* The sums over the subsets exist: over those of up to n elements, by     *)
(* induction on n.                                                         *)
LEMMA SumsExist ==
  ASSUME NEW D, IsFiniteSet(D), NEW f \in [D -> Int]
  PROVE  \E g : Sums(f, g)
<1> DEFINE Small(n) == {S \in SUBSET D : Cardinality(S) <= n}
           Holds(n) == \E g \in [Small(n) -> Int] : \A S \in Small(n) : g[S] = Step(f, S, g)
           Failing == {n \in Nat : ~Holds(n)}
<1>1. ASSUME NEW n \in Nat, n = 0 \/ Holds(n - 1)
      PROVE  Holds(n)
  <2>1. CASE n = 0
    <3>1. \A S \in Small(n) : S = {}
      BY <2>1, SubsetFinite, FS_EmptySet, Z3
    <3>2. [S \in Small(n) |-> 0] \in [Small(n) -> Int]
      OBVIOUS
    <3> QED
      BY <3>1, <3>2 DEF Step
  <2>2. CASE n # 0
    <3>1. PICK g \in [Small(n - 1) -> Int] : \A S \in Small(n - 1) : g[S] = Step(f, S, g)
      BY <1>1, <2>2
    <3> DEFINE h == [S \in Small(n) |-> Step(f, S, g)]
    <3>2. \A S \in Small(n) : S # {} => Pick(S) \in D /\ S \ {Pick(S)} \in Small(n - 1)
      <4> SUFFICES ASSUME NEW S \in Small(n), S # {}
                   PROVE  Pick(S) \in D /\ S \ {Pick(S)} \in Small(n - 1)
        OBVIOUS
      <4>1. IsFiniteSet(S) /\ S \in SUBSET D
        BY SubsetFinite
      <4>2. Pick(S) \in S
        BY PickIn
      <4>3. /\ Cardinality(S) \in Nat /\ Cardinality(S \ {Pick(S)}) \in Nat
            /\ Cardinality(S \ {Pick(S)}) = Cardinality(S) - 1
        BY <4>1, <4>2, Smaller
      <4>4. Cardinality(S) <= n
        OBVIOUS
      <4>5. Cardinality(S \ {Pick(S)}) <= n - 1
        BY <4>3, <4>4
      <4> QED
        BY <4>1, <4>2, <4>5
    <3>3. \A S \in Small(n) : Step(f, S, g) \in Int
      BY <3>2 DEF Step
    <3>4. h \in [Small(n) -> Int]
      BY <3>3
    <3>5. \A S \in Small(n - 1) : S \in Small(n)
      <4> SUFFICES ASSUME NEW S \in Small(n - 1)
                   PROVE  Cardinality(S) <= n
        OBVIOUS
      <4>1. Cardinality(S) \in Nat /\ Cardinality(S) <= n - 1
        BY SubsetFinite
      <4> QED
        BY <4>1
    <3>6. \A S \in Small(n) : h[S] = Step(f, S, h)
      BY <3>1, <3>2, <3>5 DEF Step
    <3> HIDE DEF h
    <3> QED
      BY <3>4, <3>6
  <2> QED
    BY <2>1, <2>2
<1> HIDE DEF Holds
<1>2. Failing = {}
  <2> SUFFICES ASSUME Failing # {} PROVE FALSE
    OBVIOUS
  <2>1. PICK F \in SUBSET Nat : F = Failing
    OBVIOUS
  <2>2. PICK n \in F : \A m \in F : n <= m
    BY <2>1, SmallestFailure
  <2>3. n = 0 \/ Holds(n - 1)
    BY <2>1, <2>2
  <2> QED
    BY <1>1, <2>1, <2>2, <2>3
<1>3. Cardinality(D) \in Nat
  BY FS_CardinalityType
<1>4. Holds(Cardinality(D))
  BY <1>2, <1>3
<1>5. Small(Cardinality(D)) = SUBSET D
  BY FS_Subset
<1>6. PICK g \in [SUBSET D -> Int] : \A S \in SUBSET D : g[S] = Step(f, S, g)
  BY <1>4, <1>5 DEF Holds
<1>7. g = [S \in SUBSET DOMAIN f |-> Step(f, S, g)]
  BY <1>6
<1> QED
  BY <1>7 DEF Sums

(* So the one SumFunction chooses is one of them.                          *)
LEMMA ChosenSums ==
  ASSUME NEW D, IsFiniteSet(D), NEW f \in [D -> Int]
  PROVE  \E g : /\ SumFunction(f) = g[D]
                /\ \A S \in SUBSET D : g[S] = Step(f, S, g)
<1>1. Sums(f, CHOOSE g : Sums(f, g))
  BY SumsExist
<1>2. PICK g : g = (CHOOSE h : Sums(f, h))
  OBVIOUS
<1>3. Sums(f, g) /\ SumFunction(f) = g[D]
  BY <1>1, <1>2, SumIsChosen
<1>4. \A S \in SUBSET D : g[S] = Step(f, S, g)
  BY <1>3 DEF Sums
<1> QED
  BY <1>3, <1>4

(* Of the subsets for which a claim fails there is one of which every      *)
(* proper subset keeps it.                                                 *)
LEMMA SmallestSubset ==
  ASSUME NEW D, IsFiniteSet(D), NEW Failing \in SUBSET SUBSET D, Failing # {}
  PROVE  \E S \in Failing : \A x \in S : S \ {x} \notin Failing
<1> DEFINE Sizes == {Cardinality(S) : S \in Failing}
<1>1. \A S \in Failing : IsFiniteSet(S) /\ Cardinality(S) \in Nat
  BY SubsetFinite
<1>2. Sizes \in SUBSET Nat /\ Sizes # {}
  BY <1>1
<1>3. PICK n \in Sizes : \A m \in Sizes : n <= m
  <2> HIDE DEF Sizes
  <2> QED
    BY <1>2, SmallestFailure
<1>4. PICK S \in Failing : n = Cardinality(S)
  BY <1>3
<1>5. ASSUME NEW x \in S, S \ {x} \in Failing
      PROVE  FALSE
  <2>1. /\ Cardinality(S) \in Nat /\ Cardinality(S \ {x}) \in Nat
        /\ Cardinality(S \ {x}) = Cardinality(S) - 1
    BY <1>1, Smaller
  <2>2. Cardinality(S) <= Cardinality(S \ {x})
    BY <1>3, <1>4, <1>5
  <2> QED
    BY <2>1, <2>2
<1> QED
  BY <1>5

LEMMA PartialInt ==
  ASSUME NEW D, IsFiniteSet(D), NEW f \in [D -> Int],
         NEW g, \A S \in SUBSET D : g[S] = Step(f, S, g)
  PROVE  \A S \in SUBSET D : g[S] \in Int
<1> DEFINE Failing == {S \in SUBSET D : g[S] \notin Int}
<1> SUFFICES ASSUME Failing # {} PROVE FALSE
  OBVIOUS
<1>1. PICK S \in Failing : \A x \in S : S \ {x} \notin Failing
  BY SmallestSubset
<1>2. S # {}
  <2> SUFFICES ASSUME S = {} PROVE FALSE
    OBVIOUS
  <2>1. g[S] = Step(f, S, g)
    OBVIOUS
  <2>2. Step(f, S, g) = 0
    BY DEF Step
  <2>3. g[S] \notin Int
    OBVIOUS
  <2> QED
    BY <2>1, <2>2, <2>3
<1>3. Pick(S) \in S
  BY <1>2, PickIn
<1>4. g[S \ {Pick(S)}] \in Int
  BY <1>1, <1>3
<1>5. g[S] = f[Pick(S)] + g[S \ {Pick(S)}]
  BY <1>2 DEF Step
<1> QED
  BY <1>3, <1>4, <1>5

(* The sum over a subset depends on its values only.                       *)
LEMMA PartialsAgree ==
  ASSUME NEW D, IsFiniteSet(D), NEW f, NEW g, \A S \in SUBSET D : g[S] = Step(f, S, g),
         NEW E, NEW e, NEW h, \A S \in SUBSET E : h[S] = Step(e, S, h),
         D \subseteq E, \A x \in D : f[x] = e[x]
  PROVE  \A S \in SUBSET D : g[S] = h[S]
<1> DEFINE Failing == {S \in SUBSET D : g[S] # h[S]}
<1> SUFFICES ASSUME Failing # {} PROVE FALSE
  OBVIOUS
<1>1. PICK S \in Failing : \A x \in S : S \ {x} \notin Failing
  BY SmallestSubset
<1>2. S \in SUBSET D /\ S \in SUBSET E
  OBVIOUS
<1>3. S # {}
  BY <1>2 DEF Step
<1>4. Pick(S) \in S
  BY <1>3, PickIn
<1>5. g[S \ {Pick(S)}] = h[S \ {Pick(S)}] /\ f[Pick(S)] = e[Pick(S)]
  BY <1>1, <1>2, <1>4
<1> QED
  BY <1>2, <1>3, <1>5 DEF Step

(* Any element may be taken first.                                         *)
Peels(f, g, S, x) == g[S] = f[x] + g[S \ {x}]

LEMMA PartialPeels ==
  ASSUME NEW D, IsFiniteSet(D), NEW f \in [D -> Int],
         NEW g, \A S \in SUBSET D : g[S] = Step(f, S, g), NEW z \in D
  PROVE  Peels(f, g, D, z)
<1> DEFINE Failing == {S \in SUBSET D : \E x \in S : g[S] # f[x] + g[S \ {x}]}
<1> SUFFICES ASSUME Failing # {} PROVE FALSE
  BY DEF Peels
<1>1. PICK S \in Failing : \A x \in S : S \ {x} \notin Failing
  BY SmallestSubset
<1>2. PICK x \in S : g[S] # f[x] + g[S \ {x}]
  OBVIOUS
<1>3. PICK c : c = Pick(S)
  OBVIOUS
<1>4. c \in S /\ g[S] = f[c] + g[S \ {c}]
  BY <1>3, PickIn DEF Step
<1>5. c # x
  <2> SUFFICES ASSUME c = x PROVE FALSE
    OBVIOUS
  <2>1. g[S] = f[x] + g[S \ {x}]
    BY <1>4
  <2> QED
    BY ONLY <1>2, <2>1, Zenon
<1>6. g[S \ {c}] = f[x] + g[(S \ {c}) \ {x}]
  BY <1>1, <1>4, <1>5
<1>7. g[S \ {x}] = f[c] + g[(S \ {x}) \ {c}]
  BY <1>1, <1>4, <1>5
<1>8. (S \ {x}) \ {c} = (S \ {c}) \ {x}
  OBVIOUS
<1>9. f[x] \in Int /\ f[c] \in Int /\ g[(S \ {c}) \ {x}] \in Int
  BY <1>4, PartialInt
<1>10. g[S \ {x}] = f[c] + g[(S \ {c}) \ {x}]
  BY <1>7, <1>8
<1>11. f[c] + (f[x] + g[(S \ {c}) \ {x}]) = f[x] + (f[c] + g[(S \ {c}) \ {x}])
  BY <1>9
<1>12. g[S] = f[x] + g[S \ {x}]
  BY ONLY <1>4, <1>6, <1>10, <1>11, Zenon
<1> QED
  BY ONLY <1>2, <1>12, Zenon

LEMMA SumPeels ==
  ASSUME NEW D, IsFiniteSet(D), NEW f \in [D -> Int]
  PROVE  \E g : /\ SumFunction(f) = g[D]
                /\ \A S \in SUBSET D : g[S] = Step(f, S, g)
                /\ \A z \in D : Peels(f, g, D, z)
<1>1. PICK g : SumFunction(f) = g[D] /\ \A S \in SUBSET D : g[S] = Step(f, S, g)
  BY ChosenSums
<1>2. ASSUME NEW z \in D PROVE Peels(f, g, D, z)
  BY <1>1, PartialPeels
<1> QED
  BY <1>1, <1>2

----------------------------------------------------------------------------
(* The sum of a function *)

(* A sum of integers is an integer.                                        *)
LEMMA SumInt ==
  ASSUME NEW D, IsFiniteSet(D), NEW f \in [D -> Int]
  PROVE  SumFunction(f) \in Int
<1>1. PICK g : SumFunction(f) = g[D] /\ \A S \in SUBSET D : g[S] = Step(f, S, g)
  BY ChosenSums
<1> QED
  BY <1>1, PartialInt

(* A function with one value more has a sum greater by this value.         *)
LEMMA SumExtends ==
  ASSUME NEW D, IsFiniteSet(D), NEW f \in [D -> Int], NEW z, z \notin D,
         NEW e \in [D \cup {z} -> Int], \A y \in D : e[y] = f[y]
  PROVE  SumFunction(e) = SumFunction(f) + e[z]
<1>1. PICK E : E = D \cup {z}
  OBVIOUS
<1>2. IsFiniteSet(E) /\ e \in [E -> Int] /\ D \subseteq E /\ z \in E /\ E \ {z} = D
  BY <1>1, FS_AddElement
<1>3. PICK g : SumFunction(f) = g[D] /\ \A S \in SUBSET D : g[S] = Step(f, S, g)
  BY ChosenSums
<1>4. PICK h : /\ SumFunction(e) = h[E]
               /\ \A S \in SUBSET E : h[S] = Step(e, S, h)
               /\ \A y \in E : Peels(e, h, E, y)
  BY <1>2, SumPeels
<1>5. h[E] = e[z] + h[D]
  BY <1>2, <1>4 DEF Peels
<1>6. g[D] = h[D]
  BY <1>2, <1>3, <1>4, PartialsAgree
<1>7. g[D] \in Int /\ e[z] \in Int
  BY <1>2, <1>3, SumInt
<1> QED
  BY <1>3, <1>4, <1>5, <1>6, <1>7

Grown(f, e, z) == SumFunction(e) = SumFunction(f) + e[z]

LEMMA SumGrows ==
  ASSUME NEW D, IsFiniteSet(D), NEW f \in [D -> Int], NEW z, z \notin D,
         NEW E, E = D \cup {z}, NEW e \in [E -> Int], \A y \in D : e[y] = f[y]
  PROVE  Grown(f, e, z)
BY SumExtends DEF Grown

(* One value changes: so does the sum, by as much.                         *)
LEMMA SumChanges ==
  ASSUME NEW D, IsFiniteSet(D), NEW f \in [D -> Int], NEW e \in [D -> Int],
         NEW x \in D, \A y \in D \ {x} : e[y] = f[y]
  PROVE  SumFunction(e) = SumFunction(f) - f[x] + e[x]
<1>1. PICK E : E = D \ {x}
  OBVIOUS
<1>2. IsFiniteSet(E) /\ x \notin E /\ E \cup {x} = D
  BY <1>1, FS_RemoveElement
<1>3. PICK g \in [E -> Int] : \A y \in E : g[y] = f[y]
  <2>1. [y \in E |-> f[y]] \in [E -> Int]
    BY <1>1
  <2> QED
    BY <2>1
<1>4. SumFunction(f) = SumFunction(g) + f[x]
  BY <1>2, <1>3, SumExtends
<1>5. SumFunction(e) = SumFunction(g) + e[x]
  BY <1>1, <1>2, <1>3, SumExtends
<1>6. SumFunction(g) \in Int /\ f[x] \in Int /\ e[x] \in Int
  BY <1>2, <1>3, SumInt
<1> QED
  BY <1>4, <1>5, <1>6

(* A sum of zeros is zero.                                                 *)
LEMMA SumOfZeros ==
  ASSUME NEW D, IsFiniteSet(D), NEW f \in [D -> Int], \A x \in D : f[x] = 0
  PROVE  SumFunction(f) = 0
<1>1. PICK g : SumFunction(f) = g[D] /\ \A S \in SUBSET D : g[S] = Step(f, S, g)
  BY ChosenSums
<1> DEFINE Failing == {S \in SUBSET D : g[S] # 0}
<1>2. ASSUME Failing # {} PROVE FALSE
  <2>1. PICK S \in Failing : \A x \in S : S \ {x} \notin Failing
    BY <1>2, SmallestSubset
  <2>2. S # {}
    BY <1>1 DEF Step
  <2>3. Pick(S) \in S
    BY <2>2, PickIn
  <2>4. g[S] = f[Pick(S)] + g[S \ {Pick(S)}]
    BY <1>1, <2>2 DEF Step
  <2>5. g[S \ {Pick(S)}] = 0 /\ f[Pick(S)] = 0
    BY <2>1, <2>3
  <2> QED
    BY <2>4, <2>5
<1> QED
  BY <1>1, <1>2

----------------------------------------------------------------------------
(* Rows *)

Fields == {"type", "status", "gross", "bps", "cut", "net", "account", "month", "auto", "live", "line", "by"}
Statuses == {"PENDING", "PAID", "CANCELLED", "ERASED"}

(* A row of an entry; the fee of a line is an expense.                     *)
GoodEntry(e) ==
  /\ e \in EntryRow
  /\ e.net = e.gross - e.cut \/ e.net = e.gross
  /\ e.status = "PAID" => e.month \in Month
  /\ e.status = "ERASED" => ~e.live
  /\ e.line # NoLine => e.type = "PAYABLE"

(* A row of a transfer; the one of a line is dated as the line.            *)
GoodWire(w) ==
  /\ w \in WireRow
  /\ w.from # w.to
  /\ w.line # NoLine => w.month = LineMonth[w.line]

Patchable == {"status", "gross", "net", "account", "month", "auto", "live", "by"}

(* What a handler may write in a row: the amounts together, a payment with *)
(* its date, and no date without one.                                      *)
IsPatch(cut, p) ==
  /\ DOMAIN p \subseteq Patchable
  /\ "status" \in DOMAIN p => p["status"] \in Statuses
  /\ "gross" \in DOMAIN p => /\ p["gross"] \in Int /\ "net" \in DOMAIN p
                             /\ p["net"] = p["gross"] - cut \/ p["net"] = p["gross"]
  /\ "net" \in DOMAIN p => "gross" \in DOMAIN p
  /\ "account" \in DOMAIN p => p["account"] \in Account \cup {NoAccount}
  /\ "month" \in DOMAIN p => /\ p["month"] \in Month \cup {0}
                             /\ p["month"] \in Month \/ ("status" \in DOMAIN p /\ p["status"] # "PAID")
  /\ "auto" \in DOMAIN p => p["auto"] \in BOOLEAN
  /\ "live" \in DOMAIN p => p["live"] = FALSE
  /\ "by" \in DOMAIN p => p["by"] \in {"user", "match"}
  /\ "status" \in DOMAIN p /\ p["status"] = "PAID" => "month" \in DOMAIN p
  /\ "status" \in DOMAIN p /\ p["status"] = "ERASED" => "live" \in DOMAIN p

LEMMA EntryFields ==
  ASSUME NEW e, e \in EntryRow
  PROVE  /\ DOMAIN e = Fields
         /\ e["type"] \in {"RECEIVABLE", "PAYABLE"} /\ e["status"] \in Statuses /\ e["gross"] \in Int
         /\ e["bps"] \in Nat /\ e["cut"] \in Int /\ e["net"] \in Int /\ e["account"] \in Account \cup {NoAccount}
         /\ e["month"] \in Month \cup {0} /\ e["auto"] \in BOOLEAN /\ e["live"] \in BOOLEAN
         /\ e["line"] \in Line \cup {NoLine} /\ e["by"] \in {"user", "match"}
BY DEF EntryRow, Fields, Statuses

(* A patch leaves a row a row.                                             *)
LEMMA PatchedEntry ==
  ASSUME NEW e, GoodEntry(e), NEW p, IsPatch(e.cut, p)
  PROVE  /\ GoodEntry(Patched(e, p))
         /\ \A f \in Fields : Patched(e, p)[f] = IF f \in DOMAIN p THEN p[f] ELSE e[f]
<1>1. PICK n : n = Patched(e, p)
  OBVIOUS
<1>2. e \in EntryRow
  BY DEF GoodEntry
<1>3. DOMAIN n = Fields /\ \A f \in Fields : n[f] = IF f \in DOMAIN p THEN p[f] ELSE e[f]
  BY <1>1, <1>2, EntryFields DEF Patched
<1>4. /\ n["type"] = e["type"] /\ n["bps"] = e["bps"] /\ n["cut"] = e["cut"] /\ n["line"] = e["line"]
      /\ n["status"] = (IF "status" \in DOMAIN p THEN p["status"] ELSE e["status"])
      /\ n["gross"] = (IF "gross" \in DOMAIN p THEN p["gross"] ELSE e["gross"])
      /\ n["net"] = (IF "net" \in DOMAIN p THEN p["net"] ELSE e["net"])
      /\ n["account"] = (IF "account" \in DOMAIN p THEN p["account"] ELSE e["account"])
      /\ n["month"] = (IF "month" \in DOMAIN p THEN p["month"] ELSE e["month"])
      /\ n["auto"] = (IF "auto" \in DOMAIN p THEN p["auto"] ELSE e["auto"])
      /\ n["live"] = (IF "live" \in DOMAIN p THEN p["live"] ELSE e["live"])
      /\ n["by"] = (IF "by" \in DOMAIN p THEN p["by"] ELSE e["by"])
  BY <1>3 DEF IsPatch, Fields, Patchable
<1>5. /\ n["type"] \in {"RECEIVABLE", "PAYABLE"} /\ n["status"] \in Statuses /\ n["gross"] \in Int
      /\ n["bps"] \in Nat /\ n["cut"] \in Int /\ n["account"] \in Account \cup {NoAccount}
      /\ n["month"] \in Month \cup {0} /\ n["line"] \in Line \cup {NoLine} /\ n["by"] \in {"user", "match"}
  BY <1>2, <1>4, EntryFields DEF IsPatch
<1>6. n["net"] \in Int /\ (n["net"] = n["gross"] - n["cut"] \/ n["net"] = n["gross"])
  BY <1>2, <1>4, EntryFields DEF IsPatch, GoodEntry
<1>7. n["auto"] \in BOOLEAN /\ n["live"] \in BOOLEAN
  BY <1>2, <1>4, EntryFields DEF IsPatch
<1>8. n = [type |-> n["type"], status |-> n["status"], gross |-> n["gross"], bps |-> n["bps"], cut |-> n["cut"],
           net |-> n["net"], account |-> n["account"], month |-> n["month"], auto |-> n["auto"],
           live |-> n["live"], line |-> n["line"], by |-> n["by"]]
  BY <1>1, <1>2, <1>3, EntryFields DEF Patched, Fields
<1>9. n \in EntryRow
  BY <1>5, <1>6, <1>7, <1>8 DEF EntryRow, Statuses
<1>10. n["status"] = "PAID" => n["month"] \in Month
  BY <1>2, <1>4, EntryFields DEF IsPatch, GoodEntry
<1>11. n["status"] = "ERASED" => n["live"] = FALSE
  BY <1>2, <1>4, EntryFields DEF IsPatch, GoodEntry
<1> QED
  BY <1>1, <1>3, <1>4, <1>6, <1>9, <1>10, <1>11 DEF GoodEntry

LEMMA WireFields ==
  ASSUME NEW w, w \in WireRow
  PROVE  /\ DOMAIN w = {"from", "to", "amount", "month", "line", "live"}
         /\ w["from"] \in Account /\ w["to"] \in Account /\ w["amount"] \in Nat \ {0} /\ w["month"] \in Month
         /\ w["line"] \in Line \cup {NoLine} /\ w["live"] \in BOOLEAN
BY DEF WireRow

(* A transfer that is undone keeps its columns.                            *)
Undone(w) == Patched(w, [live |-> FALSE])

LEMMA UndoneWire ==
  ASSUME NEW w, GoodWire(w)
  PROVE  /\ GoodWire(Undone(w))
         /\ Undone(w).from = w.from /\ Undone(w).to = w.to /\ Undone(w).amount = w.amount
         /\ Undone(w).month = w.month /\ Undone(w).line = w.line /\ Undone(w).live = FALSE
<1>1. PICK n : n = Undone(w)
  OBVIOUS
<1>2. w \in WireRow
  BY DEF GoodWire
<1>3. /\ DOMAIN n = {"from", "to", "amount", "month", "line", "live"}
      /\ n["from"] = w["from"] /\ n["to"] = w["to"] /\ n["amount"] = w["amount"] /\ n["month"] = w["month"]
      /\ n["line"] = w["line"] /\ n["live"] = FALSE
  BY <1>1, <1>2, WireFields DEF Undone, Patched
<1>4. n = [from |-> n["from"], to |-> n["to"], amount |-> n["amount"], month |-> n["month"], line |-> n["line"],
           live |-> n["live"]]
  BY <1>1, <1>2, <1>3, WireFields DEF Undone, Patched
<1>5. n \in WireRow
  BY <1>2, <1>3, <1>4, WireFields DEF WireRow
<1> QED
  BY <1>1, <1>3, <1>5 DEF GoodWire

----------------------------------------------------------------------------
(* Transactions *)

LineStatus == {"UNMATCHED", "MATCHED", "IGNORED"}

IsLinePatch(touched, p) ==
  /\ DOMAIN p \subseteq {"status", "entry"} /\ "status" \in DOMAIN p
  /\ p["status"] \in LineStatus
  /\ "entry" \in DOMAIN p => p["entry"] \in Nat
  /\ p["status"] = "MATCHED" => "entry" \in DOMAIN p /\ p["entry"] \in touched

(* A row is removed for good, and an entry paid by a machine and no longer *)
(* paid is in no account.                                                  *)
Regular(e) ==
  /\ e.status = "PAID" => e.live
  /\ e.auto /\ e.status \notin {"PAID", "ERASED"} => e.account = NoAccount

(* What every transaction is, whatever has become of the rows since it was *)
(* computed: it names rows that are there, one of each table, writes what  *)
(* a row may hold, and matches a line with the entry it touches.           *)
IsTx(d, x) ==
  /\ DOMAIN x.touch \subseteq DOMAIN d.entries /\ \A i, j \in DOMAIN x.touch : i = j
  /\ \A i \in DOMAIN x.touch : IsPatch(d.entries[i].cut, x.touch[i])
  /\ x.make = <<>> \/ \E e : GoodEntry(e) /\ Regular(e) /\ x.make = <<e>>
  /\ DOMAIN x.move \subseteq Account \cup {NoAccount} /\ \A a \in DOMAIN x.move : x.move[a] \in Int
  /\ x.wire = <<>> \/ \E w : GoodWire(w) /\ w.live /\ x.wire = <<w>>
  /\ DOMAIN x.unwire \subseteq DOMAIN d.transfers /\ \A k, j \in DOMAIN x.unwire : k = j
  /\ \A k \in DOMAIN x.unwire : x.unwire[k] = [live |-> FALSE]
  /\ DOMAIN x.line \subseteq Line /\ \A k, l \in DOMAIN x.line : k = l
  /\ \A l \in DOMAIN x.line : IsLinePatch(DOMAIN x.touch, x.line[l])
  /\ x.shut \subseteq Account \X Month

LineRow == [status : LineStatus, entry : Nat]

IsDatabase(d) ==
  /\ d.entries \in Seq(EntryRow) /\ \A i \in DOMAIN d.entries : GoodEntry(d.entries[i])
  /\ d.balance \in [Account -> Int]
  /\ d.transfers \in Seq(WireRow) /\ \A k \in DOMAIN d.transfers : GoodWire(d.transfers[k])
  /\ d.lines \in [Line -> LineRow]
  /\ \A l \in Line : d.lines[l].status = "MATCHED" => d.lines[l].entry \in DOMAIN d.entries
  /\ d.closed \subseteq Account \X Month

(* Rows are never taken away, and an entry keeps its commission.           *)
Grows(d, e) ==
  /\ DOMAIN d.entries \subseteq DOMAIN e.entries
  /\ DOMAIN d.transfers \subseteq DOMAIN e.transfers
  /\ \A i \in DOMAIN d.entries : e.entries[i].cut = d.entries[i].cut

LEMMA TxGrows ==
  ASSUME NEW d, NEW e, Grows(d, e), NEW x, IsTx(d, x)
  PROVE  IsTx(e, x)
<1>1. DOMAIN x.touch \subseteq DOMAIN e.entries /\ \A i \in DOMAIN x.touch : IsPatch(e.entries[i].cut, x.touch[i])
  BY DEF Grows, IsTx
<1>2. DOMAIN x.unwire \subseteq DOMAIN e.transfers
  BY DEF Grows, IsTx
<1> QED
  BY <1>1, <1>2 DEF IsTx

(* What a list of rows is after a transaction: the patched rows, and the   *)
(* created one behind them.                                                *)
Follows(R, rows, p, new, after) ==
  /\ after \in Seq(R)
  /\ \A k \in DOMAIN rows : after[k] = IF k \in DOMAIN p THEN Patched(rows[k], p[k]) ELSE rows[k]
  /\ Len(rows) \in Nat /\ DOMAIN rows = 1..Len(rows) /\ Len(rows) + 1 \notin DOMAIN rows
  /\ new = <<>> => DOMAIN after = DOMAIN rows
  /\ \A e : new = <<e>> => DOMAIN after = DOMAIN rows \cup {Len(rows) + 1} /\ after[Len(rows) + 1] = e

LEMMA RowsAfter ==
  ASSUME NEW R, NEW rows \in Seq(R), NEW p, NEW new, new = <<>> \/ \E e \in R : new = <<e>>,
         \A k \in DOMAIN rows : k \in DOMAIN p => Patched(rows[k], p[k]) \in R
  PROVE  Follows(R, rows, p, new, PatchedAll(rows, p) \o new)
<1>1. PICK old : old = PatchedAll(rows, p)
  OBVIOUS
<1>2. /\ old \in Seq(R) /\ Len(old) = Len(rows) /\ DOMAIN old = DOMAIN rows
      /\ \A k \in DOMAIN rows : old[k] = IF k \in DOMAIN p THEN Patched(rows[k], p[k]) ELSE rows[k]
  <2>1. old = [k \in 1..Len(rows) |-> IF k \in DOMAIN p THEN Patched(rows[k], p[k]) ELSE rows[k]]
    BY <1>1 DEF PatchedAll
  <2>2. \A k \in 1..Len(rows) : old[k] \in R
    BY <2>1
  <2> QED
    BY <2>1, <2>2
<1>3. CASE new = <<>>
  <2>1. old \o new = old
    BY <1>2, <1>3
  <2>2. \A e : <<>> # <<e>>
    OBVIOUS
  <2> QED
    BY <1>1, <1>2, <1>3, <2>1, <2>2 DEF Follows
<1>4. ASSUME NEW e \in R, new = <<e>>
      PROVE  /\ old \o new \in Seq(R)
             /\ DOMAIN (old \o new) = DOMAIN rows \cup {Len(rows) + 1}
             /\ (old \o new)[Len(rows) + 1] = e
             /\ \A k \in DOMAIN rows : (old \o new)[k] = old[k]
  BY <1>2, <1>4
<1>5. CASE \E e \in R : new = <<e>>
  <2>1. PICK e \in R : new = <<e>>
    BY <1>5
  <2>2. \A f : new = <<f>> => f = e
    BY <2>1
  <2>3. new # <<>>
    BY <2>1
  <2>4. Len(rows) \in Nat /\ DOMAIN rows = 1..Len(rows) /\ Len(rows) + 1 \notin DOMAIN rows
    OBVIOUS
  <2> QED
    BY <1>1, <1>2, <1>4, <2>1, <2>2, <2>3, <2>4 DEF Follows
<1> QED
  BY <1>3, <1>5

(* The rows after a commit.                                                *)
LEMMA EntriesAfter ==
  ASSUME NEW d, IsDatabase(d), NEW x, IsTx(d, x)
  PROVE  LET after == Apply(d, x).entries
         IN  /\ after \in Seq(EntryRow) /\ \A i \in DOMAIN after : GoodEntry(after[i])
             /\ \A i \in DOMAIN d.entries : after[i] = IF i \in DOMAIN x.touch THEN Patched(d.entries[i], x.touch[i])
                                                       ELSE d.entries[i]
             /\ DOMAIN d.entries \subseteq DOMAIN after
             /\ \A i \in DOMAIN d.entries : after[i].cut = d.entries[i].cut
             /\ Len(d.entries) \in Nat /\ DOMAIN d.entries = 1..Len(d.entries)
             /\ x.make = <<>> => DOMAIN after = DOMAIN d.entries
             /\ \A e : x.make = <<e>> => /\ DOMAIN after = DOMAIN d.entries \cup {Len(d.entries) + 1}
                                         /\ after[Len(d.entries) + 1] = e
<1>1. PICK after : after = PatchedAll(d.entries, x.touch) \o x.make
  OBVIOUS
<1>2. \A i \in DOMAIN d.entries : i \in DOMAIN x.touch =>
        /\ GoodEntry(Patched(d.entries[i], x.touch[i])) /\ Patched(d.entries[i], x.touch[i]) \in EntryRow
        /\ Patched(d.entries[i], x.touch[i])["cut"] = d.entries[i]["cut"]
  <2> SUFFICES ASSUME NEW i \in DOMAIN d.entries, i \in DOMAIN x.touch
               PROVE  /\ GoodEntry(Patched(d.entries[i], x.touch[i])) /\ Patched(d.entries[i], x.touch[i]) \in EntryRow
                      /\ Patched(d.entries[i], x.touch[i])["cut"] = d.entries[i]["cut"]
    OBVIOUS
  <2>1. GoodEntry(d.entries[i]) /\ IsPatch(d.entries[i].cut, x.touch[i])
    BY DEF IsDatabase, IsTx
  <2>2. "cut" \notin DOMAIN x.touch[i] /\ "cut" \in Fields
    BY <2>1 DEF IsPatch, Patchable, Fields
  <2> QED
    BY <2>1, <2>2, PatchedEntry DEF GoodEntry
<1>3. d.entries \in Seq(EntryRow) /\ (x.make = <<>> \/ \E e \in EntryRow : GoodEntry(e) /\ x.make = <<e>>)
  BY DEF IsDatabase, IsTx, GoodEntry
<1>4. /\ after \in Seq(EntryRow)
      /\ \A i \in DOMAIN d.entries : after[i] = IF i \in DOMAIN x.touch THEN Patched(d.entries[i], x.touch[i])
                                                ELSE d.entries[i]
      /\ Len(d.entries) \in Nat /\ DOMAIN d.entries = 1..Len(d.entries)
      /\ x.make = <<>> => DOMAIN after = DOMAIN d.entries
      /\ \A e : x.make = <<e>> => DOMAIN after = DOMAIN d.entries \cup {Len(d.entries) + 1} /\ after[Len(d.entries) + 1] = e
  <2>1. d.entries \in Seq(EntryRow) /\ (x.make = <<>> \/ \E e \in EntryRow : x.make = <<e>>)
    BY <1>3
  <2>2. \A i \in DOMAIN d.entries : i \in DOMAIN x.touch => Patched(d.entries[i], x.touch[i]) \in EntryRow
    BY <1>2
  <2>3. Follows(EntryRow, d.entries, x.touch, x.make, PatchedAll(d.entries, x.touch) \o x.make)
    BY ONLY <2>1, <2>2, RowsAfter, Zenon
  <2> QED
    BY <1>1, <2>3 DEF Follows
<1>5. DOMAIN d.entries \subseteq DOMAIN after
  BY <1>3, <1>4
<1>6. ASSUME NEW i \in DOMAIN after PROVE GoodEntry(after[i])
  <2>1. CASE i \in DOMAIN d.entries
    BY <1>2, <1>4, <2>1 DEF IsDatabase
  <2>2. CASE i \notin DOMAIN d.entries
    <3>1. PICK e : GoodEntry(e) /\ x.make = <<e>>
      BY <1>3, <1>4, <2>2
    <3> QED
      BY <1>4, <2>2, <3>1
  <2> QED
    BY <2>1, <2>2
<1>7. Apply(d, x).entries = after
  BY <1>1 DEF Apply
<1>8. \A i \in DOMAIN d.entries : after[i].cut = d.entries[i].cut
  BY <1>2, <1>4
<1> QED
  BY <1>4, <1>5, <1>6, <1>7, <1>8

LEMMA TransfersAfter ==
  ASSUME NEW d, IsDatabase(d), NEW x, IsTx(d, x)
  PROVE  LET after == Apply(d, x).transfers
         IN  /\ after \in Seq(WireRow) /\ \A k \in DOMAIN after : GoodWire(after[k])
             /\ \A k \in DOMAIN d.transfers : after[k] = IF k \in DOMAIN x.unwire THEN Undone(d.transfers[k])
                                                         ELSE d.transfers[k]
             /\ DOMAIN d.transfers \subseteq DOMAIN after
             /\ Len(d.transfers) \in Nat /\ DOMAIN d.transfers = 1..Len(d.transfers)
             /\ x.wire = <<>> => DOMAIN after = DOMAIN d.transfers
             /\ \A w : x.wire = <<w>> => /\ DOMAIN after = DOMAIN d.transfers \cup {Len(d.transfers) + 1}
                                         /\ after[Len(d.transfers) + 1] = w
<1>1. PICK after : after = PatchedAll(d.transfers, x.unwire) \o x.wire
  OBVIOUS
<1>2. \A k \in DOMAIN d.transfers : k \in DOMAIN x.unwire =>
        /\ Patched(d.transfers[k], x.unwire[k]) = Undone(d.transfers[k])
        /\ GoodWire(Undone(d.transfers[k])) /\ Undone(d.transfers[k]) \in WireRow
  BY UndoneWire DEF IsDatabase, IsTx, Undone, GoodWire
<1>3. d.transfers \in Seq(WireRow) /\ (x.wire = <<>> \/ \E w \in WireRow : GoodWire(w) /\ x.wire = <<w>>)
  BY DEF IsDatabase, IsTx, GoodWire
<1>4. /\ after \in Seq(WireRow)
      /\ \A k \in DOMAIN d.transfers : after[k] = IF k \in DOMAIN x.unwire THEN Patched(d.transfers[k], x.unwire[k])
                                                  ELSE d.transfers[k]
      /\ Len(d.transfers) \in Nat /\ DOMAIN d.transfers = 1..Len(d.transfers)
      /\ x.wire = <<>> => DOMAIN after = DOMAIN d.transfers
      /\ \A w : x.wire = <<w>> => /\ DOMAIN after = DOMAIN d.transfers \cup {Len(d.transfers) + 1}
                                  /\ after[Len(d.transfers) + 1] = w
  <2>1. d.transfers \in Seq(WireRow) /\ (x.wire = <<>> \/ \E w \in WireRow : x.wire = <<w>>)
    BY <1>3
  <2>2. \A k \in DOMAIN d.transfers : k \in DOMAIN x.unwire => Patched(d.transfers[k], x.unwire[k]) \in WireRow
    BY <1>2
  <2>3. Follows(WireRow, d.transfers, x.unwire, x.wire, PatchedAll(d.transfers, x.unwire) \o x.wire)
    BY ONLY <2>1, <2>2, RowsAfter, Zenon
  <2> QED
    BY <1>1, <2>3 DEF Follows
<1>5. DOMAIN d.transfers \subseteq DOMAIN after
  BY <1>3, <1>4
<1>6. ASSUME NEW k \in DOMAIN after PROVE GoodWire(after[k])
  <2>1. CASE k \in DOMAIN d.transfers
    BY <1>2, <1>4, <2>1 DEF IsDatabase
  <2>2. CASE k \notin DOMAIN d.transfers
    <3>1. PICK w : GoodWire(w) /\ x.wire = <<w>>
      BY <1>3, <1>4, <2>2
    <3> QED
      BY <1>4, <2>2, <3>1
  <2> QED
    BY <2>1, <2>2
<1>7. Apply(d, x).transfers = after
  BY <1>1 DEF Apply
<1> QED
  BY <1>2, <1>4, <1>5, <1>6, <1>7

LEMMA LinesAfter ==
  ASSUME NEW d, IsDatabase(d), NEW x, IsTx(d, x)
  PROVE  LET after == Apply(d, x).lines
         IN  /\ after \in [Line -> LineRow]
             /\ \A l \in Line \ DOMAIN x.line : after[l] = d.lines[l]
             /\ \A l \in DOMAIN x.line : /\ after[l].status = x.line[l]["status"]
                                         /\ after[l].entry = IF "entry" \in DOMAIN x.line[l] THEN x.line[l]["entry"]
                                                             ELSE d.lines[l].entry
<1>1. PICK after : after = PatchedAll(d.lines, x.line)
  OBVIOUS
<1>2. d.lines \in [Line -> LineRow] /\ DOMAIN x.line \subseteq Line /\ \A l \in DOMAIN x.line : IsLinePatch(DOMAIN x.touch, x.line[l])
  BY DEF IsDatabase, IsTx
<1>3. after = [l \in Line |-> IF l \in DOMAIN x.line THEN Patched(d.lines[l], x.line[l]) ELSE d.lines[l]]
  BY <1>1, <1>2 DEF PatchedAll
<1>4. ASSUME NEW l \in DOMAIN x.line
      PROVE  /\ after[l] \in LineRow
             /\ after[l].status = x.line[l]["status"]
             /\ after[l].entry = IF "entry" \in DOMAIN x.line[l] THEN x.line[l]["entry"] ELSE d.lines[l].entry
  <2>1. PICK row : row = d.lines[l]
    OBVIOUS
  <2>2. row \in LineRow /\ DOMAIN row = {"status", "entry"} /\ row["entry"] \in Nat /\ l \in Line
    BY <1>2, <2>1 DEF LineRow
  <2>3. PICK new : new = Patched(row, x.line[l])
    OBVIOUS
  <2>4. /\ DOMAIN new = {"status", "entry"} /\ new["status"] = x.line[l]["status"]
        /\ new["entry"] = IF "entry" \in DOMAIN x.line[l] THEN x.line[l]["entry"] ELSE row["entry"]
    BY <1>2, <2>2, <2>3 DEF Patched, IsLinePatch
  <2>5. new = [status |-> new["status"], entry |-> new["entry"]]
    BY <2>2, <2>3, <2>4 DEF Patched
  <2>6. new["status"] \in LineStatus /\ new["entry"] \in Nat
    BY <1>2, <2>2, <2>4 DEF IsLinePatch
  <2>7. new \in LineRow
    BY <2>5, <2>6 DEF LineRow
  <2>8. after[l] = new
    BY <1>3, <2>1, <2>2, <2>3
  <2> QED
    BY <2>1, <2>4, <2>7, <2>8
<1>5. after \in [Line -> LineRow]
  <2>1. \A l \in Line : after[l] \in LineRow
    BY <1>2, <1>3, <1>4
  <2> QED
    BY <1>3, <2>1
<1>6. \A l \in Line \ DOMAIN x.line : after[l] = d.lines[l]
  BY <1>3
<1>7. Apply(d, x).lines = after
  BY <1>1 DEF Apply
<1> QED
  BY <1>4, <1>5, <1>6, <1>7

(* A commit keeps the tables what they are, and the other transactions.    *)
LEMMA ApplyTyped ==
  ASSUME NEW d, IsDatabase(d), NEW x, IsTx(d, x)
  PROVE  IsDatabase(Apply(d, x)) /\ Grows(d, Apply(d, x))
<1>1. PICK e : e = Apply(d, x)
  OBVIOUS
<1>2. /\ e.entries \in Seq(EntryRow) /\ \A i \in DOMAIN e.entries : GoodEntry(e.entries[i])
      /\ DOMAIN d.entries \subseteq DOMAIN e.entries /\ \A i \in DOMAIN d.entries : e.entries[i].cut = d.entries[i].cut
  BY <1>1, EntriesAfter
<1>3. /\ e.transfers \in Seq(WireRow) /\ \A k \in DOMAIN e.transfers : GoodWire(e.transfers[k])
      /\ DOMAIN d.transfers \subseteq DOMAIN e.transfers
  BY <1>1, TransfersAfter
<1>4. e.balance \in [Account -> Int]
  <2>1. e.balance = [a \in Account |-> d.balance[a] + At(x.move, a)]
    BY <1>1 DEF Apply
  <2>2. \A a \in Account : At(x.move, a) \in Int /\ d.balance[a] \in Int
    BY DEF At, IsTx, IsDatabase
  <2> QED
    BY <2>1, <2>2
<1>5. e.lines \in [Line -> LineRow] /\ \A l \in Line : e.lines[l].status = "MATCHED" => e.lines[l].entry \in DOMAIN e.entries
  <2>1. /\ e.lines \in [Line -> LineRow]
        /\ \A l \in Line \ DOMAIN x.line : e.lines[l] = d.lines[l]
        /\ \A l \in DOMAIN x.line : /\ e.lines[l].status = x.line[l]["status"]
                                    /\ e.lines[l].entry = IF "entry" \in DOMAIN x.line[l] THEN x.line[l]["entry"]
                                                          ELSE d.lines[l].entry
    BY <1>1, LinesAfter
  <2>2. \A l \in Line : d.lines[l].status = "MATCHED" => d.lines[l].entry \in DOMAIN d.entries
    BY DEF IsDatabase
  <2>3. \A l \in DOMAIN x.line : IsLinePatch(DOMAIN x.touch, x.line[l])
    BY DEF IsTx
  <2> QED
    BY <1>2, <2>1, <2>2, <2>3 DEF IsLinePatch, IsTx
<1>6. e.closed \subseteq Account \X Month
  BY <1>1 DEF Apply, IsTx, IsDatabase
<1> QED
  BY <1>1, <1>2, <1>3, <1>4, <1>5, <1>6 DEF IsDatabase, Grows


----------------------------------------------------------------------------
(* What a transaction does to the amounts posted in an account *)

The(S) == CHOOSE s \in S : TRUE

PatchGain(d, x, a, months) ==
  IF DOMAIN x.touch = {} THEN 0
  ELSE LET i == The(DOMAIN x.touch)
       IN Worth(Patched(d.entries[i], x.touch[i]), a, months) - Worth(d.entries[i], a, months)
MadeGain(x, a, months) == IF x.make = <<>> THEN 0 ELSE Worth(x.make[1], a, months)
WireGain(x, a, months) == IF x.wire = <<>> THEN 0 ELSE Carried(x.wire[1], a, months)
UnwireGain(d, x, a, months) ==
  IF DOMAIN x.unwire = {} THEN 0 ELSE -Carried(d.transfers[The(DOMAIN x.unwire)], a, months)

Gain(d, x, a, months) ==
  PatchGain(d, x, a, months) + MadeGain(x, a, months) + WireGain(x, a, months) + UnwireGain(d, x, a, months)

(* What it moves in the balance beyond what it posts.                      *)
Effect(d, x, a) == At(x.move, a) - Gain(d, x, a, Month)

----------------------------------------------------------------------------
(* The invariant *)

OneMatch(d) ==
  \A k, l \in Line : k # l /\ d.lines[k].status = "MATCHED" /\ d.lines[l].status = "MATCHED"
                     => d.lines[k].entry # d.lines[l].entry

(* What holds of a transaction of q while nothing that q has read has      *)
(* changed: it writes rows that q has read,                                *)
Covered(q, x) ==
  /\ \A i \in DOMAIN x.touch : <<"entry", i>> \in q.on
  /\ \A k \in DOMAIN x.unwire : <<"wire", k>> \in q.on

(* leaves the rows regular,                                                *)
KeepsRows(d, x) ==
  \A i \in DOMAIN x.touch : d.entries[i].status = "ERASED" \/ Regular(Patched(d.entries[i], x.touch[i]))

(* matches an entry that no other line has,                                *)
KeepsLines(d, q, x) ==
  \A l \in DOMAIN x.line : x.line[l]["status"] = "MATCHED" =>
    q.op = "matchLine" /\ \A k \in Line \ {l} : ~(d.lines[k].status = "MATCHED" /\ d.lines[k].entry = x.line[l]["entry"])

(* posts in months that q has found open,                                  *)
Unchecked == {"updateEntry", "rebalance", "matchLine", "unmatchLine"}
IsOpenFor(d, q, a, m) == <<a, m>> \notin d.closed /\ <<"month", <<a, m>>>> \in q.on
KeepsMonths(d, q, x) ==
  q.op \notin Unchecked => \A a \in Account, m \in Month : Gain(d, x, a, {m}) = 0 \/ IsOpenFor(d, q, a, m)

(* or, for a match and its undoing, in the month of the line,              *)
InMonth(d, x, m) ==
  /\ x.wire = <<>> \/ x.wire[1].month = m
  /\ x.make = <<>> \/ x.make[1].month = m
  /\ \A k \in DOMAIN x.unwire : d.transfers[k].month = m
  /\ \A i \in DOMAIN x.touch : "gross" \notin DOMAIN x.touch[i]
  /\ x.shut = {}
KeepsBank(d, q, x) ==
  q.op \in {"matchLine", "unmatchLine"} => \E m \in Month : IsOpenFor(d, q, Bank, m) /\ InMonth(d, x, m)

(* and moves in the balance what it posts.                                 *)
KeepsBalance(d, q, x) == q.op # "unmatchLine" => \A a \in Account : Effect(d, x, a) = 0

SoundTx(d, q, x) ==
  /\ Covered(q, x) /\ KeepsRows(d, x) /\ KeepsLines(d, q, x)
  /\ KeepsMonths(d, q, x) /\ KeepsBank(d, q, x) /\ KeepsBalance(d, q, x)

(* A row that is written twice is erased first.                            *)
Erases(p) == "status" \in DOMAIN p /\ p["status"] = "ERASED"
TouchBoth(x, y) == DOMAIN x.touch \cap DOMAIN y.touch
ErasedFirst(s) ==
  \A n, m \in DOMAIN s : n < m => \A i \in TouchBoth(s[n], s[m]) : Erases(s[n].touch[i])

Sound(d, q) ==
  /\ \A n \in DOMAIN q.todo : SoundTx(d, q, q.todo[n])
  /\ ErasedFirst(q.todo)
  /\ q.op # "unmatchLine" => Len(q.todo) <= 1

(* An unmatch that will fail, or write over what another request has done. *)
Doomed(d, q) ==
  /\ q.op = "unmatchLine"
  /\ \/ q.stale
     \/ \E n \in DOMAIN q.todo : Lost(d, q.todo[n])
     \/ \E n, m \in DOMAIN q.todo : n < m /\ TouchBoth(q.todo[n], q.todo[m]) # {}

(* What an unmatch has still to move.                                      *)
Later(d, q, n, a) == IF n \in DOMAIN q.todo THEN Effect(d, q.todo[n], a) ELSE 0
Owed(d, q, a) ==
  IF q.op # "unmatchLine" THEN 0
  ELSE Later(d, q, 1, a) + Later(d, q, 2, a) + Later(d, q, 3, a) + Later(d, q, 4, a)
     + Later(d, q, 5, a) + Later(d, q, 6, a) + Later(d, q, 7, a) + Later(d, q, 8, a)

Clean ==
  /\ \A i \in DOMAIN db.entries : Regular(db.entries[i])
  /\ OneMatch(db)
  /\ \A r \in Request : ~req[r].stale => Sound(db, req[r])

Even ==
  \/ \E r \in Request : Doomed(db, req[r])
  \/ \A a \in Account : Drift(a) + SumFunction([r \in Request |-> Owed(db, req[r], a)]) = 0

----------------------------------------------------------------------------
(* Sums after a transaction *)

LEMMA TheOne ==
  ASSUME NEW S, S # {}, \A s, t \in S : s = t
  PROVE  The(S) \in S /\ S = {The(S)}
BY DEF The

LEMMA WorthInt ==
  ASSUME NEW e, GoodEntry(e), NEW a, NEW months
  PROVE  Worth(e, a, months) \in Int
BY EntryFields DEF GoodEntry, Worth, Signed, Sign

LEMMA CarriedInt ==
  ASSUME NEW w, GoodWire(w), NEW a, NEW months
  PROVE  Carried(w, a, months) \in Int /\ Carried(Undone(w), a, months) = 0
<1>1. w["amount"] \in Int
  BY WireFields DEF GoodWire
<1>2. At(Carry(w.from, w.to, w.amount), a) \in Int
  BY <1>1 DEF At, Carry
<1>3. Undone(w)["live"] = FALSE
  BY UndoneWire
<1> QED
  BY <1>2, <1>3 DEF Carried

WorthOf(rows, a, months) == [i \in DOMAIN rows |-> Worth(rows[i], a, months)]
CarriedOf(rows, a, months) == [k \in DOMAIN rows |-> Carried(rows[k], a, months)]

Adds(n, f, P, added, g) ==
  SumFunction(g) = SumFunction(f) + (IF P = {} THEN 0 ELSE g[The(P)] - f[The(P)]) + (IF added THEN g[n + 1] ELSE 0)

(* One row may change and one be added: the sum changes by the difference  *)
(* and by the new value.                                                   *)
LEMMA SumAfter ==
  ASSUME NEW n \in Nat, NEW f \in [1..n -> Int], NEW E, NEW g \in [E -> Int],
         NEW P, P \subseteq 1..n, \A i, j \in P : i = j, \A i \in (1..n) \ P : g[i] = f[i],
         NEW added, (E = 1..n /\ ~added) \/ (E = (1..n) \cup {n + 1} /\ added)
  PROVE  Adds(n, f, P, added, g)
<1> DEFINE change == IF P = {} THEN 0 ELSE g[The(P)] - f[The(P)]
           new == IF added THEN g[n + 1] ELSE 0
<1>1. IsFiniteSet(1..n) /\ n + 1 \notin 1..n
  BY FS_Interval
<1>d. PICK D : D = 1..n
  OBVIOUS
<1>z. PICK z : z = n + 1
  OBVIOUS
<1>h. PICK h : h = [i \in 1..n |-> g[i]]
  OBVIOUS
<1>2. h \in [1..n -> Int] /\ \A i \in 1..n : h[i] = g[i]
  BY <1>h
<1>3. SumFunction(h) = SumFunction(f) + change
  <2>1. CASE P = {}
    <3>1. h = f
      BY <1>2, <2>1
    <3>2. SumFunction(f) \in Int
      BY <1>1, SumInt
    <3> QED
      BY <2>1, <3>1, <3>2
  <2>2. CASE P # {}
    <3>1. PICK i : i = The(P)
      OBVIOUS
    <3>2. i \in 1..n /\ P = {i}
      BY <2>2, <3>1, TheOne
    <3>3. \A j \in (1..n) \ {i} : h[j] = f[j]
      BY <1>2, <3>2
    <3>4. SumFunction(h) = SumFunction(f) - f[i] + h[i]
      <4>1. IsFiniteSet(D) /\ f \in [D -> Int] /\ h \in [D -> Int] /\ i \in D /\ \A j \in D \ {i} : h[j] = f[j]
        BY <1>1, <1>2, <1>d, <3>2, <3>3
      <4> QED
        BY ONLY <4>1, SumChanges
    <3>5. SumFunction(f) \in Int /\ f[i] \in Int /\ h[i] \in Int /\ h[i] = g[i]
      BY <1>1, <1>2, <3>2, SumInt
    <3>6. change = g[i] - f[i]
      BY <2>2, <3>1
    <3> HIDE DEF change
    <3> QED
      BY <3>4, <3>5, <3>6
  <2> QED
    BY <2>1, <2>2
<1>4. SumFunction(g) = SumFunction(h) + new
  <2>1. CASE E = 1..n /\ ~added
    <3>1. h = g
      BY <1>h, <2>1
    <3>2. SumFunction(h) \in Int
      BY <1>1, <1>2, SumInt
    <3> QED
      BY <2>1, <3>1, <3>2
  <2>2. CASE E = (1..n) \cup {n + 1} /\ added
    <3>1. \A i \in 1..n : g[i] = h[i]
      BY <1>2
    <3>2. g \in [(1..n) \cup {n + 1} -> Int]
      BY <2>2
    <3>3. SumFunction(g) = SumFunction(h) + g[n + 1]
      <4>1. IsFiniteSet(D) /\ h \in [D -> Int] /\ z \notin D /\ D \cup {z} = E /\ \A i \in D : g[i] = h[i]
        BY <1>1, <1>2, <1>d, <1>z, <3>1, <3>2
      <4>2. SumFunction(g) = SumFunction(h) + g[z]
        <5>1. g \in [E -> Int]
          OBVIOUS
        <5>2. Grown(h, g, z)
          BY ONLY <4>1, <5>1, SumGrows, Zenon
        <5> QED
          BY <5>2 DEF Grown
      <4> QED
        BY <1>z, <4>2
    <3> QED
      BY <2>2, <3>3
  <2> QED
    BY <2>1, <2>2
<1> HIDE DEF change, new
<1>5. SumFunction(f) \in Int /\ change \in Int /\ new \in Int
  <2>1. CASE P = {}
    BY <2>1, <1>1, SumInt DEF change, new
  <2>2. CASE P # {}
    <3>1. The(P) \in 1..n /\ The(P) \in E
      BY <2>2, TheOne
    <3> QED
      BY <2>2, <3>1, <1>1, SumInt DEF change, new
  <2> QED
    BY <2>1, <2>2
<1> QED
  BY <1>3, <1>4, <1>5 DEF change, new, Adds

LEMMA EntriesSum ==
  ASSUME NEW d, IsDatabase(d), NEW x, IsTx(d, x), NEW a, NEW months
  PROVE  /\ SumFunction(WorthOf(Apply(d, x).entries, a, months))
              = SumFunction(WorthOf(d.entries, a, months)) + PatchGain(d, x, a, months) + MadeGain(x, a, months)
         /\ SumFunction(WorthOf(d.entries, a, months)) \in Int
         /\ PatchGain(d, x, a, months) \in Int /\ MadeGain(x, a, months) \in Int
<1>1. PICK after : after = Apply(d, x).entries
  OBVIOUS
<1>2. PICK n : n = Len(d.entries)
  OBVIOUS
<1>3. /\ n \in Nat /\ DOMAIN d.entries = 1..n /\ DOMAIN d.entries \subseteq DOMAIN after
      /\ \A i \in 1..n : after[i] = IF i \in DOMAIN x.touch THEN Patched(d.entries[i], x.touch[i]) ELSE d.entries[i]
      /\ x.make = <<>> => DOMAIN after = 1..n
      /\ \A e : x.make = <<e>> => DOMAIN after = 1..n \cup {n + 1} /\ after[n + 1] = e
      /\ \A i \in DOMAIN after : GoodEntry(after[i])
  BY <1>1, <1>2, EntriesAfter
<1>4. PICK f : f = WorthOf(d.entries, a, months)
  OBVIOUS
<1>5. PICK g : g = WorthOf(after, a, months)
  OBVIOUS
<1>6. f \in [1..n -> Int] /\ g \in [DOMAIN after -> Int]
  <2>1. \A i \in DOMAIN d.entries : Worth(d.entries[i], a, months) \in Int
    BY WorthInt DEF IsDatabase
  <2>2. \A i \in DOMAIN after : Worth(after[i], a, months) \in Int
    BY <1>3, WorthInt
  <2> QED
    BY <1>3, <1>4, <1>5, <2>1, <2>2 DEF WorthOf
<1>7. PICK P : P = DOMAIN x.touch
  OBVIOUS
<1>8. P \subseteq 1..n /\ \A i, j \in P : i = j
  BY <1>3, <1>7 DEF IsTx
<1>9. \A i \in (1..n) \ P : g[i] = f[i]
  BY <1>3, <1>4, <1>5, <1>7 DEF WorthOf
<1>10. PatchGain(d, x, a, months) = IF P = {} THEN 0 ELSE g[The(P)] - f[The(P)]
  <2>1. CASE P = {}
    BY <1>7, <2>1 DEF PatchGain
  <2>2. CASE P # {}
    <3>1. The(P) \in P /\ The(P) \in 1..n
      BY <1>8, <2>2, TheOne
    <3>2. g[The(P)] = Worth(Patched(d.entries[The(P)], x.touch[The(P)]), a, months)
      BY <1>3, <1>5, <1>7, <3>1 DEF WorthOf
    <3>3. f[The(P)] = Worth(d.entries[The(P)], a, months)
      BY <1>3, <1>4, <3>1 DEF WorthOf
    <3> QED
      BY <1>7, <2>2, <3>2, <3>3 DEF PatchGain
  <2> QED
    BY <2>1, <2>2
<1>11. PICK added \in BOOLEAN : added = (x.make # <<>>)
  OBVIOUS
<1>12. /\ (DOMAIN after = 1..n /\ ~added) \/ (DOMAIN after = (1..n) \cup {n + 1} /\ added)
       /\ MadeGain(x, a, months) = IF added THEN g[n + 1] ELSE 0
  <2>1. CASE x.make = <<>>
    BY <1>3, <1>11, <2>1 DEF MadeGain
  <2>2. CASE x.make # <<>>
    <3>1. PICK e : x.make = <<e>>
      BY <2>2 DEF IsTx
    <3>2. DOMAIN after = 1..n \cup {n + 1} /\ after[n + 1] = e
      BY <1>3, <3>1
    <3>3. g[n + 1] = Worth(e, a, months)
      BY <1>5, <3>2 DEF WorthOf
    <3>4. x.make[1] = e
      BY <3>1
    <3>5. MadeGain(x, a, months) = Worth(e, a, months)
      BY <2>2, <3>4 DEF MadeGain
    <3> QED
      BY <1>11, <2>2, <3>2, <3>3, <3>5
  <2> QED
    BY <2>1, <2>2
<1>13. SumFunction(g) = SumFunction(f) + (IF P = {} THEN 0 ELSE g[The(P)] - f[The(P)]) + (IF added THEN g[n + 1] ELSE 0)
  <2>1. n \in Nat /\ ((DOMAIN after = 1..n /\ ~added) \/ (DOMAIN after = (1..n) \cup {n + 1} /\ added))
    BY <1>3, <1>12
  <2>2. Adds(n, f, P, added, g)
    BY ONLY <2>1, <1>6, <1>8, <1>9, SumAfter, Zenon
  <2> QED
    BY <2>2 DEF Adds
<1>14. SumFunction(f) \in Int
  <2>1. IsFiniteSet(1..n)
    BY <1>3, FS_Interval
  <2> QED
    BY <1>6, <2>1, SumInt
<1>15. (IF P = {} THEN 0 ELSE g[The(P)] - f[The(P)]) \in Int
  <2>1. P # {} => The(P) \in 1..n /\ The(P) \in DOMAIN after
    BY <1>3, <1>8, TheOne
  <2> QED
    BY <1>6, <2>1
<1>16. (IF added THEN g[n + 1] ELSE 0) \in Int
  BY <1>6, <1>12
<1> QED
  BY <1>1, <1>4, <1>5, <1>10, <1>12, <1>13, <1>14, <1>15, <1>16

LEMMA TransfersSum ==
  ASSUME NEW d, IsDatabase(d), NEW x, IsTx(d, x), NEW a, NEW months
  PROVE  /\ SumFunction(CarriedOf(Apply(d, x).transfers, a, months))
              = SumFunction(CarriedOf(d.transfers, a, months)) + UnwireGain(d, x, a, months) + WireGain(x, a, months)
         /\ SumFunction(CarriedOf(d.transfers, a, months)) \in Int
         /\ UnwireGain(d, x, a, months) \in Int /\ WireGain(x, a, months) \in Int
<1>1. PICK after : after = Apply(d, x).transfers
  OBVIOUS
<1>2. PICK n : n = Len(d.transfers)
  OBVIOUS
<1>3. /\ n \in Nat /\ DOMAIN d.transfers = 1..n /\ DOMAIN d.transfers \subseteq DOMAIN after
      /\ \A k \in 1..n : after[k] = IF k \in DOMAIN x.unwire THEN Undone(d.transfers[k]) ELSE d.transfers[k]
      /\ x.wire = <<>> => DOMAIN after = 1..n
      /\ \A w : x.wire = <<w>> => DOMAIN after = 1..n \cup {n + 1} /\ after[n + 1] = w
      /\ \A k \in DOMAIN after : GoodWire(after[k])
      /\ \A k \in 1..n : GoodWire(d.transfers[k])
  BY <1>1, <1>2, TransfersAfter DEF IsDatabase
<1>4. PICK f : f = CarriedOf(d.transfers, a, months)
  OBVIOUS
<1>5. PICK g : g = CarriedOf(after, a, months)
  OBVIOUS
<1>6. f \in [1..n -> Int] /\ g \in [DOMAIN after -> Int]
  <2>1. \A k \in DOMAIN d.transfers : Carried(d.transfers[k], a, months) \in Int
    BY <1>3, CarriedInt
  <2>2. \A k \in DOMAIN after : Carried(after[k], a, months) \in Int
    BY <1>3, CarriedInt
  <2> QED
    BY <1>3, <1>4, <1>5, <2>1, <2>2 DEF CarriedOf
<1>7. PICK P : P = DOMAIN x.unwire
  OBVIOUS
<1>8. P \subseteq 1..n /\ \A k, j \in P : k = j
  BY <1>3, <1>7 DEF IsTx
<1>9. \A k \in (1..n) \ P : g[k] = f[k]
  BY <1>3, <1>4, <1>5, <1>7 DEF CarriedOf
<1>10. UnwireGain(d, x, a, months) = IF P = {} THEN 0 ELSE g[The(P)] - f[The(P)]
  <2>1. CASE P = {}
    BY <1>7, <2>1 DEF UnwireGain
  <2>2. CASE P # {}
    <3>1. The(P) \in P /\ The(P) \in 1..n
      BY <1>8, <2>2, TheOne
    <3>2. g[The(P)] = 0
      BY <1>3, <1>5, <1>7, <3>1, CarriedInt DEF CarriedOf
    <3>3. f[The(P)] = Carried(d.transfers[The(P)], a, months)
      BY <1>3, <1>4, <3>1 DEF CarriedOf
    <3>4. f[The(P)] \in Int
      BY <1>6, <3>1
    <3>5. UnwireGain(d, x, a, months) = -f[The(P)]
      BY <1>7, <2>2, <3>3 DEF UnwireGain
    <3> QED
      BY <2>2, <3>2, <3>4, <3>5
  <2> QED
    BY <2>1, <2>2
<1>11. PICK added \in BOOLEAN : added = (x.wire # <<>>)
  OBVIOUS
<1>12. /\ (DOMAIN after = 1..n /\ ~added) \/ (DOMAIN after = (1..n) \cup {n + 1} /\ added)
       /\ WireGain(x, a, months) = IF added THEN g[n + 1] ELSE 0
  <2>1. CASE x.wire = <<>>
    BY <1>3, <1>11, <2>1 DEF WireGain
  <2>2. CASE x.wire # <<>>
    <3>1. PICK w : x.wire = <<w>>
      BY <2>2 DEF IsTx
    <3>2. DOMAIN after = 1..n \cup {n + 1} /\ after[n + 1] = w
      BY <1>3, <3>1
    <3>3. g[n + 1] = Carried(w, a, months)
      BY <1>5, <3>2 DEF CarriedOf
    <3>4. x.wire[1] = w
      BY <3>1
    <3>5. WireGain(x, a, months) = Carried(w, a, months)
      BY <2>2, <3>4 DEF WireGain
    <3> QED
      BY <1>11, <2>2, <3>2, <3>3, <3>5
  <2> QED
    BY <2>1, <2>2
<1>13. SumFunction(g) = SumFunction(f) + (IF P = {} THEN 0 ELSE g[The(P)] - f[The(P)]) + (IF added THEN g[n + 1] ELSE 0)
  <2>1. n \in Nat /\ ((DOMAIN after = 1..n /\ ~added) \/ (DOMAIN after = (1..n) \cup {n + 1} /\ added))
    BY <1>3, <1>12
  <2>2. Adds(n, f, P, added, g)
    BY ONLY <2>1, <1>6, <1>8, <1>9, SumAfter, Zenon
  <2> QED
    BY <2>2 DEF Adds
<1>14. SumFunction(f) \in Int
  <2>1. IsFiniteSet(1..n)
    BY <1>3, FS_Interval
  <2> QED
    BY <1>6, <2>1, SumInt
<1>15. (IF P = {} THEN 0 ELSE g[The(P)] - f[The(P)]) \in Int
  <2>1. P # {} => The(P) \in 1..n /\ The(P) \in DOMAIN after
    BY <1>3, <1>8, TheOne
  <2> QED
    BY <1>6, <2>1
<1>16. (IF added THEN g[n + 1] ELSE 0) \in Int
  BY <1>6, <1>12
<1> QED
  BY <1>1, <1>4, <1>5, <1>10, <1>12, <1>13, <1>14, <1>15, <1>16

(* The amount posted changes by the gain of the transaction, the drift by  *)
(* its effect.                                                             *)
LEMMA PostedAfter ==
  ASSUME NEW d, IsDatabase(d), NEW x, IsTx(d, x), NEW a, NEW months
  PROVE  /\ Posted(Apply(d, x), a, months) = Posted(d, a, months) + Gain(d, x, a, months)
         /\ Posted(d, a, months) \in Int /\ Gain(d, x, a, months) \in Int
<1>1. \A e : Posted(e, a, months) = SumFunction(WorthOf(e.entries, a, months)) + SumFunction(CarriedOf(e.transfers, a, months))
  BY DEF Posted, WorthOf, CarriedOf
<1> QED
  BY <1>1, EntriesSum, TransfersSum DEF Gain

LEMMA EffectInt ==
  ASSUME NEW d, IsDatabase(d), NEW x, IsTx(d, x), NEW a \in Account
  PROVE  Effect(d, x, a) \in Int
<1>1. At(x.move, a) \in Int
  BY DEF At, IsTx
<1> QED
  BY <1>1, PostedAfter DEF Effect

LEMMA DriftAfter ==
  ASSUME NEW d, IsDatabase(d), NEW x, IsTx(d, x), NEW a \in Account
  PROVE  Apply(d, x).balance[a] - Posted(Apply(d, x), a, Month) = (d.balance[a] - Posted(d, a, Month)) + Effect(d, x, a)
<1>1. At(x.move, a) \in Int /\ d.balance[a] \in Int
  BY DEF At, IsTx, IsDatabase
<1>2. Apply(d, x).balance[a] = d.balance[a] + At(x.move, a)
  BY DEF Apply
<1> QED
  BY <1>1, <1>2, PostedAfter DEF Effect

----------------------------------------------------------------------------
(* Requests *)

IsScript(d, s) == \E S : s \in Seq(S) /\ \A x \in S : IsTx(d, x)

IsPart(d, p) == p.i \in DOMAIN d.entries /\ p.account \in Account \cup {NoAccount} /\ p.month \in Month

IsRequest(d, q) ==
  /\ DOMAIN q = {"op", "todo", "then", "on", "stale"}
  /\ q.stale \in BOOLEAN
  /\ IsScript(d, q.todo) /\ Len(q.todo) <= 8
  /\ q.then # NoPay => q.op = "partialPay" /\ IsPart(d, q.then)
  /\ q.op = "unmatchLine" => q.then = NoPay
  /\ q.op = "idle" => q = Idle

LEMMA ScriptTx ==
  ASSUME NEW d, NEW s, IsScript(d, s)
  PROVE  /\ Len(s) \in Nat /\ DOMAIN s = 1..Len(s) /\ \A n \in DOMAIN s : IsTx(d, s[n])
         /\ s # <<>> => /\ Head(s) = s[1] /\ 1 \in DOMAIN s /\ IsTx(d, Head(s))
                        /\ IsScript(d, Tail(s)) /\ Len(Tail(s)) = Len(s) - 1
                        /\ \A n \in DOMAIN Tail(s) : n + 1 \in DOMAIN s /\ n \in 1..Len(s) /\ Tail(s)[n] = s[n + 1]
<1>1. PICK S : s \in Seq(S) /\ \A x \in S : IsTx(d, x)
  BY DEF IsScript
<1>2. Len(s) \in Nat /\ DOMAIN s = 1..Len(s) /\ \A n \in DOMAIN s : IsTx(d, s[n])
  BY <1>1
<1>3. ASSUME s # <<>> PROVE /\ Head(s) = s[1] /\ 1 \in DOMAIN s /\ Tail(s) \in Seq(S) /\ Len(Tail(s)) = Len(s) - 1
                            /\ \A n \in DOMAIN Tail(s) : n + 1 \in DOMAIN s /\ n \in 1..Len(s) /\ Tail(s)[n] = s[n + 1]
  BY <1>1, <1>3
<1>4. s # <<>> => IsScript(d, Tail(s))
  BY <1>1, <1>3 DEF IsScript
<1> QED
  BY <1>2, <1>3, <1>4

LEMMA ScriptGrows ==
  ASSUME NEW d, NEW e, Grows(d, e), NEW s, IsScript(d, s)
  PROVE  IsScript(e, s)
BY TxGrows DEF IsScript

LEMMA ScriptOfOne ==
  ASSUME NEW d, NEW x, IsTx(d, x)
  PROVE  /\ IsScript(d, <<x>>) /\ Len(<<x>>) = 1 /\ <<x>>[1] = x /\ DOMAIN <<x>> = {1} /\ <<x>> # <<>>
<1>1. PICK S : S = {x}
  OBVIOUS
<1>2. <<x>> \in Seq(S) /\ \A y \in S : IsTx(d, y)
  BY <1>1
<1>3. IsScript(d, <<x>>)
  BY <1>2, Zenon DEF IsScript
<1> QED
  BY <1>3

LEMMA ScriptOfNone ==
  ASSUME NEW d
  PROVE  IsScript(d, <<>>)
<1>1. PICK S : S = {}
  OBVIOUS
<1>2. <<>> \in Seq(S) /\ \A y \in S : IsTx(d, y)
  BY <1>1
<1> QED
  BY <1>2, Zenon DEF IsScript

LEMMA ScriptOfTwo ==
  ASSUME NEW d, NEW s, IsScript(d, s), NEW t, IsScript(d, t)
  PROVE  IsScript(d, s \o t) /\ Len(s \o t) = Len(s) + Len(t)
<1>1. PICK S : s \in Seq(S) /\ \A x \in S : IsTx(d, x)
  BY DEF IsScript
<1>2. PICK T : t \in Seq(T) /\ \A x \in T : IsTx(d, x)
  BY DEF IsScript
<1>3. s \in Seq(S \cup T) /\ t \in Seq(S \cup T)
  BY <1>1, <1>2
<1>4. s \o t \in Seq(S \cup T)
  BY <1>3
<1>5. \A x \in S \cup T : IsTx(d, x)
  BY <1>1, <1>2
<1> QED
  BY <1>1, <1>2, <1>4, <1>5 DEF IsScript

----------------------------------------------------------------------------
(* What holds of a transaction still does when its rows have not changed *)

SameFor(d, e, x) ==
  /\ \A i \in DOMAIN x.touch : e.entries[i] = d.entries[i]
  /\ \A k \in DOMAIN x.unwire : e.transfers[k] = d.transfers[k]

LEMMA SameGain ==
  ASSUME NEW d, NEW e, NEW x, IsTx(d, x), SameFor(d, e, x)
  PROVE  /\ \A a, months : Gain(e, x, a, months) = Gain(d, x, a, months)
         /\ \A a : Effect(e, x, a) = Effect(d, x, a)
<1>1. \A a, months : PatchGain(e, x, a, months) = PatchGain(d, x, a, months)
  <2>1. CASE DOMAIN x.touch = {}
    BY <2>1 DEF PatchGain
  <2>2. CASE DOMAIN x.touch # {}
    <3>1. The(DOMAIN x.touch) \in DOMAIN x.touch
      BY <2>2 DEF The
    <3>2. e.entries[The(DOMAIN x.touch)] = d.entries[The(DOMAIN x.touch)]
      BY <3>1 DEF SameFor
    <3> QED
      BY <2>2, <3>2 DEF PatchGain
  <2> QED
    BY <2>1, <2>2
<1>2. \A a, months : UnwireGain(e, x, a, months) = UnwireGain(d, x, a, months)
  <2>1. CASE DOMAIN x.unwire = {}
    BY <2>1 DEF UnwireGain
  <2>2. CASE DOMAIN x.unwire # {}
    <3>1. The(DOMAIN x.unwire) \in DOMAIN x.unwire
      BY <2>2 DEF The
    <3>2. e.transfers[The(DOMAIN x.unwire)] = d.transfers[The(DOMAIN x.unwire)]
      BY <3>1 DEF SameFor
    <3> QED
      BY <2>2, <3>2 DEF UnwireGain
  <2> QED
    BY <2>1, <2>2
<1>3. \A a, months : Gain(e, x, a, months) = Gain(d, x, a, months)
  BY <1>1, <1>2 DEF Gain
<1> QED
  BY <1>3 DEF Effect

(* The rows a request has read are not changed by a transaction that       *)
(* changes nothing it has read.                                            *)
LEMMA OtherRows ==
  ASSUME NEW d, IsDatabase(d), NEW y, IsTx(d, y), NEW q, Changed(y) \cap q.on = {},
         NEW x, IsTx(d, x), Covered(q, x)
  PROVE  SameFor(d, Apply(d, y), x)
<1>1. PICK e : e = Apply(d, y)
  OBVIOUS
<1>2. ASSUME NEW i \in DOMAIN x.touch PROVE e.entries[i] = d.entries[i]
  <2>1. <<"entry", i>> \in q.on /\ i \in DOMAIN d.entries
    BY DEF Covered, IsTx
  <2>2. i \notin DOMAIN y.touch
    BY <2>1 DEF Changed
  <2> QED
    BY <1>1, <2>1, <2>2, EntriesAfter
<1>3. ASSUME NEW k \in DOMAIN x.unwire PROVE e.transfers[k] = d.transfers[k]
  <2>1. <<"wire", k>> \in q.on /\ k \in DOMAIN d.transfers
    BY DEF Covered, IsTx
  <2>2. k \notin DOMAIN y.unwire
    BY <2>1 DEF Changed
  <2> QED
    BY <1>1, <2>1, <2>2, TransfersAfter
<1> QED
  BY <1>1, <1>2, <1>3 DEF SameFor

LEMMA OtherMonths ==
  ASSUME NEW d, NEW y, NEW q, Changed(y) \cap q.on = {}, NEW a, NEW m, IsOpenFor(d, q, a, m)
  PROVE  IsOpenFor(Apply(d, y), q, a, m)
<1>1. <<a, m>> \notin y.shut
  BY DEF Changed, IsOpenFor
<1> QED
  BY <1>1 DEF IsOpenFor, Apply

LEMMA OtherLines ==
  ASSUME NEW d, IsDatabase(d), NEW y, IsTx(d, y), NEW q, Changed(y) \cap q.on = {},
         NEW x, IsTx(d, x), Covered(q, x), KeepsLines(d, q, x)
  PROVE  KeepsLines(Apply(d, y), q, x)
<1>1. PICK e : e = Apply(d, y)
  OBVIOUS
<1>2. /\ \A l \in Line \ DOMAIN y.line : e.lines[l] = d.lines[l]
      /\ \A l \in DOMAIN y.line : /\ e.lines[l].status = y.line[l]["status"]
                                  /\ e.lines[l].entry = IF "entry" \in DOMAIN y.line[l] THEN y.line[l]["entry"]
                                                        ELSE d.lines[l].entry
  BY <1>1, LinesAfter
<1> SUFFICES ASSUME NEW l \in DOMAIN x.line, x.line[l]["status"] = "MATCHED", NEW k \in Line \ {l},
                    e.lines[k].status = "MATCHED", e.lines[k].entry = x.line[l]["entry"]
             PROVE  FALSE
  BY <1>1 DEF KeepsLines
<1>3. x.line[l]["entry"] \in DOMAIN x.touch
  BY DEF IsTx, IsLinePatch
<1>4. CASE k \in DOMAIN y.line
  <2>1. y.line[k]["status"] = "MATCHED" /\ y.line[k]["entry"] \in DOMAIN y.touch /\ "entry" \in DOMAIN y.line[k]
    BY <1>2, <1>4 DEF IsTx, IsLinePatch
  <2>2. x.line[l]["entry"] \in DOMAIN y.touch
    BY <1>2, <1>4, <2>1
  <2> QED
    BY <1>3, <2>2 DEF Covered, Changed
<1>5. CASE k \notin DOMAIN y.line
  BY <1>2, <1>5 DEF KeepsLines
<1> QED
  BY <1>4, <1>5

LEMMA OtherSound ==
  ASSUME NEW d, IsDatabase(d), NEW y, IsTx(d, y), NEW q, IsScript(d, q.todo), Changed(y) \cap q.on = {}, Sound(d, q)
  PROVE  /\ Sound(Apply(d, y), q)
         /\ \A n \in DOMAIN q.todo : \A a : Effect(Apply(d, y), q.todo[n], a) = Effect(d, q.todo[n], a)
<1>1. PICK e : e = Apply(d, y)
  OBVIOUS
<1>2. ASSUME NEW n \in DOMAIN q.todo
      PROVE  SoundTx(e, q, q.todo[n]) /\ \A a : Effect(e, q.todo[n], a) = Effect(d, q.todo[n], a)
  <2>1. PICK x : x = q.todo[n]
    OBVIOUS
  <2>2. IsTx(d, x) /\ SoundTx(d, q, x)
    BY <2>1, ScriptTx DEF Sound
  <2>3. SameFor(d, e, x)
    BY <1>1, <2>2, OtherRows DEF SoundTx
  <2>4. /\ \A a, months : Gain(e, x, a, months) = Gain(d, x, a, months)
        /\ \A a : Effect(e, x, a) = Effect(d, x, a)
    BY <2>2, <2>3, SameGain
  <2>5. \A a, m : IsOpenFor(d, q, a, m) => IsOpenFor(e, q, a, m)
    BY <1>1, OtherMonths
  <2>6. KeepsLines(e, q, x)
    BY <1>1, <2>2, OtherLines DEF SoundTx
  <2>7. Covered(q, x) /\ KeepsRows(e, x)
    BY <2>2, <2>3 DEF SoundTx, KeepsRows, SameFor
  <2>8. KeepsMonths(e, q, x)
    BY <2>2, <2>4, <2>5 DEF SoundTx, KeepsMonths
  <2>9. KeepsBank(e, q, x)
    BY <2>2, <2>3, <2>5 DEF SoundTx, KeepsBank, InMonth, SameFor
  <2>10. KeepsBalance(e, q, x)
    BY <2>2, <2>4 DEF SoundTx, KeepsBalance
  <2> QED
    BY <2>1, <2>4, <2>6, <2>7, <2>8, <2>9, <2>10 DEF SoundTx
<1> QED
  BY <1>1, <1>2 DEF Sound

----------------------------------------------------------------------------
(* The request that commits *)

Rest(q) == [q EXCEPT !.todo = Tail(@)]

LEMMA RestFields ==
  ASSUME NEW d, NEW q, IsRequest(d, q)
  PROVE  /\ DOMAIN Rest(q) = DOMAIN q /\ Rest(q).op = q.op /\ Rest(q).then = q.then /\ Rest(q).on = q.on
         /\ Rest(q).stale = q.stale /\ Rest(q).todo = Tail(q.todo)
BY DEF IsRequest, Rest

(* What a commit leaves of the rows another transaction of the request     *)
(* touches: the same, or a row that makes it fail.                         *)
LEMMA OwnRows ==
  ASSUME NEW d, IsDatabase(d), NEW x, IsTx(d, x), NEW y, IsTx(d, y),
         \A i \in TouchBoth(x, y) : Erases(x.touch[i])
  PROVE  /\ SameFor(d, Apply(d, x), y) \/ Lost(Apply(d, x), y)
         /\ \A i \in DOMAIN y.touch : Apply(d, x).entries[i] = d.entries[i] \/ Apply(d, x).entries[i].status = "ERASED"
         /\ TouchBoth(x, y) # {} => Lost(Apply(d, x), y)
<1>1. PICK e : e = Apply(d, x)
  OBVIOUS
<1>2. /\ DOMAIN y.touch \subseteq DOMAIN d.entries
      /\ \A i \in DOMAIN d.entries : e.entries[i] = IF i \in DOMAIN x.touch THEN Patched(d.entries[i], x.touch[i])
                                                    ELSE d.entries[i]
      /\ \A i \in DOMAIN d.entries : GoodEntry(d.entries[i])
  <2>1. DOMAIN y.touch \subseteq DOMAIN d.entries /\ \A i \in DOMAIN d.entries : GoodEntry(d.entries[i])
    BY DEF IsTx, IsDatabase
  <2>2. \A i \in DOMAIN d.entries : e.entries[i] = IF i \in DOMAIN x.touch THEN Patched(d.entries[i], x.touch[i])
                                                   ELSE d.entries[i]
    BY <1>1, EntriesAfter
  <2> QED
    BY <2>1, <2>2
<1>3. ASSUME NEW i \in TouchBoth(x, y) PROVE e.entries[i].status = "ERASED"
  <2>1. i \in DOMAIN x.touch /\ i \in DOMAIN d.entries /\ Erases(x.touch[i]) /\ IsPatch(d.entries[i].cut, x.touch[i])
    BY <1>2 DEF TouchBoth, IsTx
  <2>2. "status" \in Fields
    BY DEF Fields
  <2>3. Patched(d.entries[i], x.touch[i])["status"] = x.touch[i]["status"]
    BY <1>2, <2>1, <2>2, PatchedEntry DEF Erases
  <2> QED
    BY <1>2, <2>1, <2>3 DEF Erases
<1>4. \A i \in DOMAIN y.touch : i \notin TouchBoth(x, y) => e.entries[i] = d.entries[i]
  BY <1>2 DEF TouchBoth
<1>5. \A k \in DOMAIN y.unwire : e.transfers[k] = d.transfers[k] \/ ~e.transfers[k].live
  <2>1. DOMAIN y.unwire \subseteq DOMAIN d.transfers /\ \A k \in DOMAIN d.transfers : GoodWire(d.transfers[k])
    BY DEF IsTx, IsDatabase
  <2>2. \A k \in DOMAIN d.transfers : e.transfers[k] = IF k \in DOMAIN x.unwire THEN Undone(d.transfers[k])
                                                       ELSE d.transfers[k]
    BY <1>1, TransfersAfter
  <2>3. \A k \in DOMAIN d.transfers : Undone(d.transfers[k])["live"] = FALSE
    BY <2>1, UndoneWire
  <2> QED
    BY <2>1, <2>2, <2>3
<1>6. TouchBoth(x, y) # {} => Lost(e, y)
  BY <1>3 DEF Lost, TouchBoth
<1>7. SameFor(d, e, y) \/ Lost(e, y)
  BY <1>4, <1>5, <1>6 DEF SameFor, Lost
<1> QED
  BY <1>1, <1>3, <1>4, <1>6, <1>7

LEMMA OwnSound ==
  ASSUME NEW d, IsDatabase(d), NEW q, IsRequest(d, q), q.todo # <<>>, Sound(d, q)
  PROVE  Sound(Apply(d, Head(q.todo)), Rest(q))
<1>1. PICK x : x = Head(q.todo)
  OBVIOUS
<1>2. PICK e : e = Apply(d, x)
  OBVIOUS
<1>3. PICK s : s = Tail(q.todo)
  OBVIOUS
<1>4. /\ Len(q.todo) \in Nat /\ DOMAIN q.todo = 1..Len(q.todo) /\ \A n \in DOMAIN q.todo : IsTx(d, q.todo[n])
      /\ x = q.todo[1] /\ 1 \in DOMAIN q.todo /\ IsTx(d, x) /\ Len(s) = Len(q.todo) - 1 /\ IsScript(d, s)
      /\ \A n \in DOMAIN s : n + 1 \in DOMAIN q.todo /\ n \in 1..Len(q.todo) /\ s[n] = q.todo[n + 1]
  <2>1. IsScript(d, q.todo)
    BY DEF IsRequest
  <2> QED
    BY <1>1, <1>3, <2>1, ScriptTx
<1>5. Rest(q).op = q.op /\ Rest(q).on = q.on /\ Rest(q).todo = s
  BY <1>3, RestFields
<1>6. ErasedFirst(s)
  <2> SUFFICES ASSUME NEW n \in DOMAIN s, NEW m \in DOMAIN s, n < m, NEW i \in TouchBoth(s[n], s[m])
               PROVE  Erases(s[n].touch[i])
    BY DEF ErasedFirst
  <2>1. n + 1 \in DOMAIN q.todo /\ m + 1 \in DOMAIN q.todo /\ n + 1 < m + 1 /\ s[n] = q.todo[n + 1] /\ s[m] = q.todo[m + 1]
    BY <1>4
  <2> QED
    BY <2>1 DEF Sound, ErasedFirst
<1>7. ASSUME NEW n \in DOMAIN s, q.op = "unmatchLine"
      PROVE  SoundTx(e, Rest(q), s[n])
  <2>1. PICK y : y = s[n]
    OBVIOUS
  <2>2. IsTx(d, y) /\ SoundTx(d, q, y) /\ SoundTx(d, q, x)
    BY <1>4, <2>1 DEF Sound
  <2>3. \A i \in TouchBoth(x, y) : Erases(x.touch[i])
    <3>1. 1 < n + 1 /\ n + 1 \in DOMAIN q.todo
      BY <1>4
    <3> QED
      BY <1>4, <2>1, <3>1 DEF Sound, ErasedFirst
  <2>4. /\ \A i \in DOMAIN y.touch : e.entries[i] = d.entries[i] \/ e.entries[i].status = "ERASED"
    BY <1>2, <1>4, <2>2, <2>3, OwnRows
  <2>5. Covered(Rest(q), y)
    BY <1>5, <2>2 DEF SoundTx, Covered
  <2>6. KeepsRows(e, y)
    BY <2>2, <2>4 DEF SoundTx, KeepsRows
  <2>7. KeepsLines(e, Rest(q), y)
    BY <1>5, <1>7, <2>2 DEF SoundTx, KeepsLines
  <2>8. KeepsMonths(e, Rest(q), y) /\ KeepsBalance(e, Rest(q), y)
    BY <1>5, <1>7 DEF KeepsMonths, KeepsBalance, Unchecked
  <2>9. KeepsBank(e, Rest(q), y)
    <3>1. PICK m \in Month : IsOpenFor(d, q, Bank, m) /\ InMonth(d, y, m)
      BY <1>7, <2>2 DEF SoundTx, KeepsBank
    <3>2. x.shut = {}
      BY <1>7, <2>2 DEF SoundTx, KeepsBank, InMonth
    <3>3. IsOpenFor(e, Rest(q), Bank, m)
      BY <1>2, <1>5, <3>1, <3>2 DEF IsOpenFor, Apply
    <3>4. \A k \in DOMAIN y.unwire : e.transfers[k].month = m
      <4>1. DOMAIN y.unwire \subseteq DOMAIN d.transfers /\ \A k \in DOMAIN d.transfers : GoodWire(d.transfers[k])
        BY <2>2 DEF IsTx, IsDatabase
      <4>2. \A k \in DOMAIN d.transfers : e.transfers[k] = IF k \in DOMAIN x.unwire THEN Undone(d.transfers[k])
                                                           ELSE d.transfers[k]
        BY <1>2, <1>4, TransfersAfter
      <4>3. \A k \in DOMAIN d.transfers : Undone(d.transfers[k]).month = d.transfers[k].month
        BY <4>1, UndoneWire
      <4> QED
        BY <3>1, <4>1, <4>2, <4>3 DEF InMonth
    <3>5. InMonth(e, y, m)
      BY <3>1, <3>4 DEF InMonth
    <3> QED
      BY <3>3, <3>5 DEF KeepsBank
  <2> QED
    BY <2>1, <2>5, <2>6, <2>7, <2>8, <2>9 DEF SoundTx
<1>8. CASE q.op = "unmatchLine"
  BY <1>1, <1>2, <1>5, <1>6, <1>7, <1>8 DEF Sound
<1>9. CASE q.op # "unmatchLine"
  <2>1. Len(s) <= 0 /\ Len(s) \in Nat /\ DOMAIN s = 1..Len(s)
    BY <1>4, <1>9, ScriptTx DEF Sound
  <2>2. DOMAIN s = {}
    BY <2>1
  <2> QED
    BY <1>1, <1>2, <1>5, <1>6, <2>1, <2>2 DEF Sound
<1> QED
  BY <1>8, <1>9

(* What an unmatch owes after one of its transactions.                     *)
LEMMA OwnOwed ==
  ASSUME NEW d, IsDatabase(d), NEW q, IsRequest(d, q), q.op = "unmatchLine", q.todo # <<>>, NEW a \in Account,
         NEW e, \A n \in DOMAIN q.todo : n > 1 => SameFor(d, e, q.todo[n])
  PROVE  /\ Owed(e, Rest(q), a) = Owed(d, q, a) - Effect(d, Head(q.todo), a)
         /\ Owed(d, q, a) \in Int /\ Effect(d, Head(q.todo), a) \in Int
<1>1. PICK s : s = Tail(q.todo)
  OBVIOUS
<1>2. PICK len : len = Len(q.todo)
  OBVIOUS
<1>3. /\ len \in Nat /\ len <= 8 /\ len > 0 /\ DOMAIN q.todo = 1..len /\ \A n \in 1..len : IsTx(d, q.todo[n])
      /\ Head(q.todo) = q.todo[1] /\ Len(s) = len - 1 /\ IsScript(d, s)
      /\ \A n \in DOMAIN s : n + 1 \in DOMAIN q.todo /\ s[n] = q.todo[n + 1]
  <2>1. IsScript(d, q.todo) /\ Len(q.todo) <= 8
    BY DEF IsRequest
  <2>2. /\ Len(q.todo) \in Nat /\ DOMAIN q.todo = 1..Len(q.todo) /\ \A n \in DOMAIN q.todo : IsTx(d, q.todo[n])
        /\ Head(q.todo) = q.todo[1] /\ 1 \in DOMAIN q.todo /\ IsScript(d, Tail(q.todo))
        /\ Len(Tail(q.todo)) = Len(q.todo) - 1
        /\ \A n \in DOMAIN Tail(q.todo) : n + 1 \in DOMAIN q.todo /\ Tail(q.todo)[n] = q.todo[n + 1]
    BY <2>1, ScriptTx
  <2> QED
    BY <1>1, <1>2, <2>1, <2>2
<1>4. DOMAIN s = 1..(len - 1)
  BY <1>3, ScriptTx
<1>5. Rest(q).op = q.op /\ Rest(q).todo = s
  BY <1>1, RestFields
<1>6. \A n \in 1..len : Effect(d, q.todo[n], a) \in Int
  BY <1>3, EffectInt
<1>7. \A n \in 1..8 : Later(d, q, n, a) \in Int
  BY <1>3, <1>6 DEF Later
<1>8. ASSUME NEW n \in 1..7 PROVE Later(e, Rest(q), n, a) = Later(d, q, n + 1, a)
  <2>1. CASE n <= len - 1
    <3>1. n \in DOMAIN s /\ n + 1 \in DOMAIN q.todo /\ s[n] = q.todo[n + 1] /\ n + 1 > 1 /\ n + 1 \in 1..len
      BY <1>3, <1>4, <2>1
    <3>2. SameFor(d, e, q.todo[n + 1]) /\ IsTx(d, q.todo[n + 1])
      BY <1>3, <3>1
    <3>3. Effect(e, q.todo[n + 1], a) = Effect(d, q.todo[n + 1], a)
      BY <3>2, SameGain
    <3> QED
      BY <1>5, <3>1, <3>3 DEF Later
  <2>2. CASE ~(n <= len - 1)
    BY <1>3, <1>4, <1>5, <2>2 DEF Later
  <2> QED
    BY <2>1, <2>2
<1>9. Later(e, Rest(q), 8, a) = 0
  BY <1>3, <1>4, <1>5 DEF Later
<1>10. Later(d, q, 1, a) = Effect(d, Head(q.todo), a)
  BY <1>3 DEF Later
<1>11. /\ Later(e, Rest(q), 1, a) = Later(d, q, 2, a) /\ Later(e, Rest(q), 2, a) = Later(d, q, 3, a)
       /\ Later(e, Rest(q), 3, a) = Later(d, q, 4, a) /\ Later(e, Rest(q), 4, a) = Later(d, q, 5, a)
       /\ Later(e, Rest(q), 5, a) = Later(d, q, 6, a) /\ Later(e, Rest(q), 6, a) = Later(d, q, 7, a)
       /\ Later(e, Rest(q), 7, a) = Later(d, q, 8, a)
  BY <1>8
<1>12. /\ Later(d, q, 1, a) \in Int /\ Later(d, q, 2, a) \in Int /\ Later(d, q, 3, a) \in Int /\ Later(d, q, 4, a) \in Int
       /\ Later(d, q, 5, a) \in Int /\ Later(d, q, 6, a) \in Int /\ Later(d, q, 7, a) \in Int /\ Later(d, q, 8, a) \in Int
  BY <1>7
<1>13. Owed(d, q, a) = Later(d, q, 1, a) + Later(d, q, 2, a) + Later(d, q, 3, a) + Later(d, q, 4, a)
                      + Later(d, q, 5, a) + Later(d, q, 6, a) + Later(d, q, 7, a) + Later(d, q, 8, a)
  BY DEF Owed
<1>14. Owed(e, Rest(q), a) = Later(d, q, 2, a) + Later(d, q, 3, a) + Later(d, q, 4, a) + Later(d, q, 5, a)
                            + Later(d, q, 6, a) + Later(d, q, 7, a) + Later(d, q, 8, a) + 0
  BY <1>5, <1>9, <1>11 DEF Owed
<1>15. Effect(d, Head(q.todo), a) \in Int /\ Owed(d, q, a) \in Int
  BY <1>10, <1>12, <1>13
<1>16. \A o1, o2, o3, o4, o5, o6, o7, o8 \in Int :
         o2 + o3 + o4 + o5 + o6 + o7 + o8 + 0 = o1 + o2 + o3 + o4 + o5 + o6 + o7 + o8 - o1
  OBVIOUS
<1>17. Owed(e, Rest(q), a) = Owed(d, q, a) - Later(d, q, 1, a)
  BY ONLY <1>12, <1>13, <1>14, <1>16
<1> QED
  BY <1>10, <1>15, <1>17

LEMMA OwedInt ==
  ASSUME NEW d, IsDatabase(d), NEW q, IsRequest(d, q), NEW a \in Account
  PROVE  Owed(d, q, a) \in Int
<1>1. IsScript(d, q.todo)
  BY DEF IsRequest
<1>2. \A n \in DOMAIN q.todo : Effect(d, q.todo[n], a) \in Int
  BY <1>1, ScriptTx, EffectInt
<1>3. \A n : Later(d, q, n, a) \in Int
  BY <1>2 DEF Later
<1> QED
  BY <1>3 DEF Owed

----------------------------------------------------------------------------
(* The columns of a patched row *)

LEMMA PatchedColumns ==
  ASSUME NEW e, GoodEntry(e), NEW p, IsPatch(e.cut, p), NEW n, n = Patched(e, p)
  PROVE  /\ GoodEntry(n) /\ n.type = e.type /\ n.line = e.line
         /\ n.status = (IF "status" \in DOMAIN p THEN p["status"] ELSE e.status)
         /\ n.net = (IF "net" \in DOMAIN p THEN p["net"] ELSE e.net)
         /\ n.account = (IF "account" \in DOMAIN p THEN p["account"] ELSE e.account)
         /\ n.month = (IF "month" \in DOMAIN p THEN p["month"] ELSE e.month)
         /\ n.auto = (IF "auto" \in DOMAIN p THEN p["auto"] ELSE e.auto)
         /\ n.live = (IF "live" \in DOMAIN p THEN p["live"] ELSE e.live)
<1>1. GoodEntry(n) /\ \A f \in Fields : n[f] = IF f \in DOMAIN p THEN p[f] ELSE e[f]
  BY PatchedEntry
<1>2. {"type", "line", "status", "net", "account", "month", "auto", "live"} \subseteq Fields
  BY DEF Fields
<1>3. "type" \notin DOMAIN p /\ "line" \notin DOMAIN p
  BY DEF IsPatch, Patchable
<1> QED
  BY <1>1, <1>2, <1>3

(* A payment, by hand or by a match.                                       *)
LEMMA PaidPatch ==
  ASSUME NEW e, GoodEntry(e), e.live, NEW m \in Month, NEW a \in Account \cup {NoAccount}, NEW p,
         p = [status |-> "PAID", month |-> m, account |-> a, by |-> "user"] \/
         p = [status |-> "PAID", month |-> m, auto |-> TRUE, account |-> a, by |-> "match"],
         NEW n, n = Patched(e, p)
  PROVE  /\ IsPatch(e.cut, p) /\ "gross" \notin DOMAIN p /\ ~Erases(p)
         /\ Regular(n)
         /\ n.type = e.type /\ n.net = e.net /\ n.status = "PAID" /\ n.account = a /\ n.month = m /\ n.live
<1>1. IsPatch(e.cut, p)
  <2>1. CASE p = [status |-> "PAID", month |-> m, account |-> a, by |-> "user"]
    BY <2>1 DEF IsPatch, Patchable, Statuses
  <2>2. CASE p = [status |-> "PAID", month |-> m, auto |-> TRUE, account |-> a, by |-> "match"]
    BY <2>2 DEF IsPatch, Patchable, Statuses
  <2> QED
    BY <2>1, <2>2
<1>2. n.type = e.type /\ n.net = e.net /\ n.status = "PAID" /\ n.account = a /\ n.month = m /\ n.live
  BY <1>1, PatchedColumns
<1> QED
  BY <1>1, <1>2 DEF Regular, Erases

(* Taken back: by a reversal, or by an unmatch.                            *)
LEMMA UnpaidPatch ==
  ASSUME NEW e, GoodEntry(e), NEW a \in Account \cup {NoAccount}, NEW p,
         (p = [status |-> "PENDING", month |-> 0, account |-> a] /\ a = NoAccount) \/
         p = [status |-> "PENDING", month |-> 0, auto |-> FALSE, account |-> a],
         NEW n, n = Patched(e, p)
  PROVE  /\ IsPatch(e.cut, p) /\ "gross" \notin DOMAIN p /\ ~Erases(p)
         /\ Regular(n) /\ n.status = "PENDING"
<1>1. IsPatch(e.cut, p)
  <2>1. CASE p = [status |-> "PENDING", month |-> 0, account |-> a]
    BY <2>1 DEF IsPatch, Patchable, Statuses
  <2>2. CASE p = [status |-> "PENDING", month |-> 0, auto |-> FALSE, account |-> a]
    BY <2>2 DEF IsPatch, Patchable, Statuses
  <2> QED
    BY <2>1, <2>2
<1>2. n.status = "PENDING" /\ n.account = a /\ (a = NoAccount \/ ~n.auto)
  BY <1>1, PatchedColumns
<1> QED
  BY <1>1, <1>2 DEF Regular, Erases

(* Cancelled while it is open.                                             *)
LEMMA CancelledPatch ==
  ASSUME NEW e, GoodEntry(e), Regular(e), e.status = "PENDING", NEW p, p = [status |-> "CANCELLED"],
         NEW n, n = Patched(e, p)
  PROVE  IsPatch(e.cut, p) /\ Regular(n) /\ n.status = "CANCELLED"
<1>1. IsPatch(e.cut, p)
  BY DEF IsPatch, Patchable, Statuses
<1>2. n.status = "CANCELLED" /\ n.account = e.account /\ n.auto = e.auto
  BY <1>1, PatchedColumns
<1> QED
  BY <1>1, <1>2 DEF Regular

(* The amounts changed, whatever the status.                               *)
LEMMA AmountPatch ==
  ASSUME NEW e, GoodEntry(e), NEW gross \in Int, NEW net, net = gross \/ net = gross - e.cut,
         NEW p, p = [gross |-> gross, net |-> net], NEW n, n = Patched(e, p)
  PROVE  /\ IsPatch(e.cut, p) /\ (Regular(e) => Regular(n))
         /\ n.status = e.status
<1>1. IsPatch(e.cut, p)
  BY DEF IsPatch, Patchable, Statuses
<1>2. n.status = e.status /\ n.account = e.account /\ n.auto = e.auto /\ n.live = e.live
  BY <1>1, PatchedColumns
<1> QED
  BY <1>1, <1>2 DEF Regular

(* Removed, softly or for good.                                            *)
LEMMA RemovedPatch ==
  ASSUME NEW e, GoodEntry(e), NEW p, NEW n, n = Patched(e, p),
         p = [live |-> FALSE] \/ p = [live |-> FALSE, status |-> "ERASED"]
  PROVE  /\ IsPatch(e.cut, p) /\ "gross" \notin DOMAIN p /\ ~n.live
         /\ Erases(p) => Regular(n)
         /\ Regular(e) /\ e.status # "PAID" => Regular(n)
<1>1. IsPatch(e.cut, p)
  BY DEF IsPatch, Patchable, Statuses
<1>2. /\ ~n.live /\ n.account = e.account /\ n.auto = e.auto /\ (n.status = e.status \/ n.status = "ERASED")
      /\ Erases(p) => n.status = "ERASED"
  BY <1>1, PatchedColumns DEF Erases
<1>3. "gross" \notin DOMAIN p
  OBVIOUS
<1> QED
  BY <1>1, <1>2, <1>3 DEF Regular

(* A new date of a paid entry; a new account of one paid by hand.          *)
LEMMA MovedPatch ==
  ASSUME NEW e, GoodEntry(e), NEW p, NEW n, n = Patched(e, p),
         (\E m \in Month : p = [month |-> m]) \/ (\E a \in Account \cup {NoAccount} : p = [account |-> a] /\ ~e.auto)
  PROVE  /\ IsPatch(e.cut, p) /\ "gross" \notin DOMAIN p
         /\ Regular(e) => Regular(n)
<1>1. IsPatch(e.cut, p)
  BY DEF IsPatch, Patchable, Statuses
<1>2. /\ n.status = e.status /\ n.auto = e.auto /\ n.live = e.live
      /\ n.account = e.account \/ ~e.auto
  BY <1>1, PatchedColumns
<1>3. "gross" \notin DOMAIN p
  OBVIOUS
<1> QED
  BY <1>1, <1>2, <1>3 DEF Regular

----------------------------------------------------------------------------
(* New rows *)

LEMMA NowIsMonth == Now \in Month
BY MonthAssumption DEF Now

LEMMA CommissionInt ==
  ASSUME NEW gross \in Int, NEW bps \in Nat
  PROVE  Commission(gross, bps) \in Int /\ (bps = 0 => Commission(gross, bps) = 0)
<1>1. PICK p \in Int : p = gross * bps
  OBVIOUS
<1>2. bps = 0 => p = 0
  BY <1>1
<1> QED
  BY <1>1, <1>2 DEF Commission

IsRow(e, type, status, gross, bps, cut, account, month, line) ==
  /\ e = [type |-> type, status |-> status, gross |-> gross, bps |-> bps, cut |-> cut, net |-> gross - cut,
          account |-> account, month |-> month, auto |-> e["auto"], live |-> TRUE, line |-> line, by |-> "user"]
  /\ e["auto"] \in BOOLEAN

HasColumns(e, type, status, gross, cut, account, month, line) ==
  /\ GoodEntry(e) /\ Regular(e)
  /\ e.type = type /\ e.status = status /\ e.account = account /\ e.month = month /\ e.live /\ e.line = line
  /\ e.net = gross - cut /\ e.net \in Int

LEMMA EntryColumns ==
  ASSUME NEW type \in {"RECEIVABLE", "PAYABLE"}, NEW status \in {"PENDING", "PAID"}, NEW gross \in Int, NEW bps \in Nat,
         NEW account \in Account \cup {NoAccount}, NEW month \in Month \cup {0}, status = "PAID" => month \in Month,
         NEW line \in Line \cup {NoLine}, line # NoLine => type = "PAYABLE",
         NEW cut, cut = Commission(gross, bps), NEW e,
         IsRow(e, type, status, gross, bps, cut, account, month, line), e["auto"] => status = "PAID"
  PROVE  HasColumns(e, type, status, gross, cut, account, month, line)
<1>1. cut \in Int
  BY CommissionInt
<1>2. /\ e["type"] = type /\ e["status"] = status /\ e["gross"] = gross /\ e["bps"] = bps /\ e["cut"] = cut
      /\ e["net"] = gross - cut /\ e["account"] = account /\ e["month"] = month /\ e["line"] = line
      /\ e["by"] = "user"
  BY DEF IsRow
<1>3. e["auto"] \in BOOLEAN /\ e["live"] = TRUE
  BY DEF IsRow
<1>4. e = [type |-> e["type"], status |-> e["status"], gross |-> e["gross"], bps |-> e["bps"], cut |-> e["cut"],
           net |-> e["net"], account |-> e["account"], month |-> e["month"], auto |-> e["auto"],
           live |-> e["live"], line |-> e["line"], by |-> e["by"]]
  BY <1>2, <1>3 DEF IsRow
<1>5. /\ e["type"] \in {"RECEIVABLE", "PAYABLE"} /\ e["status"] \in {"PENDING", "PAID", "CANCELLED", "ERASED"}
      /\ e["gross"] \in Int /\ e["bps"] \in Nat /\ e["cut"] \in Int /\ e["net"] \in Int
      /\ e["account"] \in Account \cup {NoAccount} /\ e["month"] \in Month \cup {0}
      /\ e["line"] \in Line \cup {NoLine} /\ e["by"] \in {"user", "match"}
  BY <1>1, <1>2
<1>6. e["auto"] \in BOOLEAN /\ e["live"] \in BOOLEAN
  BY <1>3
<1>7. e \in EntryRow
  BY ONLY <1>4, <1>5, <1>6 DEF EntryRow
<1>8. GoodEntry(e)
  BY <1>2, <1>7 DEF GoodEntry
<1>9. Regular(e)
  BY <1>2, <1>3 DEF Regular
<1> QED
  BY <1>1, <1>2, <1>3, <1>8, <1>9 DEF HasColumns

LEMMA DueRow ==
  ASSUME NEW type \in {"RECEIVABLE", "PAYABLE"}, NEW gross \in Int, NEW bps \in Nat,
         NEW account \in Account \cup {NoAccount}, NEW e, e = Due(type, gross, bps, account)
  PROVE  GoodEntry(e) /\ Regular(e) /\ e.status = "PENDING"
<1>1. PICK c : c = Commission(gross, bps)
  OBVIOUS
<1>2. e = [type |-> type, status |-> "PENDING", gross |-> gross, bps |-> bps, cut |-> c, net |-> gross - c,
           account |-> account, month |-> 0, auto |-> FALSE, live |-> TRUE, line |-> NoLine, by |-> "user"]
  BY <1>1 DEF Due, Entry
<1>9. IsRow(e, type, "PENDING", gross, bps, c, account, 0, NoLine) /\ ~e["auto"]
  BY <1>2 DEF IsRow
<1>7. /\ "PENDING" \in {"PENDING", "PAID"} /\ 0 \in Month \cup {0} /\ NoLine \in Line \cup {NoLine}
      /\ type \in {"RECEIVABLE", "PAYABLE"} /\ gross \in Int /\ bps \in Nat /\ account \in Account \cup {NoAccount}
      /\ "PENDING" = "PAID" => 0 \in Month
      /\ e["auto"] => "PENDING" = "PAID"
  BY <1>9
<1>8. HasColumns(e, type, "PENDING", gross, c, account, 0, NoLine)
  BY ONLY <1>1, <1>7, <1>9, EntryColumns, Zenon
<1> QED
  BY <1>8 DEF HasColumns

LEMMA PostingRow ==
  ASSUME NEW type \in {"RECEIVABLE", "PAYABLE"}, NEW amount \in Int, NEW account \in Account \cup {NoAccount},
         NEW month \in Month, NEW e, e = Posting(type, amount, account, month)
  PROVE  /\ GoodEntry(e) /\ Regular(e)
         /\ e.type = type /\ e.status = "PAID" /\ e.account = account /\ e.month = month /\ e.live /\ e.net = amount
<1>1. PICK c : c = Commission(amount, 0)
  OBVIOUS
<1>2. e = [type |-> type, status |-> "PAID", gross |-> amount, bps |-> 0, cut |-> c, net |-> amount - c,
           account |-> account, month |-> month, auto |-> FALSE, live |-> TRUE, line |-> NoLine, by |-> "user"]
  BY <1>1 DEF Posting, Entry
<1>3. c = 0
  BY <1>1, CommissionInt
<1>9. IsRow(e, type, "PAID", amount, 0, c, account, month, NoLine) 
  BY <1>2 DEF IsRow
<1>7. /\ "PAID" \in {"PENDING", "PAID"} /\ month \in Month \cup {0} /\ NoLine \in Line \cup {NoLine} /\ 0 \in Nat
      /\ type \in {"RECEIVABLE", "PAYABLE"} /\ amount \in Int /\ account \in Account \cup {NoAccount}
      /\ "PAID" = "PAID" => month \in Month
      /\ e["auto"] => "PAID" = "PAID"
  OBVIOUS
<1>8. HasColumns(e, type, "PAID", amount, c, account, month, NoLine)
  BY ONLY <1>1, <1>7, <1>9, EntryColumns, Zenon
<1> QED
  BY <1>3, <1>8 DEF HasColumns

BornPaid(type, gross, bps, account) ==
  [Due(type, gross, bps, account) EXCEPT !.status = "PAID", !.month = Now, !.auto = TRUE]

LEMMA PaidAtBirth ==
  ASSUME NEW type \in {"RECEIVABLE", "PAYABLE"}, NEW gross \in Int, NEW bps \in Nat,
         NEW account \in Account \cup {NoAccount}, NEW e, e = BornPaid(type, gross, bps, account)
  PROVE  /\ GoodEntry(e) /\ Regular(e)
         /\ e.type = type /\ e.status = "PAID" /\ e.account = account /\ e.month = Now /\ e.live /\ e.net \in Int
<1>1. PICK c : c = Commission(gross, bps)
  OBVIOUS
<1>2. e = [type |-> type, status |-> "PAID", gross |-> gross, bps |-> bps, cut |-> c, net |-> gross - c,
           account |-> account, month |-> Now, auto |-> TRUE, live |-> TRUE, line |-> NoLine, by |-> "user"]
  BY <1>1 DEF Due, Entry, BornPaid
<1>9. IsRow(e, type, "PAID", gross, bps, c, account, Now, NoLine) 
  BY <1>2 DEF IsRow
<1>7. /\ "PAID" \in {"PENDING", "PAID"} /\ Now \in Month \cup {0} /\ NoLine \in Line \cup {NoLine}
      /\ type \in {"RECEIVABLE", "PAYABLE"} /\ gross \in Int /\ bps \in Nat /\ account \in Account \cup {NoAccount}
      /\ "PAID" = "PAID" => Now \in Month
      /\ e["auto"] => "PAID" = "PAID"
  BY NowIsMonth
<1>8. HasColumns(e, type, "PAID", gross, c, account, Now, NoLine)
  BY ONLY <1>1, <1>7, <1>9, EntryColumns, Zenon
<1> QED
  BY <1>8 DEF HasColumns

TaxEntry(l, account, tax) == [Posting("PAYABLE", tax, account, LineMonth[l]) EXCEPT !.auto = TRUE, !.line = l]

LEMMA TaxRow ==
  ASSUME NEW l \in Line, NEW account \in Account, NEW tax \in Int, NEW e,
         e = TaxEntry(l, account, tax)
  PROVE  /\ GoodEntry(e) /\ Regular(e)
         /\ e.type = "PAYABLE" /\ e.status = "PAID" /\ e.account = account /\ e.month = LineMonth[l] /\ e.live
         /\ e.line = l /\ e.net = tax
<1>1. PICK c : c = Commission(tax, 0)
  OBVIOUS
<1>2. e = [type |-> "PAYABLE", status |-> "PAID", gross |-> tax, bps |-> 0, cut |-> c, net |-> tax - c,
           account |-> account, month |-> LineMonth[l], auto |-> TRUE, live |-> TRUE, line |-> l, by |-> "user"]
  BY <1>1 DEF TaxEntry, Posting, Entry
<1>3. LineMonth[l] \in Month
  BY LineAssumption
<1>4. c = 0
  BY <1>1, CommissionInt
<1>9. IsRow(e, "PAYABLE", "PAID", tax, 0, c, account, LineMonth[l], l) 
  BY <1>2 DEF IsRow
<1>7. /\ "PAID" \in {"PENDING", "PAID"} /\ LineMonth[l] \in Month \cup {0} /\ l \in Line \cup {NoLine} /\ 0 \in Nat
      /\ "PAYABLE" \in {"RECEIVABLE", "PAYABLE"} /\ tax \in Int /\ account \in Account \cup {NoAccount}
      /\ "PAID" = "PAID" => LineMonth[l] \in Month
      /\ e["auto"] => "PAID" = "PAID"
      /\ l # NoLine => "PAYABLE" = "PAYABLE"
  BY <1>3
<1>8. HasColumns(e, "PAYABLE", "PAID", tax, c, account, LineMonth[l], l)
  BY ONLY <1>1, <1>7, <1>9, EntryColumns, Zenon
<1> QED
  BY <1>4, <1>8 DEF HasColumns

LEMMA WireColumns ==
  ASSUME NEW from \in Account, NEW to \in Account, from # to, NEW amount \in Nat \ {0}, NEW month \in Month,
         NEW line \in Line \cup {NoLine}, line # NoLine => month = LineMonth[line],
         NEW w, w = Wire(from, to, amount, month, line)
  PROVE  GoodWire(w) /\ w.live /\ w.from = from /\ w.to = to /\ w.amount = amount /\ w.month = month
BY DEF Wire, GoodWire, WireRow

----------------------------------------------------------------------------
(* Amounts *)

LEMMA MoveAt ==
  ASSUME NEW a, NEW b \in Account, NEW cents
  PROVE  /\ At(Move(a, cents), b) = IF a = b THEN cents ELSE 0
         /\ At(Nothing, b) = 0
BY AccountAssumption DEF At, Move, Nothing

LEMMA MoveTyped ==
  ASSUME NEW a \in Account \cup {NoAccount}, NEW cents \in Int, NEW m, m = Move(a, cents) \/ m = Nothing
  PROVE  DOMAIN m \subseteq Account /\ \A b \in DOMAIN m : m[b] \in Int
BY DEF Move, Nothing

LEMMA SignedInt ==
  ASSUME NEW e, GoodEntry(e)
  PROVE  Signed(e) \in Int /\ -Signed(e) \in Int
BY EntryFields DEF GoodEntry, Signed, Sign

LEMMA WorthZero ==
  ASSUME NEW e, e.status # "PAID" \/ ~e.live \/ e.account = NoAccount, NEW a \in Account, NEW months
  PROVE  Worth(e, a, months) = 0
BY AccountAssumption DEF Worth, Counts, IsPaid

LEMMA WorthOfPaid ==
  ASSUME NEW e, e.status = "PAID", e.live, NEW a, NEW months
  PROVE  Worth(e, a, months) = IF e.account = a /\ e.month \in months THEN Signed(e) ELSE 0
BY DEF Worth, Counts, IsPaid

(* The gain of a transaction, from its parts.                              *)
LEMMA NoGain ==
  ASSUME NEW d, NEW x, NEW a, NEW months
  PROVE  /\ x.touch = Nothing => PatchGain(d, x, a, months) = 0
         /\ x.make = <<>> => MadeGain(x, a, months) = 0
         /\ x.wire = <<>> => WireGain(x, a, months) = 0
         /\ x.unwire = Nothing => UnwireGain(d, x, a, months) = 0
BY DEF Nothing, PatchGain, MadeGain, WireGain, UnwireGain

LEMMA PatchGainIs ==
  ASSUME NEW d, NEW x, NEW i, NEW p, x.touch = Touch(i, p), NEW n, n = Patched(d.entries[i], p), NEW a, NEW months
  PROVE  PatchGain(d, x, a, months) = Worth(n, a, months) - Worth(d.entries[i], a, months)
<1>1. DOMAIN x.touch = {i} /\ x.touch[i] = p
  BY DEF Touch
<1>2. The({i}) = i
  BY DEF The
<1> QED
  BY <1>1, <1>2 DEF PatchGain

LEMMA MadeGainIs ==
  ASSUME NEW x, NEW e, x.make = <<e>>, NEW a, NEW months
  PROVE  MadeGain(x, a, months) = Worth(e, a, months)
BY DEF MadeGain

LEMMA WireGainIs ==
  ASSUME NEW x, NEW w, x.wire = <<w>>, NEW a, NEW months
  PROVE  WireGain(x, a, months) = Carried(w, a, months)
BY DEF WireGain

TakesBack(d, x, w, a, months) == UnwireGain(d, x, a, months) = -Carried(w, a, months)

LEMMA UnwireGainIs ==
  ASSUME NEW d, NEW x, NEW k, DOMAIN x.unwire = {k}, NEW w, w = d.transfers[k], NEW a, NEW months
  PROVE  TakesBack(d, x, w, a, months)
<1>1. The({k}) = k
  BY DEF The
<1> QED
  BY <1>1 DEF UnwireGain, TakesBack

----------------------------------------------------------------------------
(* A request begins *)

TypeInv ==
  /\ IsDatabase(db)
  /\ transit \in {Transit, NoAccount}
  /\ DOMAIN req = Request
  /\ \A r \in Request : IsRequest(db, req[r])

(* A new request is sound, if it begins no slip; and an unmatch that can   *)
(* succeed gives back what it takes.                                       *)
Fresh(d, q) ==
  /\ Sound(d, q)
  /\ q.op = "unmatchLine" => Doomed(d, q) \/ \A a \in Account : Owed(d, q, a) = 0

Admits(r) ==
  /\ db' = db /\ transit' = transit
  /\ DOMAIN req' = Request /\ \A q \in Request \ {r} : req'[q] = req[q]
  /\ req[r].op # "unmatchLine"
  /\ IsRequest(db, req'[r])
  /\ Clean /\ Slip(r) = {} => Fresh(db, req'[r])

LEMMA NoSlip ==
  ASSUME NEW r, Slip(r) = {}
  PROVE  /\ ~(req[r].stale /\ Commit(r)) /\ ~Deleted(r) /\ ~Edited(r) /\ ~Uncredited(r) /\ ~LegacyMatch(r)
         /\ ~GrossMatch(r) /\ ~WrongUndo(r) /\ ~(req[r].op = "unmatchLine" /\ Stop(r))
BY DEF Slip

LEMMA BeginIs ==
  ASSUME TypeInv, NEW r \in Request, NEW op, NEW on, NEW todo, NEW then, Begin(r, op, on, todo, then)
  PROVE  /\ req'[r] = [op |-> op, todo |-> todo, then |-> then, on |-> on, stale |-> FALSE]
         /\ req[r].op = "idle" /\ ~Busy(r) /\ Begins(r, op)
         /\ db' = db /\ transit' = transit
         /\ DOMAIN req' = Request /\ \A q \in Request \ {r} : req'[q] = req[q]
<1>1. req' = [req EXCEPT ![r] = [op |-> op, todo |-> todo, then |-> then, on |-> on, stale |-> FALSE]]
  BY DEF Begin
<1>2. ~Busy(r) /\ db' = db /\ transit' = transit
  BY DEF Begin
<1>3. req'[r] = [op |-> op, todo |-> todo, then |-> then, on |-> on, stale |-> FALSE]
  BY <1>1 DEF TypeInv
<1>4. req'[r].op = op
  BY <1>3
<1>5. Begins(r, op)
  BY <1>2, <1>4 DEF Begins
<1>6. req[r].op = "idle"
  BY <1>2 DEF Busy, Idle
<1> QED
  BY <1>1, <1>2, <1>3, <1>5, <1>6 DEF TypeInv

LEMMA OnceIs ==
  ASSUME TypeInv, NEW r \in Request, NEW op, NEW on, NEW x, Once(r, op, on, x)
  PROVE  /\ req'[r].op = op /\ req'[r].on = on /\ req'[r].todo = <<x>> /\ First(r) = x
         /\ req'[r] = [op |-> op, todo |-> <<x>>, then |-> NoPay, on |-> on, stale |-> FALSE]
         /\ Begins(r, op) /\ ~Busy(r)
<1>1. req'[r] = [op |-> op, todo |-> <<x>>, then |-> NoPay, on |-> on, stale |-> FALSE] /\ Begins(r, op) /\ ~Busy(r)
  BY BeginIs DEF Once
<1> QED
  BY <1>1 DEF First

LEMMA OneIsSound ==
  ASSUME NEW d, NEW q, NEW x, q.todo = <<x>>, q.op # "unmatchLine", SoundTx(d, q, x)
  PROVE  Fresh(d, q)
<1>1. DOMAIN q.todo = {1} /\ q.todo[1] = x /\ Len(q.todo) = 1
  OBVIOUS
<1>2. ErasedFirst(q.todo)
  BY <1>1 DEF ErasedFirst
<1> QED
  BY <1>1, <1>2 DEF Fresh, Sound

LEMMA BeginAdmits ==
  ASSUME TypeInv, NEW r \in Request, NEW op, op \notin {"idle", "unmatchLine"}, NEW on, NEW x, NEW then,
         Begin(r, op, on, <<x>>, then), then # NoPay => op = "partialPay" /\ IsPart(db, then),
         IsTx(db, x), Clean /\ Slip(r) = {} => SoundTx(db, req'[r], x)
  PROVE  Admits(r)
<1>1. /\ req'[r] = [op |-> op, todo |-> <<x>>, then |-> then, on |-> on, stale |-> FALSE]
      /\ req[r].op = "idle" /\ db' = db /\ transit' = transit
      /\ DOMAIN req' = Request /\ \A q \in Request \ {r} : req'[q] = req[q]
  BY BeginIs
<1>2. IsScript(db, <<x>>) /\ Len(<<x>>) = 1
  BY ScriptOfOne
<1>3. PICK new : new = req'[r]
  OBVIOUS
<1>4. /\ new.op = op /\ new.todo = <<x>> /\ new.then = then /\ new.on = on /\ new.stale = FALSE
      /\ DOMAIN new = {"op", "todo", "then", "on", "stale"}
  BY <1>1, <1>3
<1>5. IsRequest(db, new)
  <2>1. new.stale \in BOOLEAN
    BY <1>4
  <2>2. IsScript(db, new.todo) /\ Len(new.todo) <= 8
    BY <1>2, <1>4
  <2> QED
    BY <1>4, <2>1, <2>2 DEF IsRequest
<1>6. Clean /\ Slip(r) = {} => Fresh(db, new)
  BY <1>3, <1>4, OneIsSound
<1> QED
  BY <1>1, <1>3, <1>5, <1>6 DEF Admits

LEMMA OnceAdmits ==
  ASSUME TypeInv, NEW r \in Request, NEW op, op \notin {"idle", "unmatchLine"}, NEW on, NEW x, Once(r, op, on, x),
         IsTx(db, x), Clean /\ Slip(r) = {} => SoundTx(db, req'[r], x)
  PROVE  Admits(r)
BY BeginAdmits DEF Once

(* The transactions of the entries' handlers.                              *)
IsSimple(d, x) ==
  /\ x.touch = Nothing \/ \E i, p : i \in DOMAIN d.entries /\ x.touch = Touch(i, p) /\ IsPatch(d.entries[i].cut, p)
  /\ x.make = <<>> \/ \E e : GoodEntry(e) /\ Regular(e) /\ x.make = <<e>>
  /\ DOMAIN x.move \subseteq Account /\ \A a \in DOMAIN x.move : x.move[a] \in Int
  /\ x.wire = <<>> \/ \E w : GoodWire(w) /\ w.live /\ x.wire = <<w>>
  /\ x.unwire = Nothing /\ x.line = Nothing
  /\ x.shut \subseteq Account \X Month

LEMMA SimpleTx ==
  ASSUME NEW d, NEW x, IsSimple(d, x)
  PROVE  IsTx(d, x)
<1>1. DOMAIN Nothing = {}
  BY DEF Nothing
<1>2. \A i, p : DOMAIN Touch(i, p) = {i} /\ Touch(i, p)[i] = p
  BY DEF Touch
<1>3. /\ DOMAIN x.touch \subseteq DOMAIN d.entries /\ \A i, j \in DOMAIN x.touch : i = j
      /\ \A i \in DOMAIN x.touch : IsPatch(d.entries[i].cut, x.touch[i])
  <2>1. CASE x.touch = Nothing
    BY <1>1, <2>1
  <2>2. CASE x.touch # Nothing
    <3>1. PICK i, p : i \in DOMAIN d.entries /\ x.touch = Touch(i, p) /\ IsPatch(d.entries[i].cut, p)
      BY <2>2 DEF IsSimple
    <3>2. DOMAIN x.touch = {i} /\ x.touch[i] = p
      BY <1>2, <3>1
    <3> QED
      BY <3>1, <3>2
  <2> QED
    BY <2>1, <2>2
<1> QED
  BY <1>1, <1>3 DEF IsSimple, IsTx

LEMMA SimpleSound ==
  ASSUME NEW d, NEW x, IsSimple(d, x), NEW q, q.op \notin {"matchLine", "unmatchLine"},
         \A i \in DOMAIN x.touch : <<"entry", i>> \in q.on /\ Regular(Patched(d.entries[i], x.touch[i])),
         \A a \in Account : Effect(d, x, a) = 0,
         q.op \in Unchecked \/ \A a \in Account, m \in Month : Gain(d, x, a, {m}) = 0 \/ IsOpenFor(d, q, a, m)
  PROVE  SoundTx(d, q, x)
<1>1. DOMAIN Nothing = {}
  BY DEF Nothing
<1>2. Covered(q, x) /\ KeepsRows(d, x)
  BY <1>1 DEF IsSimple, Covered, KeepsRows
<1>3. KeepsLines(d, q, x)
  BY <1>1 DEF IsSimple, KeepsLines
<1>4. KeepsMonths(d, q, x) /\ KeepsBank(d, q, x) /\ KeepsBalance(d, q, x)
  BY DEF KeepsMonths, KeepsBank, KeepsBalance
<1> QED
  BY <1>2, <1>3, <1>4 DEF SoundTx

----------------------------------------------------------------------------
(* The entries' handlers *)

(* A transaction that makes one row and nothing else but a movement.       *)
LEMMA MakeGain ==
  ASSUME NEW d, NEW x, x.touch = Nothing, x.wire = <<>>, x.unwire = Nothing, NEW e, GoodEntry(e), x.make = <<e>>,
         NEW a, NEW months
  PROVE  Gain(d, x, a, months) = Worth(e, a, months)
<1>1. Worth(e, a, months) \in Int
  BY WorthInt
<1>2. /\ PatchGain(d, x, a, months) = 0 /\ MadeGain(x, a, months) = Worth(e, a, months)
      /\ WireGain(x, a, months) = 0 /\ UnwireGain(d, x, a, months) = 0
  BY NoGain, MadeGainIs
<1> QED
  BY <1>1, <1>2 DEF Gain

LEMMA TouchIs ==
  ASSUME NEW i, NEW p
  PROVE  DOMAIN Touch(i, p) = {i} /\ Touch(i, p)[i] = p
BY DEF Touch

(* One that touches one row, and perhaps makes one that counts nowhere.    *)
ChangesBy(d, x, e, n) ==
  \A a \in Account : \A months : Gain(d, x, a, months) = Worth(n, a, months) - Worth(e, a, months)

LEMMA TouchGain ==
  ASSUME NEW d, NEW x, NEW i, NEW p, x.touch = Touch(i, p), x.wire = <<>>, x.unwire = Nothing,
         x.make = <<>> \/ \E m : GoodEntry(m) /\ m.status = "PENDING" /\ x.make = <<m>>,
         NEW e, e = d.entries[i], GoodEntry(e), NEW n, n = Patched(e, p), GoodEntry(n)
  PROVE  ChangesBy(d, x, e, n)
<1> SUFFICES ASSUME NEW a \in Account, NEW months
             PROVE  Gain(d, x, a, months) = Worth(n, a, months) - Worth(e, a, months)
  BY DEF ChangesBy
<1>1. Worth(n, a, months) \in Int /\ Worth(e, a, months) \in Int
  BY WorthInt
<1>2. PatchGain(d, x, a, months) = Worth(n, a, months) - Worth(e, a, months)
  BY PatchGainIs
<1>3. MadeGain(x, a, months) = 0
  <2>1. CASE x.make = <<>>
    BY <2>1, NoGain
  <2>2. CASE \E m : GoodEntry(m) /\ m.status = "PENDING" /\ x.make = <<m>>
    <3>1. PICK m : GoodEntry(m) /\ m.status = "PENDING" /\ x.make = <<m>>
      BY <2>2
    <3>2. Worth(m, a, months) = 0
      BY <3>1, WorthZero
    <3> QED
      BY <3>1, <3>2, MadeGainIs
  <2> QED
    BY <2>1, <2>2
<1>4. WireGain(x, a, months) = 0 /\ UnwireGain(d, x, a, months) = 0
  BY NoGain
<1> QED
  BY <1>1, <1>2, <1>3, <1>4 DEF Gain

LEMMA CreateEntryAdmits ==
  ASSUME TypeInv, NEW r \in Request, NEW type \in {"RECEIVABLE", "PAYABLE"}, NEW gross \in Amount, NEW bps \in Bps,
         NEW account \in Account \cup {NoAccount}, NEW autoPay \in BOOLEAN,
         CreateEntry(r, type, gross, bps, account, autoPay)
  PROVE  Admits(r)
<1>1. PICK into : into = IF account = NoAccount /\ autoPay THEN transit ELSE account
  OBVIOUS
<1>2. into \in Account \cup {NoAccount}
  BY <1>1, AccountAssumption DEF TypeInv
<1>3. PICK rate : rate = IF type = "PAYABLE" THEN bps ELSE 0
  OBVIOUS
<1>4. rate \in Nat /\ gross \in Int
  BY <1>3, AmountAssumption
<1>5. CASE ~autoPay
  <2>1. PICK e : e = Due(type, gross, rate, into)
    OBVIOUS
  <2>2. PICK x : x = [Tx EXCEPT !.make = <<e>>]
    OBVIOUS
  <2>3. Once(r, "createEntry", {}, x)
    BY <1>1, <1>3, <1>5, <2>1, <2>2 DEF CreateEntry
  <2>4. GoodEntry(e) /\ Regular(e) /\ e.status = "PENDING"
    BY <1>2, <1>4, <2>1, DueRow
  <2>5. /\ x.touch = Nothing /\ x.make = <<e>> /\ x.move = Nothing /\ x.wire = <<>> /\ x.unwire = Nothing
        /\ x.line = Nothing /\ x.shut = {}
    BY <2>2 DEF Tx
  <2>6. IsSimple(db, x)
    BY <2>4, <2>5 DEF IsSimple, Nothing
  <2>7. \A a \in Account : \A months : Gain(db, x, a, months) = 0
    BY <2>4, <2>5, MakeGain, WorthZero
  <2>8. \A a \in Account : Effect(db, x, a) = 0
    <3>1. \A a \in Account : At(x.move, a) = 0
      BY <2>5, MoveAt
    <3> QED
      BY <2>7, <3>1 DEF Effect
  <2>9. DOMAIN x.touch = {}
    BY <2>5 DEF Nothing
  <2>10. req'[r].op = "createEntry"
    BY <2>3, OnceIs
  <2>11. SoundTx(db, req'[r], x)
    BY <2>6, <2>7, <2>8, <2>9, <2>10, SimpleSound
  <2> QED
    BY <2>3, <2>6, <2>11, SimpleTx, OnceAdmits
<1>6. CASE autoPay
  <2>1. PICK e : e = BornPaid(type, gross, rate, into)
    OBVIOUS
  <2>2. PICK x : x = [Tx EXCEPT !.make = <<e>>, !.move = Move(into, Signed(e))]
    OBVIOUS
  <2>3. Once(r, "createEntry", ReadMonth(into, Now), x) /\ ~IsClosed(into, Now)
    BY <1>1, <1>3, <1>6, <2>1, <2>2 DEF CreateEntry, BornPaid
  <2>4. GoodEntry(e) /\ Regular(e) /\ e.status = "PAID" /\ e.live /\ e.account = into /\ e.month = Now
    BY <1>2, <1>4, <2>1, PaidAtBirth
  <2>5. /\ x.touch = Nothing /\ x.make = <<e>> /\ x.move = Move(into, Signed(e)) /\ x.wire = <<>> /\ x.unwire = Nothing
        /\ x.line = Nothing /\ x.shut = {}
    BY <2>2 DEF Tx
  <2>6. IsSimple(db, x)
    <3>1. DOMAIN x.move \subseteq Account /\ \A a \in DOMAIN x.move : x.move[a] \in Int
      BY <1>2, <2>4, <2>5, SignedInt, MoveTyped
    <3> QED
      BY <2>4, <2>5, <3>1 DEF IsSimple
  <2>7. \A a \in Account : \A months : Gain(db, x, a, months) = IF into = a /\ Now \in months THEN Signed(e) ELSE 0
    BY <2>4, <2>5, MakeGain, WorthOfPaid
  <2>8. \A a \in Account : Effect(db, x, a) = 0
    <3>1. \A a \in Account : At(x.move, a) = IF into = a THEN Signed(e) ELSE 0
      BY <2>5, MoveAt
    <3> QED
      BY <2>4, <2>7, <3>1, NowIsMonth, SignedInt DEF Effect
  <2>9. DOMAIN x.touch = {}
    BY <2>5 DEF Nothing
  <2>10. req'[r].op = "createEntry" /\ req'[r].on = ReadMonth(into, Now)
    BY <2>3, OnceIs
  <2>11. \A a \in Account, m \in Month : Gain(db, x, a, {m}) = 0 \/ IsOpenFor(db, req'[r], a, m)
    <3>1. \A a, m : into = a /\ Now \in {m} => IsOpenFor(db, req'[r], a, m)
      BY <2>3, <2>10 DEF IsClosed, ReadMonth, IsOpenFor
    <3> QED
      BY <2>7, <3>1
  <2>12. SoundTx(db, req'[r], x)
    BY <2>6, <2>8, <2>9, <2>10, <2>11, SimpleSound
  <2> QED
    BY <2>3, <2>6, <2>12, SimpleTx, OnceAdmits
<1> QED
  BY <1>5, <1>6

LEMMA UpdateEntryAdmits ==
  ASSUME TypeInv, NEW r \in Request, NEW i \in DOMAIN db.entries, NEW gross \in Amount, UpdateEntry(r, i, gross)
  PROVE  Admits(r)
<1>1. PICK e : e = db.entries[i]
  OBVIOUS
<1>2. GoodEntry(e) /\ gross \in Int /\ e["cut"] \in Int
  BY <1>1, AmountAssumption, EntryFields DEF TypeInv, IsDatabase, GoodEntry
<1>3. PICK p : p = [gross |-> gross, net |-> gross - e.cut]
  OBVIOUS
<1>4. PICK x : x = [Tx EXCEPT !.touch = Touch(i, p)]
  OBVIOUS
<1>5. Once(r, "updateEntry", ReadEntry(i), x)
  BY <1>1, <1>3, <1>4 DEF UpdateEntry
<1>6. PICK n : n = Patched(e, p)
  OBVIOUS
<1>7. IsPatch(e.cut, p) /\ (Regular(e) => Regular(n)) /\ n.status = e.status
  BY <1>2, <1>3, <1>6, AmountPatch
<1>8. /\ x.touch = Touch(i, p) /\ x.make = <<>> /\ x.move = Nothing /\ x.wire = <<>> /\ x.unwire = Nothing
      /\ x.line = Nothing /\ x.shut = {}
  BY <1>4 DEF Tx
<1>9. IsSimple(db, x)
  BY <1>1, <1>7, <1>8 DEF IsSimple, Nothing
<1>10. req'[r].op = "updateEntry" /\ req'[r].on = ReadEntry(i) /\ First(r) = x /\ Begins(r, "updateEntry")
  BY <1>5, OnceIs
<1>11. ASSUME Clean, Slip(r) = {} PROVE SoundTx(db, req'[r], x)
  <2>1. ~Edited(r)
    BY <1>11, NoSlip
  <2>2. i \in Touched(r)
    BY <1>8, <1>10 DEF Touched, Touch
  <2>3. e.status # "PAID"
    BY <1>1, <1>10, <2>1, <2>2 DEF Edited, IsPaid
  <2>4. GoodEntry(n)
    BY <1>2, <1>6, <1>7, PatchedEntry
  <2>5. \A a \in Account : Effect(db, x, a) = 0
    <3>1. \A a \in Account : Worth(n, a, Month) = 0 /\ Worth(e, a, Month) = 0
      BY <1>7, <2>3, WorthZero
    <3>2. \A a \in Account : Gain(db, x, a, Month) = Worth(n, a, Month) - Worth(e, a, Month)
      <4>1. ChangesBy(db, x, e, n)
        BY <1>1, <1>2, <1>6, <1>8, <2>4, TouchGain
      <4> QED
        BY <4>1 DEF ChangesBy
    <3>3. \A a \in Account : At(x.move, a) = 0
      BY <1>8, MoveAt
    <3> QED
      BY <3>1, <3>2, <3>3 DEF Effect
  <2>6. \A j \in DOMAIN x.touch : <<"entry", j>> \in req'[r].on /\ Regular(Patched(db.entries[j], x.touch[j]))
    <3>1. Regular(e)
      BY <1>1, <1>11 DEF Clean
    <3>2. x.touch = Touch(i, p)
      BY <1>8
    <3>3. DOMAIN x.touch = {i} /\ x.touch[i] = p
      BY ONLY <3>2, TouchIs
    <3> QED
      BY <1>1, <1>6, <1>7, <1>10, <3>1, <3>3 DEF ReadEntry
  <2> QED
    BY <1>9, <1>10, <2>5, <2>6, SimpleSound DEF Unchecked
<1> QED
  BY <1>5, <1>9, <1>11, SimpleTx, OnceAdmits

(* The transaction of a payment.                                           *)
Credited(x) == \A j \in DOMAIN x.touch : x.touch[j].account \in DOMAIN x.move \cup {NoAccount}

LEMMA PayTxSound ==
  ASSUME TypeInv, NEW i \in DOMAIN db.entries, NEW account \in Account \cup {NoAccount}, NEW month \in Month,
         NEW skip \in BOOLEAN, MayPay(i, account, month), NEW x, x = PayTx(i, account, month, skip)
  PROVE  /\ IsSimple(db, x)
         /\ \A q : q.op \in {"pay", "partialPay"} /\ q.on = PayReads(i, account, month) /\ Credited(x)
                   => SoundTx(db, q, x)
<1>1. PICK e : e = db.entries[i]
  OBVIOUS
<1>2. PICK into : into = IF account = NoAccount THEN e.account ELSE account
  OBVIOUS
<1>3. GoodEntry(e) /\ e["account"] \in Account \cup {NoAccount}
  BY <1>1, EntryFields DEF TypeInv, IsDatabase, GoodEntry
<1>4. into \in Account \cup {NoAccount}
  BY <1>2, <1>3
<1>5. e.live /\ e.status = "PENDING" /\ ~IsClosed(into, month)
  BY <1>1, <1>2 DEF MayPay, Live, IsOpen
<1>6. PICK p : p = [status |-> "PAID", month |-> month, account |-> into, by |-> "user"]
  OBVIOUS
<1>7. PICK n : n = Patched(e, p)
  OBVIOUS
<1>8. /\ IsPatch(e.cut, p) /\ Regular(n)
      /\ n.type = e.type /\ n.net = e.net /\ n.status = "PAID" /\ n.account = into /\ n.month = month /\ n.live
  BY <1>3, <1>4, <1>5, <1>6, <1>7, PaidPatch
<1>9. PICK move : move = IF skip THEN Nothing ELSE Move(account, Signed(e))
  OBVIOUS
<1>10. x = [Tx EXCEPT !.touch = Touch(i, p), !.move = move]
  BY <1>1, <1>2, <1>6, <1>9 DEF PayTx
<1>11. /\ x.touch = Touch(i, p) /\ x.make = <<>> /\ x.move = move /\ x.wire = <<>> /\ x.unwire = Nothing
       /\ x.line = Nothing /\ x.shut = {}
  BY <1>10 DEF Tx
<1>v. x.touch = Touch(i, p)
  BY <1>11
<1>t. DOMAIN x.touch = {i} /\ x.touch[i] = p
  BY ONLY <1>v, TouchIs
<1>12. GoodEntry(n)
  BY <1>3, <1>7, <1>8, PatchedEntry
<1>13. IsSimple(db, x)
  <2>1. Signed(e) \in Int
    BY <1>3, SignedInt
  <2>2. DOMAIN move \subseteq Account /\ \A a \in DOMAIN move : move[a] \in Int
    BY <1>9, <2>1, MoveTyped
  <2> QED
    BY <1>1, <1>8, <1>11, <2>2 DEF IsSimple
<1>14. ASSUME NEW q, q.op \in {"pay", "partialPay"}, q.on = PayReads(i, account, month), Credited(x)
       PROVE  SoundTx(db, q, x)
  <2>1. into \in DOMAIN move \cup {NoAccount}
    <3>1. i \in DOMAIN x.touch /\ x.touch[i] = p /\ p.account = into
      BY <1>6, <1>t
    <3> QED
      BY <1>11, <1>14, <3>1 DEF Credited
  <2>2. \A a \in Account : At(move, a) = IF into = a THEN Signed(e) ELSE 0
    <3>1. CASE skip
      <4>1. into = NoAccount
        BY <1>9, <2>1, <3>1 DEF Nothing
      <4> QED
        BY <1>9, <3>1, <4>1, MoveAt, AccountAssumption
    <3>2. CASE ~skip
      <4>1. into = account
        BY <1>2, <1>9, <2>1, <3>2 DEF Move
      <4> QED
        BY <1>9, <3>2, <4>1, MoveAt
    <3> QED
      BY <3>1, <3>2
  <2>3. \A a \in Account : \A months : Gain(db, x, a, months) = IF into = a /\ month \in months THEN Signed(e) ELSE 0
    <3> SUFFICES ASSUME NEW a \in Account, NEW months
                 PROVE  Gain(db, x, a, months) = IF into = a /\ month \in months THEN Signed(e) ELSE 0
      OBVIOUS
    <3>1. Signed(n) = Signed(e) /\ Signed(e) \in Int
      BY <1>3, <1>8, SignedInt DEF Signed, Sign
    <3>2. Worth(e, a, months) = 0
      BY <1>5, WorthZero
    <3>3. Worth(n, a, months) = IF into = a /\ month \in months THEN Signed(e) ELSE 0
      BY <1>8, <3>1, WorthOfPaid
    <3>4. Gain(db, x, a, months) = Worth(n, a, months) - Worth(e, a, months)
      BY <1>1, <1>3, <1>7, <1>11, <1>12, TouchGain DEF ChangesBy
    <3> QED
      BY <3>1, <3>2, <3>3, <3>4
  <2>4. \A a \in Account : Effect(db, x, a) = 0
    <3>1. Signed(e) \in Int
      BY <1>3, SignedInt
    <3> QED
      BY <1>11, <2>2, <2>3, <3>1 DEF Effect
  <2>5. q.on = ReadEntry(i) \cup ReadMonth(into, month)
    BY <1>1, <1>2, <1>14 DEF PayReads
  <2>6. \A a \in Account, m \in Month : Gain(db, x, a, {m}) = 0 \/ IsOpenFor(db, q, a, m)
    <3>1. \A a, m : into = a /\ month \in {m} => IsOpenFor(db, q, a, m)
      BY <1>5, <2>5 DEF IsClosed, ReadMonth, IsOpenFor
    <3> QED
      BY <2>3, <3>1
  <2>7. \A j \in DOMAIN x.touch : <<"entry", j>> \in q.on /\ Regular(Patched(db.entries[j], x.touch[j]))
    BY <1>1, <1>7, <1>8, <1>t, <2>5 DEF ReadEntry
  <2> QED
    BY <1>13, <1>14, <2>4, <2>6, <2>7, SimpleSound
<1> QED
  BY <1>13, <1>14

LEMMA PayAdmits ==
  ASSUME TypeInv, NEW r \in Request, NEW i \in DOMAIN db.entries, NEW account \in Account \cup {NoAccount},
         NEW month \in Month, NEW skip \in BOOLEAN, Pay(r, i, account, month, skip)
  PROVE  Admits(r)
<1>1. PICK x : x = PayTx(i, account, month, skip)
  OBVIOUS
<1>2. MayPay(i, account, month) /\ Once(r, "pay", PayReads(i, account, month), x)
  BY <1>1 DEF Pay
<1>3. /\ req'[r].op = "pay" /\ req'[r].on = PayReads(i, account, month) /\ First(r) = x /\ req'[r].todo = <<x>>
      /\ Begins(r, "pay")
  BY <1>2, OnceIs
<1>4. Slip(r) = {} => Credited(x)
  <2>1. <<x>> # <<>>
    OBVIOUS
  <2> QED
    BY <1>3, <2>1, NoSlip DEF Uncredited, Touched, Credited
<1>5. IsSimple(db, x) /\ (Credited(x) => SoundTx(db, req'[r], x))
  BY <1>1, <1>2, <1>3, PayTxSound
<1> QED
  BY <1>2, <1>4, <1>5, SimpleTx, OnceAdmits

(* Handlers that touch one entry.                                          *)
TouchesOne(d, x, i, p) ==
  /\ i \in DOMAIN d.entries /\ IsPatch(d.entries[i].cut, p) /\ x.touch = Touch(i, p)
  /\ x.make = <<>> \/ \E m : GoodEntry(m) /\ Regular(m) /\ m.status = "PENDING" /\ x.make = <<m>>
  /\ DOMAIN x.move \subseteq Account /\ \A a \in DOMAIN x.move : x.move[a] \in Int
  /\ x.wire = <<>> /\ x.unwire = Nothing /\ x.line = Nothing /\ x.shut = {}

(* They are right to, having read what "on" says, if the row n that comes  *)
(* of e is regular, and what it is worth changes by what is moved, in open *)
(* months.                                                                 *)
IsJust(d, on, x, e, n) ==
  /\ Regular(n)
  /\ \A a \in Account : At(x.move, a) = Worth(n, a, Month) - Worth(e, a, Month)
  /\ \A a \in Account, m \in Month :
       Worth(n, a, {m}) = Worth(e, a, {m}) \/ (<<a, m>> \notin d.closed /\ <<"month", <<a, m>>>> \in on)

LEMMA TouchSimple ==
  ASSUME NEW d, NEW x, NEW i, NEW p, TouchesOne(d, x, i, p)
  PROVE  IsSimple(d, x)
BY DEF TouchesOne, IsSimple

LEMMA TouchSound ==
  ASSUME NEW d, IsDatabase(d), NEW x, NEW i, NEW p, TouchesOne(d, x, i, p),
         NEW e, e = d.entries[i], NEW n, n = Patched(e, p),
         NEW q, q.op \notin {"matchLine", "unmatchLine"}, <<"entry", i>> \in q.on, IsJust(d, q.on, x, e, n)
  PROVE  SoundTx(d, q, x)
<1>1. GoodEntry(e) /\ GoodEntry(n)
  <2>1. GoodEntry(e) /\ IsPatch(e.cut, p)
    BY DEF TouchesOne, IsDatabase
  <2> QED
    BY <2>1, PatchedEntry
<1>2. ChangesBy(d, x, e, n)
  BY <1>1, TouchGain DEF TouchesOne
<1>3. \A a \in Account : \A months : /\ Gain(d, x, a, months) = Worth(n, a, months) - Worth(e, a, months)
                                     /\ Worth(n, a, months) \in Int /\ Worth(e, a, months) \in Int
  BY <1>1, <1>2, WorthInt DEF ChangesBy
<1>4. \A a \in Account : Effect(d, x, a) = 0
  BY <1>3 DEF Effect, IsJust
<1>5. \A a \in Account, m \in Month : Gain(d, x, a, {m}) = 0 \/ IsOpenFor(d, q, a, m)
  <2>1. \A a \in Account, m \in Month : Worth(n, a, {m}) = Worth(e, a, {m}) => Gain(d, x, a, {m}) = 0
    BY <1>3
  <2> QED
    BY <2>1 DEF IsJust, IsOpenFor
<1>6. x.touch = Touch(i, p)
  BY DEF TouchesOne
<1>7. DOMAIN x.touch = {i} /\ x.touch[i] = p
  BY ONLY <1>6, TouchIs
<1>8. \A j \in DOMAIN x.touch : <<"entry", j>> \in q.on /\ Regular(Patched(d.entries[j], x.touch[j]))
  BY <1>7 DEF IsJust
<1>9. IsSimple(d, x)
  BY TouchSimple
<1> QED
  BY <1>4, <1>5, <1>8, <1>9, SimpleSound

LEMMA TouchBegins ==
  ASSUME TypeInv, NEW r \in Request, NEW op, op \notin {"idle", "matchLine", "unmatchLine"}, NEW on, NEW x, NEW then,
         Begin(r, op, on, <<x>>, then), then # NoPay => op = "partialPay" /\ IsPart(db, then),
         NEW i, NEW p, TouchesOne(db, x, i, p), <<"entry", i>> \in on,
         NEW e, e = db.entries[i], NEW n, n = Patched(e, p),
         Clean /\ Slip(r) = {} => IsJust(db, on, x, e, n)
  PROVE  Admits(r)
<1>1. PICK q : q = req'[r]
  OBVIOUS
<1>2. req'[r] = [op |-> op, todo |-> <<x>>, then |-> then, on |-> on, stale |-> FALSE]
  BY BeginIs
<1>3. q.op = op /\ q.on = on
  BY <1>1, <1>2
<1>4. ASSUME IsJust(db, on, x, e, n) PROVE SoundTx(db, q, x)
  <2>1. IsDatabase(db)
    BY DEF TypeInv
  <2>2. IsJust(db, q.on, x, e, n) /\ <<"entry", i>> \in q.on /\ q.op \notin {"matchLine", "unmatchLine"}
    BY <1>3, <1>4
  <2> QED
    BY <2>1, <2>2, TouchSound
<1>5. IsTx(db, x)
  BY TouchSimple, SimpleTx
<1> QED
  BY <1>1, <1>4, <1>5, BeginAdmits

LEMMA TouchAdmits ==
  ASSUME TypeInv, NEW r \in Request, NEW op, op \notin {"idle", "matchLine", "unmatchLine"}, NEW on, NEW x,
         Once(r, op, on, x), NEW i, NEW p, TouchesOne(db, x, i, p), <<"entry", i>> \in on,
         NEW e, e = db.entries[i], NEW n, n = Patched(e, p),
         Clean /\ Slip(r) = {} => IsJust(db, on, x, e, n)
  PROVE  Admits(r)
BY TouchBegins DEF Once

LEMMA RowOf ==
  ASSUME TypeInv, NEW i \in DOMAIN db.entries, NEW e, e = db.entries[i]
  PROVE  /\ GoodEntry(e) /\ e["account"] \in Account \cup {NoAccount} /\ e["net"] \in Int /\ e["cut"] \in Int
         /\ e["gross"] \in Int /\ e["type"] \in {"RECEIVABLE", "PAYABLE"} /\ e["bps"] \in Nat
         /\ e["status"] = "PAID" => e["month"] \in Month
         /\ Clean => Regular(e)
BY EntryFields DEF TypeInv, IsDatabase, GoodEntry, Clean

(* Two rows that count nowhere are worth the same.                         *)
LEMMA BothZero ==
  ASSUME NEW e, e.status # "PAID" \/ ~e.live, NEW n, n.status # "PAID" \/ ~n.live, Regular(n),
         NEW x, x.move = Nothing, NEW d, NEW on
  PROVE  IsJust(d, on, x, e, n)
<1>1. \A a \in Account : \A months : Worth(e, a, months) = 0 /\ Worth(n, a, months) = 0
  BY WorthZero
<1>2. \A a \in Account : At(x.move, a) = 0
  BY MoveAt
<1> QED
  BY <1>1, <1>2 DEF IsJust

LEMMA CancelEntryAdmits ==
  ASSUME TypeInv, NEW r \in Request, NEW i \in DOMAIN db.entries, CancelEntry(r, i)
  PROVE  Admits(r)
<1>1. PICK e : e = db.entries[i]
  OBVIOUS
<1>2. PICK p : p = [status |-> "CANCELLED"]
  OBVIOUS
<1>3. PICK x : x = [Tx EXCEPT !.touch = Touch(i, p)]
  OBVIOUS
<1>4. PICK n : n = Patched(e, p)
  OBVIOUS
<1>5. Once(r, "cancelEntry", ReadEntry(i), x) /\ e.status = "PENDING"
  BY <1>1, <1>2, <1>3 DEF CancelEntry, IsOpen
<1>6. /\ x.touch = Touch(i, p) /\ x.make = <<>> /\ x.move = Nothing /\ x.wire = <<>> /\ x.unwire = Nothing
      /\ x.line = Nothing /\ x.shut = {}
  BY <1>3 DEF Tx
<1>7. GoodEntry(e) /\ (Clean => Regular(e))
  BY <1>1, RowOf
<1>8. IsPatch(e.cut, p)
  BY <1>2 DEF IsPatch, Patchable, Statuses
<1>9. Clean => Regular(n) /\ n.status = "CANCELLED"
  BY <1>2, <1>4, <1>5, <1>7, CancelledPatch
<1>10. TouchesOne(db, x, i, p)
  BY <1>1, <1>6, <1>8 DEF TouchesOne, Nothing
<1>11. Clean => IsJust(db, ReadEntry(i), x, e, n)
  BY <1>5, <1>6, <1>9, BothZero
<1>12. <<"entry", i>> \in ReadEntry(i)
  BY DEF ReadEntry
<1> QED
  BY <1>1, <1>4, <1>5, <1>10, <1>11, <1>12, TouchAdmits

LEMMA RenegotiateAdmits ==
  ASSUME TypeInv, NEW r \in Request, NEW i \in DOMAIN db.entries, Renegotiate(r, i)
  PROVE  Admits(r)
<1>1. PICK e : e = db.entries[i]
  OBVIOUS
<1>2. PICK p : p = [status |-> "CANCELLED"]
  OBVIOUS
<1>m. PICK m : m = Due(e.type, e.net, e.bps, NoAccount)
  OBVIOUS
<1>3. PICK x : x = [Tx EXCEPT !.touch = Touch(i, p), !.make = <<m>>]
  OBVIOUS
<1>4. PICK n : n = Patched(e, p)
  OBVIOUS
<1>5. Once(r, "renegotiate", ReadEntry(i), x) /\ e.status = "PENDING"
  BY <1>1, <1>2, <1>m, <1>3 DEF Renegotiate, IsOpen
<1>6. /\ x.touch = Touch(i, p) /\ x.make = <<m>> /\ x.move = Nothing /\ x.wire = <<>> /\ x.unwire = Nothing
      /\ x.line = Nothing /\ x.shut = {}
  BY <1>3 DEF Tx
<1>7. GoodEntry(e) /\ (Clean => Regular(e)) /\ GoodEntry(m) /\ Regular(m) /\ m.status = "PENDING"
  BY <1>1, <1>m, RowOf, DueRow
<1>8. IsPatch(e.cut, p)
  BY <1>2 DEF IsPatch, Patchable, Statuses
<1>9. Clean => Regular(n) /\ n.status = "CANCELLED"
  BY <1>2, <1>4, <1>5, <1>7, CancelledPatch
<1>10. TouchesOne(db, x, i, p)
  BY <1>1, <1>6, <1>7, <1>8 DEF TouchesOne, Nothing
<1>11. Clean => IsJust(db, ReadEntry(i), x, e, n)
  BY <1>5, <1>6, <1>9, BothZero
<1>12. <<"entry", i>> \in ReadEntry(i)
  BY DEF ReadEntry
<1> QED
  BY <1>1, <1>4, <1>5, <1>10, <1>11, <1>12, TouchAdmits

LEMMA ReverseAdmits ==
  ASSUME TypeInv, NEW r \in Request, NEW i \in DOMAIN db.entries, Reverse(r, i)
  PROVE  Admits(r)
<1>1. PICK e : e = db.entries[i]
  OBVIOUS
<1>2. PICK p : p = [status |-> "PENDING", month |-> 0, account |-> NoAccount]
  OBVIOUS
<1>3. PICK cents : cents = -Signed(e)
  OBVIOUS
<1>m. PICK move : move = Move(e.account, cents)
  OBVIOUS
<1>4. PICK x : x = [Tx EXCEPT !.touch = Touch(i, p), !.move = move]
  OBVIOUS
<1>5. PICK n : n = Patched(e, p)
  OBVIOUS
<1>6. PICK on : on = ReadEntry(i) \cup ReadMonth(e.account, e.month)
  OBVIOUS
<1>7. Once(r, "reverse", on, x) /\ e.live /\ e.status = "PAID" /\ ~IsClosed(e.account, e.month)
  BY <1>1, <1>2, <1>3, <1>m, <1>4, <1>6 DEF Reverse, Live, IsPaid
<1>8. /\ x.touch = Touch(i, p) /\ x.make = <<>> /\ x.move = move /\ x.wire = <<>> /\ x.unwire = Nothing
      /\ x.line = Nothing /\ x.shut = {}
  BY <1>4 DEF Tx
<1>9. GoodEntry(e) /\ e.account \in Account \cup {NoAccount} /\ e.month \in Month
  BY <1>1, <1>7, RowOf
<1>10. IsPatch(e.cut, p) /\ Regular(n) /\ n.status = "PENDING"
  BY <1>2, <1>5, <1>9, UnpaidPatch
<1>11. Signed(e) \in Int /\ cents \in Int
  BY <1>3, <1>9, SignedInt
<1>12. DOMAIN move \subseteq Account /\ \A a \in DOMAIN move : move[a] \in Int
  BY <1>m, <1>9, <1>11, MoveTyped
<1>13. TouchesOne(db, x, i, p)
  BY <1>1, <1>8, <1>10, <1>12 DEF TouchesOne
<1>14. IsJust(db, on, x, e, n)
  <2>1. \A a \in Account : \A months : /\ Worth(n, a, months) = 0
                                       /\ Worth(e, a, months) = IF e.account = a /\ e.month \in months THEN Signed(e) ELSE 0
    BY <1>7, <1>10, WorthZero, WorthOfPaid
  <2>2. \A a \in Account : At(x.move, a) = IF e.account = a THEN cents ELSE 0
    BY <1>m, <1>8, MoveAt
  <2>3. \A a \in Account : At(x.move, a) = Worth(n, a, Month) - Worth(e, a, Month)
    BY <1>3, <1>9, <1>11, <2>1, <2>2
  <2>4. \A a \in Account, m \in Month :
          Worth(n, a, {m}) = Worth(e, a, {m}) \/ (<<a, m>> \notin db.closed /\ <<"month", <<a, m>>>> \in on)
    <3>1. \A a, m : e.account = a /\ e.month \in {m} => <<a, m>> \notin db.closed /\ <<"month", <<a, m>>>> \in on
      BY <1>6, <1>7 DEF IsClosed, ReadMonth
    <3> QED
      BY <2>1, <3>1
  <2> QED
    BY <1>10, <2>3, <2>4 DEF IsJust
<1>15. <<"entry", i>> \in on
  BY <1>6 DEF ReadEntry
<1> QED
  BY <1>1, <1>5, <1>7, <1>13, <1>14, <1>15, TouchAdmits

LEMMA DeleteEntryAdmits ==
  ASSUME TypeInv, NEW r \in Request, NEW i \in DOMAIN db.entries, DeleteEntry(r, i)
  PROVE  Admits(r)
<1>1. PICK e : e = db.entries[i]
  OBVIOUS
<1>2. PICK p : p = [live |-> FALSE]
  OBVIOUS
<1>3. PICK x : x = [Tx EXCEPT !.touch = Touch(i, p)]
  OBVIOUS
<1>4. PICK n : n = Patched(e, p)
  OBVIOUS
<1>5. PICK on : on = ReadEntry(i) \cup ReadMonth(e.account, e.month)
  OBVIOUS
<1>6. Once(r, "deleteEntry", on, x)
  BY <1>1, <1>2, <1>3, <1>5 DEF DeleteEntry
<1>7. /\ x.touch = Touch(i, p) /\ x.make = <<>> /\ x.move = Nothing /\ x.wire = <<>> /\ x.unwire = Nothing
      /\ x.line = Nothing /\ x.shut = {}
  BY <1>3 DEF Tx
<1>8. GoodEntry(e) /\ (Clean => Regular(e))
  BY <1>1, RowOf
<1>9. IsPatch(e.cut, p) /\ ~n.live /\ (Regular(e) /\ e.status # "PAID" => Regular(n))
  BY <1>2, <1>4, <1>8, RemovedPatch
<1>10. TouchesOne(db, x, i, p)
  BY <1>1, <1>7, <1>9 DEF TouchesOne, Nothing
<1>11. Slip(r) = {} => e.status # "PAID"
  <2>1. First(r) = x /\ Begins(r, "deleteEntry")
    BY <1>6, OnceIs
  <2>2. i \in Touched(r)
    BY <1>7, <2>1 DEF Touched, Touch
  <2> QED
    BY <1>1, <2>1, <2>2, NoSlip DEF Deleted, IsPaid
<1>12. Clean /\ Slip(r) = {} => IsJust(db, on, x, e, n)
  BY <1>7, <1>8, <1>9, <1>11, BothZero
<1>13. <<"entry", i>> \in on
  BY <1>5 DEF ReadEntry
<1> QED
  BY <1>1, <1>4, <1>6, <1>10, <1>12, <1>13, TouchAdmits

LEMMA PartialPayAdmits ==
  ASSUME TypeInv, NEW r \in Request, NEW i \in DOMAIN db.entries, NEW part \in Amount,
         NEW account \in Account \cup {NoAccount}, NEW month \in Month, PartialPay(r, i, part, account, month)
  PROVE  Admits(r)
<1>1. PICK e : e = db.entries[i]
  OBVIOUS
<1>2. PICK p : p = [gross |-> part, net |-> part]
  OBVIOUS
<1>m. PICK m : m = Due(e.type, e.net - part, 0, NoAccount)
  OBVIOUS
<1>3. PICK x : x = [Tx EXCEPT !.make = <<m>>, !.touch = Touch(i, p)]
  OBVIOUS
<1>4. PICK n : n = Patched(e, p)
  OBVIOUS
<1>5. PICK then : then = [i |-> i, account |-> account, month |-> month]
  OBVIOUS
<1>6. Begin(r, "partialPay", PayReads(i, account, month), <<x>>, then) /\ MayPay(i, account, month)
  BY <1>1, <1>2, <1>m, <1>3, <1>5 DEF PartialPay
<1>7. e.status = "PENDING"
  BY <1>1, <1>6 DEF MayPay, IsOpen
<1>8. /\ x.touch = Touch(i, p) /\ x.make = <<m>> /\ x.move = Nothing /\ x.wire = <<>> /\ x.unwire = Nothing
      /\ x.line = Nothing /\ x.shut = {}
  BY <1>3 DEF Tx
<1>9. part \in Int /\ e["net"] \in Int /\ e["type"] \in {"RECEIVABLE", "PAYABLE"}
  BY <1>1, AmountAssumption, RowOf
<1>10. GoodEntry(e) /\ (Clean => Regular(e)) /\ GoodEntry(m) /\ Regular(m) /\ m.status = "PENDING"
  <2>1. e.net - part \in Int /\ 0 \in Nat
    BY <1>9
  <2> QED
    BY <1>1, <1>m, <1>9, <2>1, RowOf, DueRow
<1>11. IsPatch(e.cut, p) /\ (Regular(e) => Regular(n)) /\ n.status = e.status
  BY <1>2, <1>4, <1>9, <1>10, AmountPatch
<1>12. TouchesOne(db, x, i, p)
  BY <1>1, <1>8, <1>10, <1>11 DEF TouchesOne, Nothing
<1>13. Clean => IsJust(db, PayReads(i, account, month), x, e, n)
  BY <1>7, <1>8, <1>10, <1>11, BothZero
<1>14. <<"entry", i>> \in PayReads(i, account, month)
  BY DEF PayReads, ReadEntry
<1>15. IsPart(db, then)
  BY <1>5 DEF IsPart
<1> QED
  BY <1>1, <1>4, <1>6, <1>12, <1>13, <1>14, <1>15, TouchBegins

(* A request that goes back to rest.                                       *)
LEMMA IdleIs ==
  ASSUME NEW d
  PROVE  IsRequest(d, Idle) /\ Fresh(d, Idle) /\ Idle.op = "idle"
<1>1. /\ DOMAIN Idle = {"op", "todo", "then", "on", "stale"} /\ Idle.op = "idle" /\ Idle.todo = <<>> /\ Idle.then = NoPay
      /\ Idle.stale = FALSE
  BY DEF Idle
<1>2. IsScript(d, Idle.todo) /\ Len(Idle.todo) <= 8
  BY <1>1, ScriptOfNone
<1>3. IsRequest(d, Idle)
  <2>1. Idle.stale \in BOOLEAN
    BY <1>1
  <2> QED
    BY <1>1, <1>2, <2>1 DEF IsRequest
<1>4. DOMAIN Idle.todo = {} /\ Len(Idle.todo) = 0
  BY <1>1
<1> QED
  BY <1>1, <1>3, <1>4 DEF Fresh, Sound, ErasedFirst

LEMMA PayPartAdmits ==
  ASSUME TypeInv, NEW r \in Request, PayPart(r)
  PROVE  Admits(r)
<1>1. PICK p : p = req[r].then
  OBVIOUS
<1>2. IsRequest(db, req[r]) /\ p # NoPay
  BY <1>1 DEF TypeInv, PayPart
<1>3. req[r].op = "partialPay" /\ IsPart(db, p)
  BY <1>1, <1>2 DEF IsRequest
<1>4. CASE MayPay(p.i, p.account, p.month)
  <2>1. PICK x : x = PayTx(p.i, p.account, p.month, FALSE)
    OBVIOUS
  <2>2. PICK new : new = [op |-> "partialPay", then |-> NoPay, stale |-> FALSE,
                          on |-> PayReads(p.i, p.account, p.month), todo |-> <<x>>]
    OBVIOUS
  <2>3. req' = [req EXCEPT ![r] = new] /\ db' = db /\ transit' = transit
    BY <1>1, <1>4, <2>1, <2>2 DEF PayPart, GiveUp
  <2>4. /\ new.op = "partialPay" /\ new.then = NoPay /\ new.stale = FALSE /\ new.todo = <<x>>
        /\ new.on = PayReads(p.i, p.account, p.month) /\ DOMAIN new = {"op", "todo", "then", "on", "stale"}
    BY <2>2
  <2>5. DOMAIN req' = Request /\ req'[r] = new /\ \A q \in Request \ {r} : req'[q] = req[q]
    BY <2>3 DEF TypeInv
  <2>6. IsSimple(db, x) /\ (Credited(x) => SoundTx(db, new, x))
    <3>1. p.i \in DOMAIN db.entries /\ p.account \in Account \cup {NoAccount} /\ p.month \in Month
      BY <1>3 DEF IsPart
    <3> QED
      BY <1>4, <2>1, <2>4, <3>1, PayTxSound
  <2>7. Slip(r) = {} => Credited(x)
    <3>1. First(r) = x /\ req'[r].todo # <<>> /\ req'[r].then = NoPay
      BY <2>4, <2>5 DEF First
    <3> QED
      BY <1>1, <1>2, <1>3, <3>1, NoSlip DEF Uncredited, Touched, Credited
  <2>8. IsRequest(db, new)
    <3>1. new.stale \in BOOLEAN
      BY <2>4
    <3>2. IsScript(db, new.todo) /\ Len(new.todo) <= 8
      BY <2>4, <2>6, SimpleTx, ScriptOfOne
    <3> QED
      BY <2>4, <3>1, <3>2 DEF IsRequest
  <2>9. Slip(r) = {} => Fresh(db, new)
    BY <2>4, <2>6, <2>7, OneIsSound
  <2> QED
    BY <1>3, <2>3, <2>5, <2>8, <2>9 DEF Admits
<1>5. CASE ~MayPay(p.i, p.account, p.month)
  <2>1. GiveUp(r)
    BY <1>1, <1>5 DEF PayPart
  <2>2. DOMAIN req' = Request /\ req'[r] = Idle /\ \A q \in Request \ {r} : req'[q] = req[q]
    BY <2>1 DEF GiveUp, TypeInv
  <2> QED
    BY <1>3, <2>1, <2>2, IdleIs DEF GiveUp, Admits
<1> QED
  BY <1>4, <1>5

LEMMA RebalanceAdmits ==
  ASSUME TypeInv, NEW r \in Request, NEW account \in Account, NEW type \in {"RECEIVABLE", "PAYABLE"},
         NEW amount \in Amount, Rebalance(r, account, type, amount)
  PROVE  Admits(r)
<1>1. PICK e : e = Posting(type, amount, account, Now)
  OBVIOUS
<1>2. PICK cents : cents = Signed(e)
  OBVIOUS
<1>m. PICK move : move = Move(account, cents)
  OBVIOUS
<1>3. PICK x : x = [Tx EXCEPT !.make = <<e>>, !.move = move]
  OBVIOUS
<1>4. Once(r, "rebalance", {}, x)
  BY <1>1, <1>2, <1>m, <1>3 DEF Rebalance
<1>5. /\ x.touch = Nothing /\ x.make = <<e>> /\ x.move = move /\ x.wire = <<>> /\ x.unwire = Nothing
      /\ x.line = Nothing /\ x.shut = {}
  BY <1>3 DEF Tx
<1>6. GoodEntry(e) /\ Regular(e) /\ e.status = "PAID" /\ e.account = account /\ e.month = Now /\ e.live
  <2>1. amount \in Int
    BY AmountAssumption
  <2> QED
    BY <1>1, <2>1, NowIsMonth, PostingRow
<1>7. cents \in Int
  BY <1>2, <1>6, SignedInt
<1>8. IsSimple(db, x)
  <2>1. DOMAIN move \subseteq Account /\ \A a \in DOMAIN move : move[a] \in Int
    BY <1>m, <1>7, MoveTyped
  <2> QED
    BY <1>5, <1>6, <2>1 DEF IsSimple
<1>9. \A a \in Account : Effect(db, x, a) = 0
  <2>1. \A a \in Account : At(x.move, a) = IF account = a THEN cents ELSE 0
    BY <1>m, <1>5, MoveAt
  <2>2. \A a \in Account : Gain(db, x, a, Month) = IF account = a THEN cents ELSE 0
    BY <1>2, <1>5, <1>6, MakeGain, WorthOfPaid, NowIsMonth
  <2> QED
    BY <1>7, <2>1, <2>2 DEF Effect
<1>10. req'[r].op = "rebalance"
  BY <1>4, OnceIs
<1>11. DOMAIN x.touch = {}
  BY <1>5 DEF Nothing
<1>12. SoundTx(db, req'[r], x)
  BY <1>8, <1>9, <1>10, <1>11, SimpleSound DEF Unchecked
<1> QED
  BY <1>4, <1>8, <1>12, SimpleTx, OnceAdmits

(* What is carried from one account to another.                            *)
CarryIs(from, to, cents) ==
  /\ DOMAIN Carry(from, to, cents) \subseteq Account
  /\ \A a \in DOMAIN Carry(from, to, cents) : Carry(from, to, cents)[a] \in Int
  /\ \A a \in Account : At(Carry(from, to, cents), a) = IF a = to THEN cents ELSE IF a = from THEN -cents ELSE 0

LEMMA CarryTyped ==
  ASSUME NEW from \in Account, NEW to \in Account, NEW cents \in Int
  PROVE  CarryIs(from, to, cents)
<1>1. PICK c : c = Carry(from, to, cents)
  OBVIOUS
<1>2. DOMAIN c = {from, to} /\ \A a \in {from, to} : c[a] = IF a = to THEN cents ELSE -cents
  BY <1>1 DEF Carry
<1>3. -cents \in Int
  OBVIOUS
<1>4. DOMAIN c \subseteq Account /\ \A a \in DOMAIN c : c[a] \in Int
  BY <1>2, <1>3
<1>5. \A a \in Account : At(c, a) = IF a = to THEN cents ELSE IF a = from THEN -cents ELSE 0
  BY <1>2 DEF At
<1> QED
  BY <1>1, <1>4, <1>5 DEF CarryIs

LEMMA WireWorth ==
  ASSUME NEW w, w.live, NEW a, NEW months
  PROVE  /\ w.month \in months => Carried(w, a, months) = At(Carry(w.from, w.to, w.amount), a)
         /\ w.month \notin months => Carried(w, a, months) = 0
BY DEF Carried

(* A transaction that makes one transfer and moves.                        *)
LEMMA WiredGain ==
  ASSUME NEW d, NEW x, x.touch = Nothing, x.make = <<>>, x.unwire = Nothing, NEW w, GoodWire(w), x.wire = <<w>>,
         NEW a, NEW months
  PROVE  Gain(d, x, a, months) = Carried(w, a, months)
<1>1. Carried(w, a, months) \in Int
  BY CarriedInt
<1>2. /\ PatchGain(d, x, a, months) = 0 /\ MadeGain(x, a, months) = 0
      /\ WireGain(x, a, months) = Carried(w, a, months) /\ UnwireGain(d, x, a, months) = 0
  BY NoGain, WireGainIs
<1> QED
  BY <1>1, <1>2 DEF Gain

LEMMA CreateTransferAdmits ==
  ASSUME TypeInv, NEW r \in Request, NEW from \in Account, NEW to \in Account, NEW amount \in Amount,
         NEW month \in Month, CreateTransfer(r, from, to, amount, month)
  PROVE  Admits(r)
<1>1. PICK w : w = Wire(from, to, amount, month, NoLine)
  OBVIOUS
<1>m. PICK move : move = Carry(from, to, amount)
  OBVIOUS
<1>2. PICK x : x = [Tx EXCEPT !.wire = <<w>>, !.move = move]
  OBVIOUS
<1>3. PICK on : on = ReadMonth(from, month) \cup ReadMonth(to, month)
  OBVIOUS
<1>4. Once(r, "transfer", on, x) /\ from # to /\ ~IsClosed(from, month) /\ ~IsClosed(to, month)
  BY <1>1, <1>m, <1>2, <1>3 DEF CreateTransfer
<1>5. /\ x.touch = Nothing /\ x.make = <<>> /\ x.move = move /\ x.wire = <<w>> /\ x.unwire = Nothing
      /\ x.line = Nothing /\ x.shut = {}
  BY <1>2 DEF Tx
<1>6. amount \in Nat \ {0} /\ amount \in Int
  BY AmountAssumption
<1>7. GoodWire(w) /\ w.live /\ w.from = from /\ w.to = to /\ w.amount = amount /\ w.month = month
  BY <1>1, <1>4, <1>6, WireColumns
<1>8. /\ DOMAIN move \subseteq Account /\ \A a \in DOMAIN move : move[a] \in Int
      /\ \A a \in Account : At(move, a) = IF a = to THEN amount ELSE IF a = from THEN -amount ELSE 0
  BY <1>m, <1>6, CarryTyped DEF CarryIs
<1>9. IsSimple(db, x)
  BY <1>5, <1>7, <1>8 DEF IsSimple
<1>10. \A a \in Account : \A months : Gain(db, x, a, months) = IF month \in months THEN At(move, a) ELSE 0
  BY <1>m, <1>5, <1>7, WiredGain, WireWorth
<1>11. \A a \in Account : Effect(db, x, a) = 0
  <2>1. \A a \in Account : At(move, a) \in Int
    BY <1>6, <1>8
  <2>2. \A a \in Account : Gain(db, x, a, Month) = At(move, a)
    BY <1>10
  <2> QED
    BY <1>5, <2>1, <2>2 DEF Effect
<1>12. req'[r].op = "transfer" /\ req'[r].on = on
  BY <1>4, OnceIs
<1>13. \A a \in Account, m \in Month : Gain(db, x, a, {m}) = 0 \/ IsOpenFor(db, req'[r], a, m)
  <2>1. \A a, m : a \in {from, to} /\ month \in {m} => IsOpenFor(db, req'[r], a, m)
    BY <1>3, <1>4, <1>12 DEF IsClosed, ReadMonth, IsOpenFor
  <2>2. \A a \in Account, m \in Month : ~(a \in {from, to} /\ month \in {m}) => Gain(db, x, a, {m}) = 0
    BY <1>8, <1>10
  <2> QED
    BY <2>1, <2>2
<1>14. DOMAIN x.touch = {}
  BY <1>5 DEF Nothing
<1>15. SoundTx(db, req'[r], x)
  BY <1>9, <1>11, <1>12, <1>13, <1>14, SimpleSound
<1> QED
  BY <1>4, <1>9, <1>15, SimpleTx, OnceAdmits

(* A transaction that posts and moves nothing.                             *)
PostsNothing(x) == x.touch = Nothing /\ x.make = <<>> /\ x.move = Nothing /\ x.wire = <<>> /\ x.unwire = Nothing

LEMMA NothingPosted ==
  ASSUME NEW d, NEW x, PostsNothing(x), NEW a \in Account
  PROVE  Effect(d, x, a) = 0 /\ \A months : Gain(d, x, a, months) = 0
<1>1. \A months : Gain(d, x, a, months) = 0
  BY NoGain DEF Gain, PostsNothing
<1>2. At(x.move, a) = 0
  BY MoveAt DEF PostsNothing
<1> QED
  BY <1>1, <1>2 DEF Effect

LEMMA MonthAdmits ==
  ASSUME TypeInv, NEW r \in Request, NEW op, op \notin {"idle", "matchLine", "unmatchLine"}, NEW on, NEW x,
         Once(r, op, on, x), PostsNothing(x), x.line = Nothing, x.shut \subseteq Account \X Month
  PROVE  Admits(r)
<1>1. IsSimple(db, x)
  BY DEF PostsNothing, IsSimple, Nothing
<1>2. req'[r].op = op
  BY OnceIs
<1>3. DOMAIN x.touch = {}
  BY DEF PostsNothing, Nothing
<1>4. SoundTx(db, req'[r], x)
  BY <1>1, <1>2, <1>3, NothingPosted, SimpleSound
<1> QED
  BY <1>1, <1>4, SimpleTx, OnceAdmits

LEMMA CloseStatementAdmits ==
  ASSUME TypeInv, NEW r \in Request, NEW a \in Account, NEW m \in Month, CloseStatement(r, a, m)
  PROVE  Admits(r)
<1>1. PICK x : x = [Tx EXCEPT !.shut = {<<a, m>>}]
  OBVIOUS
<1>2. Once(r, "closeStatement", {}, x)
  BY <1>1 DEF CloseStatement
<1>3. PostsNothing(x) /\ x.line = Nothing /\ x.shut \subseteq Account \X Month
  BY <1>1 DEF Tx, PostsNothing
<1> QED
  BY <1>2, <1>3, MonthAdmits

LEMMA ReopenStatementAdmits ==
  ASSUME TypeInv, NEW r \in Request, NEW a \in Account, NEW m \in Month, ReopenStatement(r, a, m)
  PROVE  Admits(r)
<1>1. PICK x : x = [Tx EXCEPT !.open = {<<a, m>>}]
  OBVIOUS
<1>2. Once(r, "reopenStatement", {}, x)
  BY <1>1 DEF ReopenStatement
<1>3. PostsNothing(x) /\ x.line = Nothing /\ x.shut \subseteq Account \X Month
  BY <1>1 DEF Tx, PostsNothing
<1> QED
  BY <1>2, <1>3, MonthAdmits

LEMMA LedgerAdmits ==
  ASSUME TypeInv, NEW r \in Request, LedgerNext(r)
  PROVE  Admits(r)
BY CreateEntryAdmits, UpdateEntryAdmits, PayAdmits, PartialPayAdmits, ReverseAdmits, CancelEntryAdmits,
   DeleteEntryAdmits, RenegotiateAdmits, PayPartAdmits, RebalanceAdmits, CreateTransferAdmits, CloseStatementAdmits,
   ReopenStatementAdmits
   DEF LedgerNext

----------------------------------------------------------------------------
(* The statement's lines *)

(* A line taken out of its match.                                          *)
UnmarkedLine(x, l) ==
  /\ DOMAIN x.line = {l} /\ x.shut = {} /\ PostsNothing(x)
  /\ x.line[l] = [status |-> "IGNORED"] \/ x.line[l] = [status |-> "UNMATCHED"]
     \/ x.line[l] = [status |-> "UNMATCHED", entry |-> 0]

LEMMA UnmarkedTx ==
  ASSUME NEW d, NEW x, NEW l \in Line, UnmarkedLine(x, l)
  PROVE  IsTx(d, x)
<1>1. IsLinePatch(DOMAIN x.touch, x.line[l])
  <2>1. PICK p : p = x.line[l]
    OBVIOUS
  <2>2. CASE p = [status |-> "IGNORED"]
    BY <2>1, <2>2 DEF IsLinePatch, LineStatus
  <2>3. CASE p = [status |-> "UNMATCHED"]
    BY <2>1, <2>3 DEF IsLinePatch, LineStatus
  <2>4. CASE p = [status |-> "UNMATCHED", entry |-> 0]
    BY <2>1, <2>4 DEF IsLinePatch, LineStatus
  <2> QED
    BY <2>1, <2>2, <2>3, <2>4 DEF UnmarkedLine
<1>2. DOMAIN Nothing = {}
  BY DEF Nothing
<1> QED
  BY <1>1, <1>2 DEF UnmarkedLine, PostsNothing, IsTx

LEMMA UnmarkedSound ==
  ASSUME NEW d, NEW x, NEW l \in Line, UnmarkedLine(x, l), NEW q,
         q.op \in {"matchLine", "unmatchLine"} => \E m \in Month : IsOpenFor(d, q, Bank, m)
  PROVE  SoundTx(d, q, x)
<1>1. DOMAIN x.touch = {} /\ DOMAIN x.unwire = {} /\ x.make = <<>> /\ x.wire = <<>> /\ x.shut = {}
  BY DEF UnmarkedLine, PostsNothing, Nothing
<1>2. x.line[l]["status"] # "MATCHED" /\ DOMAIN x.line = {l}
  BY DEF UnmarkedLine
<1>3. \A a \in Account : Effect(d, x, a) = 0 /\ \A months : Gain(d, x, a, months) = 0
  BY NothingPosted DEF UnmarkedLine
<1>4. Covered(q, x) /\ KeepsRows(d, x) /\ KeepsLines(d, q, x)
  BY <1>1, <1>2 DEF Covered, KeepsRows, KeepsLines
<1>5. \A m \in Month : InMonth(d, x, m)
  BY <1>1 DEF InMonth
<1>6. KeepsMonths(d, q, x) /\ KeepsBank(d, q, x) /\ KeepsBalance(d, q, x)
  BY <1>3, <1>5 DEF KeepsMonths, KeepsBank, KeepsBalance
<1> QED
  BY <1>4, <1>6 DEF SoundTx

LEMMA UnmarkedAdmits ==
  ASSUME TypeInv, NEW r \in Request, NEW l \in Line, NEW op \in {"ignoreLine", "unignoreLine"}, NEW on, NEW p,
         NEW x, Once(r, op, on, x), x = [Tx EXCEPT !.line = [k \in {l} |-> p]],
         p = [status |-> "IGNORED"] \/ p = [status |-> "UNMATCHED"]
  PROVE  Admits(r)
<1>1. DOMAIN x.line = {l} /\ x.line[l] = p /\ x.shut = {} /\ PostsNothing(x)
  BY DEF Tx, PostsNothing
<1>2. UnmarkedLine(x, l)
  BY <1>1 DEF UnmarkedLine
<1>3. req'[r].op = op
  BY OnceIs
<1> QED
  BY <1>2, <1>3, UnmarkedTx, UnmarkedSound, OnceAdmits

LEMMA IgnoreLineAdmits ==
  ASSUME TypeInv, NEW r \in Request, NEW l \in Line, IgnoreLine(r, l)
  PROVE  Admits(r)
BY UnmarkedAdmits DEF IgnoreLine

LEMMA UnignoreLineAdmits ==
  ASSUME TypeInv, NEW r \in Request, NEW l \in Line, UnignoreLine(r, l)
  PROVE  Admits(r)
BY UnmarkedAdmits DEF UnignoreLine

(* A match: the entry's row, perhaps a tax and a transfer, all of the      *)
(* line's month.                                                           *)
IsMatch(d, x, l, i, p) ==
  /\ i \in DOMAIN d.entries /\ IsPatch(d.entries[i].cut, p) /\ "gross" \notin DOMAIN p /\ x.touch = Touch(i, p)
  /\ x.make = <<>> \/ \E t : GoodEntry(t) /\ Regular(t) /\ t.month = LineMonth[l] /\ x.make = <<t>>
  /\ DOMAIN x.move \subseteq Account /\ \A a \in DOMAIN x.move : x.move[a] \in Int
  /\ x.wire = <<>> \/ \E w : GoodWire(w) /\ w.live /\ w.month = LineMonth[l] /\ x.wire = <<w>>
  /\ x.unwire = Nothing /\ x.shut = {}

LEMMA MatchTx ==
  ASSUME NEW d, IsDatabase(d), NEW x, NEW l \in Line, NEW i, NEW p, IsMatch(d, x, l, i, p),
         DOMAIN x.line = {l}, x.line[l] = [status |-> "MATCHED", entry |-> i]
  PROVE  IsTx(d, x)
<1>1. x.touch = Touch(i, p) /\ i \in DOMAIN d.entries /\ IsPatch(d.entries[i].cut, p)
  BY DEF IsMatch
<1>2. DOMAIN x.touch = {i} /\ x.touch[i] = p
  BY ONLY <1>1, TouchIs
<1>3. i \in Nat
  BY <1>1 DEF IsDatabase
<1>4. IsLinePatch(DOMAIN x.touch, x.line[l])
  <2>1. PICK lp : lp = x.line[l]
    OBVIOUS
  <2>2. DOMAIN lp = {"status", "entry"} /\ lp["status"] = "MATCHED" /\ lp["entry"] = i
    BY <2>1
  <2> QED
    BY <1>2, <1>3, <2>1, <2>2 DEF IsLinePatch, LineStatus
<1>5. DOMAIN Nothing = {}
  BY DEF Nothing
<1>6. x.make = <<>> \/ \E t : GoodEntry(t) /\ Regular(t) /\ x.make = <<t>>
  BY DEF IsMatch
<1>7. x.wire = <<>> \/ \E w : GoodWire(w) /\ w.live /\ x.wire = <<w>>
  BY DEF IsMatch
<1>8. DOMAIN x.move \subseteq Account \cup {NoAccount} /\ \A a \in DOMAIN x.move : x.move[a] \in Int
  BY DEF IsMatch
<1>9. x.unwire = Nothing /\ x.shut = {}
  BY DEF IsMatch
<1> QED
  BY <1>1, <1>2, <1>4, <1>5, <1>6, <1>7, <1>8, <1>9 DEF IsTx

LEMMA MatchSound ==
  ASSUME NEW d, IsDatabase(d), NEW x, NEW l \in Line, NEW i, NEW p, IsMatch(d, x, l, i, p),
         DOMAIN x.line = {l}, x.line[l] = [status |-> "MATCHED", entry |-> i],
         Regular(Patched(d.entries[i], p)), \A a \in Account : Effect(d, x, a) = 0,
         NEW q, q.op = "matchLine", <<"entry", i>> \in q.on, IsOpenFor(d, q, Bank, LineMonth[l]),
         \A k \in Line \ {l} : ~(d.lines[k].status = "MATCHED" /\ d.lines[k].entry = i)
  PROVE  SoundTx(d, q, x)
<1>1. x.touch = Touch(i, p) /\ "gross" \notin DOMAIN p /\ x.unwire = Nothing /\ x.shut = {}
  BY DEF IsMatch
<1>2. DOMAIN x.touch = {i} /\ x.touch[i] = p
  BY ONLY <1>1, TouchIs
<1>3. DOMAIN x.unwire = {}
  BY <1>1 DEF Nothing
<1>4. Covered(q, x) /\ KeepsRows(d, x)
  BY <1>2, <1>3 DEF Covered, KeepsRows
<1>5. KeepsLines(d, q, x)
  <2>1. x.line[l]["entry"] = i
    OBVIOUS
  <2> QED
    BY <2>1 DEF KeepsLines
<1>6. InMonth(d, x, LineMonth[l])
  <2>1. x.wire = <<>> \/ x.wire[1].month = LineMonth[l]
    BY DEF IsMatch
  <2>2. x.make = <<>> \/ x.make[1].month = LineMonth[l]
    BY DEF IsMatch
  <2> QED
    BY <1>1, <1>2, <1>3, <2>1, <2>2 DEF InMonth
<1>7. LineMonth[l] \in Month
  BY LineAssumption
<1>8. KeepsMonths(d, q, x) /\ KeepsBank(d, q, x) /\ KeepsBalance(d, q, x)
  BY <1>6, <1>7 DEF KeepsMonths, Unchecked, KeepsBank, KeepsBalance
<1> QED
  BY <1>4, <1>5, <1>8 DEF SoundTx

LEMMA LineIs ==
  ASSUME NEW l \in Line
  PROVE  /\ LineMonth[l] \in Month /\ LineAmount[l] \in Int
         /\ Magnitude(l) \in Nat \ {0} /\ Magnitude(l) \in Int
         /\ IsCredit(l) => LineAmount[l] = Magnitude(l)
         /\ ~IsCredit(l) => LineAmount[l] = -Magnitude(l)
<1>1. LineMonth[l] \in Month /\ LineAmount[l] \in Int \ {0}
  BY LineAssumption
<1> QED
  BY <1>1 DEF Magnitude, IsCredit

LEMMA SourceIs ==
  ASSUME TypeInv, NEW i \in DOMAIN db.entries, NEW e, e = db.entries[i], NEW s, s = Source(e)
  PROVE  s # NoAccount => s \in Account \ {Bank}
<1>1. e.account \in Account \cup {NoAccount}
  BY RowOf
<1> QED
  BY <1>1, AccountAssumption DEF Source, TypeInv

LEMMA TransferredIs ==
  ASSUME NEW l \in Line, NEW s \in Account \ {Bank}, NEW w, w = Transferred(l, s)
  PROVE  /\ GoodWire(w) /\ w.live /\ w.month = LineMonth[l] /\ w.month \in Month
         /\ w.from \in Account /\ w.to \in Account /\ w.amount \in Int
<1>1. Bank \in Account /\ l \in Line \cup {NoLine} /\ LineMonth[l] \in Month /\ Magnitude(l) \in Nat \ {0}
  BY AccountAssumption, LineIs
<1>2. CASE IsCredit(l)
  <2>1. w = Wire(s, Bank, Magnitude(l), LineMonth[l], l)
    BY <1>2 DEF Transferred
  <2>2. /\ GoodWire(w) /\ w.live /\ w.from = s /\ w.to = Bank /\ w.amount = Magnitude(l)
        /\ w.month = LineMonth[l]
    BY <1>1, <2>1, WireColumns
  <2> QED
    BY <1>1, <2>2
<1>3. CASE ~IsCredit(l)
  <2>1. w = Wire(Bank, s, Magnitude(l), LineMonth[l], l)
    BY <1>3 DEF Transferred
  <2>2. /\ GoodWire(w) /\ w.live /\ w.from = Bank /\ w.to = s /\ w.amount = Magnitude(l)
        /\ w.month = LineMonth[l]
    BY <1>1, <2>1, WireColumns
  <2> QED
    BY <1>1, <2>2
<1> QED
  BY <1>2, <1>3

PlusIs(m, n) ==
  /\ DOMAIN Plus(m, n) \subseteq Account
  /\ \A a \in DOMAIN Plus(m, n) : Plus(m, n)[a] \in Int
  /\ \A a \in Account : At(Plus(m, n), a) = At(m, a) + At(n, a) /\ At(m, a) \in Int /\ At(n, a) \in Int

LEMMA PlusTyped ==
  ASSUME NEW m, DOMAIN m \subseteq Account, \A a \in DOMAIN m : m[a] \in Int,
         NEW n, DOMAIN n \subseteq Account, \A a \in DOMAIN n : n[a] \in Int
  PROVE  PlusIs(m, n)
<1>1. PICK s : s = Plus(m, n)
  OBVIOUS
<1>2. DOMAIN s = DOMAIN m \cup DOMAIN n /\ \A a \in DOMAIN m \cup DOMAIN n : s[a] = At(m, a) + At(n, a)
  BY <1>1 DEF Plus
<1>3. \A a : At(m, a) \in Int /\ At(n, a) \in Int
  BY DEF At
<1>4. \A a : a \notin DOMAIN m \cup DOMAIN n => At(m, a) = 0 /\ At(n, a) = 0
  BY DEF At
<1>5. \A a : At(s, a) = IF a \in DOMAIN s THEN s[a] ELSE 0
  BY DEF At
<1>6. \A a \in Account : At(s, a) = At(m, a) + At(n, a)
  BY <1>2, <1>3, <1>4, <1>5
<1>7. DOMAIN s \subseteq Account /\ \A a \in DOMAIN s : s[a] \in Int
  BY <1>2, <1>3
<1> QED
  BY <1>1, <1>3, <1>6, <1>7 DEF PlusIs

(* The row of a fee, and what it is worth.                                 *)
MadeTax(x, l) == x.make = <<>> \/ \E t : GoodEntry(t) /\ Regular(t) /\ t.month = LineMonth[l] /\ x.make = <<t>>
TaxGain(x, s, fee) == \A a \in Account : MadeGain(x, a, Month) = IF s = a THEN -fee ELSE 0
TaxKept(x) == IF x.make = <<>> THEN 0 ELSE x.make[1].net

LEMMA TaxMade ==
  ASSUME NEW l \in Line, NEW s \in Account, NEW fee \in Int, NEW x, x.make = Tax(l, s, fee)
  PROVE  MadeTax(x, l) /\ TaxGain(x, s, fee) /\ TaxKept(x) = fee
<1>1. CASE fee = 0
  <2>1. x.make = <<>>
    BY <1>1 DEF Tax
  <2>2. MadeTax(x, l) /\ TaxKept(x) = fee
    BY <1>1, <2>1 DEF MadeTax, TaxKept
  <2>3. TaxGain(x, s, fee)
    BY <1>1, <2>1, NoGain DEF TaxGain
  <2> QED
    BY <2>2, <2>3
<1>2. CASE fee # 0
  <2>1. PICK t : t = TaxEntry(l, s, fee)
    OBVIOUS
  <2>2. /\ GoodEntry(t) /\ Regular(t) /\ t.type = "PAYABLE" /\ t.status = "PAID" /\ t.account = s
        /\ t.month = LineMonth[l] /\ t.live /\ t.net = fee
    BY <2>1, TaxRow
  <2>3. x.make = <<t>>
    BY <1>2, <2>1 DEF Tax, TaxEntry
  <2>4. Signed(t) = -fee
    BY <2>2 DEF Signed, Sign
  <2>5. LineMonth[l] \in Month
    BY LineIs
  <2>6. TaxGain(x, s, fee)
    BY <2>2, <2>3, <2>4, <2>5, MadeGainIs, WorthOfPaid DEF TaxGain
  <2>7. <<t>> # <<>> /\ <<t>>[1] = t
    OBVIOUS
  <2>8. MadeTax(x, l) /\ TaxKept(x) = fee
    BY <2>2, <2>3, <2>7 DEF MadeTax, TaxKept
  <2> QED
    BY <2>6, <2>8
<1> QED
  BY <1>1, <1>2

(* What a match posts: the row of the entry, the tax, the transfer.        *)
MatchPosts(d, x, e, n, s, fee) ==
  \A a \in Account : WireGain(x, a, Month) \in Int =>
    Gain(d, x, a, Month) = (Worth(n, a, Month) - Worth(e, a, Month)) + (IF s = a THEN -fee ELSE 0) + WireGain(x, a, Month)

LEMMA MatchGain ==
  ASSUME NEW d, NEW x, NEW i, NEW p, x.touch = Touch(i, p), x.unwire = Nothing,
         NEW e, e = d.entries[i], GoodEntry(e), NEW n, n = Patched(e, p), GoodEntry(n),
         NEW s \in Account, NEW fee \in Int, TaxGain(x, s, fee)
  PROVE  MatchPosts(d, x, e, n, s, fee)
<1> SUFFICES ASSUME NEW a \in Account, WireGain(x, a, Month) \in Int
             PROVE  Gain(d, x, a, Month) = (Worth(n, a, Month) - Worth(e, a, Month)) + (IF s = a THEN -fee ELSE 0)
                                         + WireGain(x, a, Month)
  BY DEF MatchPosts
<1>1. Worth(n, a, Month) \in Int /\ Worth(e, a, Month) \in Int
  BY WorthInt
<1>2. PatchGain(d, x, a, Month) = Worth(n, a, Month) - Worth(e, a, Month)
  BY PatchGainIs
<1>3. MadeGain(x, a, Month) = IF s = a THEN -fee ELSE 0
  BY DEF TaxGain
<1>4. UnwireGain(d, x, a, Month) = 0
  BY NoGain
<1> QED
  BY <1>1, <1>2, <1>3, <1>4 DEF Gain

(* The line's transfer, in a transaction that also moves "cents" in s.     *)
WiredMove(x, s, cents, w) ==
  /\ x.wire = <<w>>
  /\ x.move = Plus(Move(s, cents), Carry(w.from, w.to, w.amount))
     \/ x.move = Plus(Carry(w.from, w.to, w.amount), Move(s, cents))

WiredEffect(x, s, cents, a) ==
  At(x.move, a) = (IF s = a THEN cents ELSE 0) + WireGain(x, a, Month) /\ WireGain(x, a, Month) \in Int

LEMMA WiredMoves ==
  ASSUME NEW l \in Line, NEW s \in Account \ {Bank}, NEW w, w = Transferred(l, s), NEW cents \in Int,
         NEW x, WiredMove(x, s, cents, w)
  PROVE  /\ DOMAIN x.move \subseteq Account /\ \A a \in DOMAIN x.move : x.move[a] \in Int
         /\ \E v : GoodWire(v) /\ v.live /\ v.month = LineMonth[l] /\ x.wire = <<v>>
         /\ \A a \in Account : WiredEffect(x, s, cents, a)
<1>1. /\ GoodWire(w) /\ w.live /\ w.month = LineMonth[l] /\ w.month \in Month
      /\ w.from \in Account /\ w.to \in Account /\ w.amount \in Int
  BY TransferredIs
<1>2. PICK m : m = Move(s, cents)
  OBVIOUS
<1>3. PICK c : c = Carry(w.from, w.to, w.amount)
  OBVIOUS
<1>4. DOMAIN m \subseteq Account /\ \A a \in DOMAIN m : m[a] \in Int
  BY <1>2, MoveTyped
<1>5. DOMAIN c \subseteq Account /\ \A a \in DOMAIN c : c[a] \in Int
  BY <1>1, <1>3, CarryTyped DEF CarryIs
<1>6. PlusIs(m, c) /\ PlusIs(c, m)
  BY <1>4, <1>5, PlusTyped
<1>7. x.move = Plus(m, c) \/ x.move = Plus(c, m)
  BY <1>2, <1>3 DEF WiredMove
<1>8. \A a \in Account : At(x.move, a) = At(m, a) + At(c, a) /\ At(m, a) \in Int /\ At(c, a) \in Int
  <2>1. CASE x.move = Plus(m, c)
    BY <1>6, <2>1 DEF PlusIs
  <2>2. CASE x.move = Plus(c, m)
    BY <1>6, <2>2 DEF PlusIs
  <2> QED
    BY <1>7, <2>1, <2>2
<1>9. DOMAIN x.move \subseteq Account /\ \A a \in DOMAIN x.move : x.move[a] \in Int
  <2>1. CASE x.move = Plus(m, c)
    BY <1>6, <2>1 DEF PlusIs
  <2>2. CASE x.move = Plus(c, m)
    BY <1>6, <2>2 DEF PlusIs
  <2> QED
    BY <1>7, <2>1, <2>2
<1>10. x.wire = <<w>>
  BY DEF WiredMove
<1>11. \A a \in Account : WireGain(x, a, Month) = At(c, a)
  BY <1>1, <1>3, <1>10, WireGainIs, WireWorth
<1>12. \A a \in Account : At(m, a) = IF s = a THEN cents ELSE 0
  BY <1>2, MoveAt
<1> QED
  BY <1>1, <1>8, <1>9, <1>10, <1>11, <1>12 DEF WiredEffect

(* The line, and the rest of a match.                                      *)
Line1(x, l, i) == DOMAIN x.line = {l} /\ x.line[l] = [status |-> "MATCHED", entry |-> i]

LEMMA MatchAdmits ==
  ASSUME TypeInv, NEW r \in Request, NEW l \in Line, NEW i, NEW p, NEW x,
         Once(r, "matchLine", ReadLine(l) \cup ReadEntry(i), x), IsMatch(db, x, l, i, p), Line1(x, l, i),
         ~IsClosed(Bank, LineMonth[l]), ~MatchedElsewhere(l, i),
         Clean /\ Slip(r) = {} => Regular(Patched(db.entries[i], p)) /\ \A a \in Account : Effect(db, x, a) = 0
  PROVE  Admits(r)
<1>1. PICK q : q = req'[r]
  OBVIOUS
<1>2. q.op = "matchLine" /\ q.on = ReadLine(l) \cup ReadEntry(i)
  BY <1>1, OnceIs
<1>3. <<"entry", i>> \in q.on /\ IsOpenFor(db, q, Bank, LineMonth[l])
  BY <1>2 DEF ReadLine, ReadEntry, ReadMonth, IsClosed, IsOpenFor
<1>4. \A k \in Line \ {l} : ~(db.lines[k].status = "MATCHED" /\ db.lines[k].entry = i)
  BY DEF MatchedElsewhere
<1>5. IsDatabase(db) /\ DOMAIN x.line = {l} /\ x.line[l] = [status |-> "MATCHED", entry |-> i]
  BY DEF TypeInv, Line1
<1>6. ASSUME Regular(Patched(db.entries[i], p)), \A a \in Account : Effect(db, x, a) = 0
      PROVE  SoundTx(db, q, x)
  BY <1>2, <1>3, <1>4, <1>5, <1>6, MatchSound
<1>7. IsTx(db, x)
  BY <1>5, MatchTx
<1> QED
  BY <1>1, <1>6, <1>7, OnceAdmits

(* The four ways of a match.                                               *)
LEMMA OpenWired ==
  ASSUME TypeInv, NEW l \in Line, NEW i \in DOMAIN db.entries, NEW e, e = db.entries[i], e.live, e.status = "PENDING",
         NEW s \in Account \ {Bank}, NEW fee \in Int, NEW p,
         p = [status |-> "PAID", month |-> LineMonth[l], auto |-> TRUE, account |-> s, by |-> "match"],
         NEW w, w = Transferred(l, s), NEW x, x.touch = Touch(i, p), x.make = Tax(l, s, fee),
         WiredMove(x, s, Sign(e) * e.gross - fee, w), x.unwire = Nothing, x.shut = {}
  PROVE  /\ IsMatch(db, x, l, i, p) /\ Regular(Patched(e, p))
         /\ e.gross = e.net => \A a \in Account : Effect(db, x, a) = 0
<1>1. GoodEntry(e) /\ e.gross \in Int /\ e.net \in Int /\ e.type \in {"RECEIVABLE", "PAYABLE"}
  BY RowOf
<1>2. LineMonth[l] \in Month
  BY LineIs
<1>3. PICK n : n = Patched(e, p)
  OBVIOUS
<1>4. /\ IsPatch(e.cut, p) /\ "gross" \notin DOMAIN p /\ Regular(n)
      /\ n.type = e.type /\ n.net = e.net /\ n.status = "PAID" /\ n.account = s /\ n.month = LineMonth[l] /\ n.live
  BY <1>1, <1>2, <1>3, PaidPatch
<1>5. PICK cents : cents = Sign(e) * e.gross - fee
  OBVIOUS
<1>6. cents \in Int
  BY <1>1, <1>5 DEF Sign
<1>7. WiredMove(x, s, cents, w)
  BY <1>5
<1>8. /\ DOMAIN x.move \subseteq Account /\ \A a \in DOMAIN x.move : x.move[a] \in Int
      /\ \E v : GoodWire(v) /\ v.live /\ v.month = LineMonth[l] /\ x.wire = <<v>>
      /\ \A a \in Account : WiredEffect(x, s, cents, a)
  BY <1>6, <1>7, WiredMoves
<1>9. MadeTax(x, l) /\ TaxGain(x, s, fee)
  BY TaxMade
<1>10. IsMatch(db, x, l, i, p)
  BY <1>4, <1>8, <1>9 DEF IsMatch, MadeTax
<1>11. ASSUME e.gross = e.net, NEW a \in Account PROVE Effect(db, x, a) = 0
  <2>1. GoodEntry(n)
    BY <1>1, <1>3, <1>4, PatchedEntry
  <2>2. At(x.move, a) = (IF s = a THEN cents ELSE 0) + WireGain(x, a, Month) /\ WireGain(x, a, Month) \in Int
    BY <1>8 DEF WiredEffect
  <2>m. MatchPosts(db, x, e, n, s, fee)
    BY <1>1, <1>3, <1>9, <2>1, MatchGain
  <2>3. Gain(db, x, a, Month)
          = (Worth(n, a, Month) - Worth(e, a, Month)) + (IF s = a THEN -fee ELSE 0) + WireGain(x, a, Month)
    BY <2>2, <2>m DEF MatchPosts
  <2>4. Signed(n) = Signed(e) /\ Signed(e) \in Int /\ cents = Signed(e) - fee
    BY <1>1, <1>4, <1>5, <1>11, SignedInt DEF Signed, Sign
  <2>5. Worth(e, a, Month) = 0 /\ Worth(n, a, Month) = IF s = a THEN Signed(e) ELSE 0
    BY <1>2, <1>4, <2>4, WorthZero, WorthOfPaid
  <2> QED
    BY <2>2, <2>3, <2>4, <2>5 DEF Effect
<1> QED
  BY <1>3, <1>4, <1>10, <1>11

LEMMA OpenLegacy ==
  ASSUME TypeInv, NEW l \in Line, NEW i \in DOMAIN db.entries, NEW e, e = db.entries[i], e.live, e.status = "PENDING",
         NEW fee \in Int, NEW p,
         p = [status |-> "PAID", month |-> LineMonth[l], auto |-> TRUE, account |-> Bank, by |-> "match"],
         NEW x, x.touch = Touch(i, p), x.make = Tax(l, Bank, fee), x.move = Move(Bank, LineAmount[l]),
         x.wire = <<>>, x.unwire = Nothing, x.shut = {}
  PROVE  /\ IsMatch(db, x, l, i, p) /\ Regular(Patched(e, p))
         /\ ~Differs(l, i, TaxKept(x)) => \A a \in Account : Effect(db, x, a) = 0
<1>1. GoodEntry(e) /\ e.gross \in Int /\ e.net \in Int /\ e.type \in {"RECEIVABLE", "PAYABLE"}
  BY RowOf
<1>2. LineMonth[l] \in Month /\ LineAmount[l] \in Int /\ Bank \in Account
  BY LineIs, AccountAssumption
<1>3. PICK n : n = Patched(e, p)
  OBVIOUS
<1>4. /\ IsPatch(e.cut, p) /\ "gross" \notin DOMAIN p /\ Regular(n)
      /\ n.type = e.type /\ n.net = e.net /\ n.status = "PAID" /\ n.account = Bank /\ n.month = LineMonth[l] /\ n.live
  BY <1>1, <1>2, <1>3, PaidPatch
<1>5. DOMAIN x.move \subseteq Account /\ \A a \in DOMAIN x.move : x.move[a] \in Int
  BY <1>2, MoveTyped
<1>6. MadeTax(x, l) /\ TaxGain(x, Bank, fee) /\ TaxKept(x) = fee
  BY <1>2, TaxMade
<1>7. IsMatch(db, x, l, i, p)
  BY <1>4, <1>5, <1>6 DEF IsMatch, MadeTax
<1>8. ASSUME ~Differs(l, i, TaxKept(x)), NEW a \in Account
      PROVE  Effect(db, x, a) = 0
  <2>1. GoodEntry(n)
    BY <1>1, <1>3, <1>4, PatchedEntry
  <2>2. WireGain(x, a, Month) = 0
    BY NoGain
  <2>m. MatchPosts(db, x, e, n, Bank, fee)
    BY <1>1, <1>2, <1>3, <1>6, <2>1, MatchGain
  <2>3. Gain(db, x, a, Month)
          = (Worth(n, a, Month) - Worth(e, a, Month)) + (IF Bank = a THEN -fee ELSE 0) + WireGain(x, a, Month)
    BY <2>2, <2>m DEF MatchPosts
  <2>4. Signed(n) = Signed(e) /\ Signed(e) \in Int
    BY <1>1, <1>4, SignedInt DEF Signed, Sign
  <2>5. LineAmount[l] = Signed(e) - fee
    BY <1>6, <1>8 DEF Differs
  <2>6. Worth(e, a, Month) = 0 /\ Worth(n, a, Month) = IF Bank = a THEN Signed(e) ELSE 0
    BY <1>2, <1>4, <2>4, WorthZero, WorthOfPaid
  <2>7. At(x.move, a) = IF Bank = a THEN LineAmount[l] ELSE 0
    BY MoveAt
  <2> QED
    BY <2>2, <2>3, <2>4, <2>5, <2>6, <2>7 DEF Effect
<1> QED
  BY <1>3, <1>4, <1>7, <1>8

(* A paid entry only takes the line's date.                                *)
LEMMA DatedColumns ==
  ASSUME NEW e, GoodEntry(e), NEW m \in Month, NEW p, p = [month |-> m], IsPatch(e.cut, p), NEW n, n = Patched(e, p)
  PROVE  /\ GoodEntry(n) /\ n.type = e.type /\ n.status = e.status /\ n.net = e.net /\ n.account = e.account
         /\ n.month = m /\ n.live = e.live
BY PatchedColumns

LEMMA Dated ==
  ASSUME TypeInv, NEW l \in Line, NEW i \in DOMAIN db.entries, NEW e, e = db.entries[i], e.live, e.status = "PAID",
         NEW p, p = [month |-> LineMonth[l]], NEW n, n = Patched(e, p)
  PROVE  /\ GoodEntry(n) /\ IsPatch(e.cut, p) /\ "gross" \notin DOMAIN p /\ (Regular(e) => Regular(n))
         /\ \A a \in Account : Worth(n, a, Month) = Worth(e, a, Month) /\ Worth(e, a, Month) \in Int
<1>1. GoodEntry(e) /\ e.month \in Month
  BY RowOf
<1>2. LineMonth[l] \in Month
  BY LineIs
<1>3. IsPatch(e.cut, p) /\ "gross" \notin DOMAIN p /\ (Regular(e) => Regular(n))
  BY <1>1, <1>2, MovedPatch
<1>5. /\ GoodEntry(n) /\ n.type = e.type /\ n.status = e.status /\ n.net = e.net /\ n.account = e.account
      /\ n.month = LineMonth[l] /\ n.live = e.live
  <2>1. PICK m : m = LineMonth[l]
    OBVIOUS
  <2>2. m \in Month /\ p = [month |-> m] /\ GoodEntry(e) /\ IsPatch(e.cut, p) /\ n = Patched(e, p)
    BY <1>1, <1>2, <1>3, <2>1
  <2> QED
    BY ONLY <2>1, <2>2, DatedColumns
<1>6. Signed(n) = Signed(e)
  BY <1>5 DEF Signed, Sign
<1>7. \A a \in Account : /\ Worth(e, a, Month) = IF e.account = a THEN Signed(e) ELSE 0
                         /\ Worth(n, a, Month) = IF e.account = a THEN Signed(e) ELSE 0
  <2>1. \A a \in Account : Worth(e, a, Month) = IF e.account = a THEN Signed(e) ELSE 0
    BY <1>1, WorthOfPaid
  <2>2. n.status = "PAID" /\ n.live /\ n.month \in Month /\ n.account = e.account
    BY <1>2, <1>5
  <2>3. \A a \in Account : Worth(n, a, Month) = IF n.account = a THEN Signed(n) ELSE 0
    BY <2>2, WorthOfPaid
  <2> QED
    BY <1>6, <2>1, <2>2, <2>3
<1>8. \A a \in Account : Worth(e, a, Month) \in Int
  BY <1>1, WorthInt
<1> QED
  BY <1>3, <1>5, <1>7, <1>8

LEMMA PaidWired ==
  ASSUME TypeInv, NEW l \in Line, NEW i \in DOMAIN db.entries, NEW e, e = db.entries[i], e.live, e.status = "PAID",
         NEW s \in Account \ {Bank}, NEW fee \in Int, NEW p, p = [month |-> LineMonth[l]],
         NEW w, w = Transferred(l, s), NEW x, x.touch = Touch(i, p), x.make = Tax(l, s, fee),
         WiredMove(x, s, -fee, w), x.unwire = Nothing, x.shut = {}
  PROVE  /\ IsMatch(db, x, l, i, p) /\ (Regular(e) => Regular(Patched(e, p)))
         /\ \A a \in Account : Effect(db, x, a) = 0
<1>1. PICK n : n = Patched(e, p)
  OBVIOUS
<1>2. /\ GoodEntry(n) /\ IsPatch(e.cut, p) /\ "gross" \notin DOMAIN p /\ (Regular(e) => Regular(n))
      /\ \A a \in Account : Worth(n, a, Month) = Worth(e, a, Month) /\ Worth(e, a, Month) \in Int
  BY <1>1, Dated
<1>3. PICK cents : cents = -fee
  OBVIOUS
<1>4. cents \in Int /\ WiredMove(x, s, cents, w)
  BY <1>3
<1>5. /\ DOMAIN x.move \subseteq Account /\ \A a \in DOMAIN x.move : x.move[a] \in Int
      /\ \E v : GoodWire(v) /\ v.live /\ v.month = LineMonth[l] /\ x.wire = <<v>>
      /\ \A a \in Account : WiredEffect(x, s, cents, a)
  BY <1>4, WiredMoves
<1>6. MadeTax(x, l) /\ TaxGain(x, s, fee)
  BY TaxMade
<1>7. IsMatch(db, x, l, i, p)
  BY <1>2, <1>5, <1>6 DEF IsMatch, MadeTax
<1>8. ASSUME NEW a \in Account PROVE Effect(db, x, a) = 0
  <2>1. At(x.move, a) = (IF s = a THEN cents ELSE 0) + WireGain(x, a, Month) /\ WireGain(x, a, Month) \in Int
    BY <1>5 DEF WiredEffect
  <2>2. GoodEntry(e)
    BY RowOf
  <2>m. MatchPosts(db, x, e, n, s, fee)
    BY <1>1, <1>2, <1>6, <2>2, MatchGain
  <2>3. Gain(db, x, a, Month)
          = (Worth(n, a, Month) - Worth(e, a, Month)) + (IF s = a THEN -fee ELSE 0) + WireGain(x, a, Month)
    BY <2>1, <2>m DEF MatchPosts
  <2>4. Worth(n, a, Month) = Worth(e, a, Month) /\ Worth(e, a, Month) \in Int
    BY <1>2
  <2> QED
    BY <1>3, <2>1, <2>3, <2>4 DEF Effect
<1> QED
  BY <1>1, <1>2, <1>7, <1>8

LEMMA PaidHere ==
  ASSUME TypeInv, NEW l \in Line, NEW i \in DOMAIN db.entries, NEW e, e = db.entries[i], e.live, e.status = "PAID",
         NEW p, p = [month |-> LineMonth[l]], NEW x, x.touch = Touch(i, p), x.make = <<>>,
         x.move = Nothing, x.wire = <<>>, x.unwire = Nothing, x.shut = {}
  PROVE  /\ IsMatch(db, x, l, i, p) /\ (Regular(e) => Regular(Patched(e, p)))
         /\ \A a \in Account : Effect(db, x, a) = 0
<1>1. PICK n : n = Patched(e, p)
  OBVIOUS
<1>2. /\ GoodEntry(n) /\ IsPatch(e.cut, p) /\ "gross" \notin DOMAIN p /\ (Regular(e) => Regular(n))
      /\ \A a \in Account : Worth(n, a, Month) = Worth(e, a, Month) /\ Worth(e, a, Month) \in Int
  BY <1>1, Dated
<1>3. IsMatch(db, x, l, i, p)
  BY <1>2 DEF IsMatch, Nothing
<1>4. ASSUME NEW a \in Account PROVE Effect(db, x, a) = 0
  <2>1. GoodEntry(e)
    BY RowOf
  <2>m. ChangesBy(db, x, e, n)
    BY <1>1, <1>2, <2>1, TouchGain
  <2>2. Gain(db, x, a, Month) = Worth(n, a, Month) - Worth(e, a, Month)
    BY <2>m DEF ChangesBy
  <2>3. At(x.move, a) = 0
    BY MoveAt
  <2>4. Worth(n, a, Month) = Worth(e, a, Month) /\ Worth(e, a, Month) \in Int
    BY <1>2
  <2> QED
    BY <2>2, <2>3, <2>4 DEF Effect
<1> QED
  BY <1>1, <1>2, <1>3, <1>4

MatchedLine(l, i) == [k \in {l} |-> [status |-> "MATCHED", entry |-> i]]

LEMMA MatchedLineIs ==
  ASSUME NEW l, NEW i, NEW x, x.line = MatchedLine(l, i)
  PROVE  Line1(x, l, i)
BY DEF MatchedLine, Line1

LEMMA MatchOpenAdmits ==
  ASSUME TypeInv, NEW r \in Request, NEW l \in Line, NEW i \in DOMAIN db.entries, NEW tax \in Int,
         IsOpen(db.entries[i]), MatchLine(r, l, i, tax)
  PROVE  Admits(r)
<1>1. PICK e : e = db.entries[i]
  OBVIOUS
<1>2. PICK s : s = Source(e)
  OBVIOUS
<1>3. PICK fee : fee = IF e.type = "RECEIVABLE" /\ IsCredit(l) THEN tax ELSE 0
  OBVIOUS
<1>4. PICK w : w = Transferred(l, s)
  OBVIOUS
<1>5. PICK b : b = MatchOpen(l, i, tax)
  OBVIOUS
<1>6. PICK x : x = [b EXCEPT !.line = MatchedLine(l, i)]
  OBVIOUS
<1>7. /\ Once(r, "matchLine", ReadLine(l) \cup ReadEntry(i), x)
      /\ ~IsClosed(Bank, LineMonth[l]) /\ e.live /\ e.status = "PENDING" /\ ~MatchedElsewhere(l, i)
  BY <1>1, <1>5, <1>6 DEF MatchLine, MatchedLine, IsOpen
<1>8. fee \in Int
  BY <1>3
<1>9. First(r) = x /\ Begins(r, "matchLine")
  BY <1>7, OnceIs
<1>10. CASE s # NoAccount
  <2>1. s \in Account \ {Bank}
    BY <1>1, <1>2, <1>10, SourceIs
  <2>2. PICK p : p = [status |-> "PAID", month |-> LineMonth[l], auto |-> TRUE, account |-> s, by |-> "match"]
    OBVIOUS
  <2>3. PICK t : t = Touch(i, p)
    OBVIOUS
  <2>4. PICK m : m = Plus(Move(s, Sign(e) * e.gross - fee), Carry(w.from, w.to, w.amount))
    OBVIOUS
  <2>5. PICK k : k = Tax(l, s, fee)
    OBVIOUS
  <2>6. b = [Tx EXCEPT !.touch = t, !.wire = <<w>>, !.make = k, !.move = m]
    BY <1>1, <1>2, <1>3, <1>4, <1>5, <1>10, <2>2, <2>3, <2>4, <2>5 DEF MatchOpen
  <2>7. /\ x.touch = Touch(i, p) /\ x.make = Tax(l, s, fee) /\ x.wire = <<w>> /\ x.unwire = Nothing /\ x.shut = {}
        /\ x.move = m /\ x.line = MatchedLine(l, i)
    BY <1>6, <2>3, <2>5, <2>6 DEF Tx
  <2>8. WiredMove(x, s, Sign(e) * e.gross - fee, w)
    BY <2>4, <2>7 DEF WiredMove
  <2>9. /\ IsMatch(db, x, l, i, p) /\ Regular(Patched(e, p))
        /\ e.gross = e.net => \A a \in Account : Effect(db, x, a) = 0
    BY <1>1, <1>4, <1>7, <1>8, <2>1, <2>2, <2>7, <2>8, OpenWired
  <2>10. Slip(r) = {} => e.gross = e.net
    <3>1. i \in Touched(r) /\ First(r).wire # <<>>
      BY <1>9, <2>7 DEF Touched, Touch
    <3>2. IsOpen(e)
      BY <1>1
    <3> QED
      BY <1>1, <1>9, <3>1, <3>2, NoSlip DEF GrossMatch
  <2>11. Line1(x, l, i)
    BY <2>7, MatchedLineIs
  <2> QED
    BY <1>1, <1>7, <2>9, <2>10, <2>11, MatchAdmits
<1>11. CASE s = NoAccount
  <2>2. PICK p : p = [status |-> "PAID", month |-> LineMonth[l], auto |-> TRUE, account |-> Bank, by |-> "match"]
    OBVIOUS
  <2>3. PICK t : t = Touch(i, p)
    OBVIOUS
  <2>4. PICK m : m = Move(Bank, LineAmount[l])
    OBVIOUS
  <2>5. PICK k : k = Tax(l, Bank, fee)
    OBVIOUS
  <2>6. b = [Tx EXCEPT !.touch = t, !.make = k, !.move = m]
    BY <1>1, <1>2, <1>3, <1>5, <1>11, <2>2, <2>3, <2>4, <2>5 DEF MatchOpen
  <2>7. /\ x.touch = Touch(i, p) /\ x.make = Tax(l, Bank, fee) /\ x.wire = <<>> /\ x.unwire = Nothing /\ x.shut = {}
        /\ x.move = Move(Bank, LineAmount[l]) /\ x.line = MatchedLine(l, i)
    BY <1>6, <2>3, <2>4, <2>5, <2>6 DEF Tx
  <2>8. /\ IsMatch(db, x, l, i, p) /\ Regular(Patched(e, p))
        /\ ~Differs(l, i, TaxKept(x)) => \A a \in Account : Effect(db, x, a) = 0
    BY <1>1, <1>7, <1>8, <2>2, <2>7, OpenLegacy
  <2>9. Line1(x, l, i)
    BY <2>7, MatchedLineIs
  <2>10. Slip(r) = {} => ~Differs(l, i, TaxKept(x))
    <3>1. i \in Touched(r) /\ First(r).wire = <<>>
      BY <1>9, <2>7 DEF Touched, Touch
    <3>2. l \in DOMAIN First(r).line
      BY <1>9, <2>9 DEF Line1
    <3>3. TaxKept(x) = IF First(r).make = <<>> THEN 0 ELSE First(r).make[1].net
      BY <1>9 DEF TaxKept
    <3> QED
      BY <1>1, <1>9, <3>1, <3>2, <3>3, NoSlip DEF LegacyMatch
  <2> QED
    BY <1>1, <1>7, <2>8, <2>9, <2>10, MatchAdmits
<1> QED
  BY <1>10, <1>11

LEMMA MatchPaidAdmits ==
  ASSUME TypeInv, NEW r \in Request, NEW l \in Line, NEW i \in DOMAIN db.entries, NEW tax \in Int,
         ~IsOpen(db.entries[i]), MatchLine(r, l, i, tax)
  PROVE  Admits(r)
<1>1. PICK e : e = db.entries[i]
  OBVIOUS
<1>2. PICK s : s = Source(e)
  OBVIOUS
<1>3. PICK fee : fee = IF e.type # "RECEIVABLE" \/ ~IsCredit(l) THEN 0
                       ELSE IF tax > 0 THEN tax
                       ELSE IF e.gross > Magnitude(l) THEN e.gross - Magnitude(l) ELSE 0
  OBVIOUS
<1>4. PICK w : w = Transferred(l, s)
  OBVIOUS
<1>5. PICK b : b = MatchPaid(l, i, tax)
  OBVIOUS
<1>6. PICK x : x = [b EXCEPT !.line = MatchedLine(l, i)]
  OBVIOUS
<1>7. /\ Once(r, "matchLine", ReadLine(l) \cup ReadEntry(i), x)
      /\ ~IsClosed(Bank, LineMonth[l]) /\ e.live /\ e.status \notin {"PENDING", "CANCELLED"} /\ ~MatchedElsewhere(l, i)
  BY <1>1, <1>5, <1>6 DEF MatchLine, MatchedLine, IsOpen
<1>8. GoodEntry(e) /\ e.gross \in Int
  BY <1>1, RowOf
<1>9. e.status = "PAID"
  BY <1>7, <1>8, EntryFields DEF GoodEntry, Statuses
<1>10. fee \in Int
  BY <1>3, <1>8, LineIs
<1>11. PICK p : p = [month |-> LineMonth[l]]
  OBVIOUS
<1>12. PICK t : t = Touch(i, p)
  OBVIOUS
<1>13. Clean => Regular(e)
  BY <1>1, RowOf
<1>14. CASE s # NoAccount
  <2>1. s \in Account \ {Bank}
    BY <1>1, <1>2, <1>14, SourceIs
  <2>2. PICK m : m = Plus(Carry(w.from, w.to, w.amount), Move(s, -fee))
    OBVIOUS
  <2>3. PICK k : k = Tax(l, s, fee)
    OBVIOUS
  <2>4. PICK c : c = [Tx EXCEPT !.touch = t]
    OBVIOUS
  <2>5. b = [c EXCEPT !.wire = <<w>>, !.make = k, !.move = m]
    BY <1>1, <1>2, <1>3, <1>4, <1>5, <1>11, <1>12, <1>14, <2>2, <2>3, <2>4 DEF MatchPaid
  <2>6. /\ x.touch = Touch(i, p) /\ x.make = Tax(l, s, fee) /\ x.wire = <<w>> /\ x.unwire = Nothing /\ x.shut = {}
        /\ x.move = m /\ x.line = MatchedLine(l, i)
    BY <1>6, <1>12, <2>3, <2>4, <2>5 DEF Tx
  <2>7. WiredMove(x, s, -fee, w)
    BY <2>2, <2>6 DEF WiredMove
  <2>8. /\ IsMatch(db, x, l, i, p) /\ (Regular(e) => Regular(Patched(e, p)))
        /\ \A a \in Account : Effect(db, x, a) = 0
    BY <1>1, <1>4, <1>7, <1>9, <1>10, <1>11, <2>1, <2>6, <2>7, PaidWired
  <2>9. Line1(x, l, i)
    BY <2>6, MatchedLineIs
  <2> QED
    BY <1>1, <1>7, <1>13, <2>8, <2>9, MatchAdmits
<1>15. CASE s = NoAccount
  <2>1. b = [Tx EXCEPT !.touch = t]
    BY <1>1, <1>2, <1>5, <1>11, <1>12, <1>15 DEF MatchPaid
  <2>2. /\ x.touch = Touch(i, p) /\ x.make = <<>> /\ x.wire = <<>> /\ x.unwire = Nothing /\ x.shut = {}
        /\ x.move = Nothing /\ x.line = MatchedLine(l, i)
    BY <1>6, <1>12, <2>1 DEF Tx
  <2>3. /\ IsMatch(db, x, l, i, p) /\ (Regular(e) => Regular(Patched(e, p)))
        /\ \A a \in Account : Effect(db, x, a) = 0
    BY <1>1, <1>7, <1>9, <1>11, <2>2, PaidHere
  <2>4. Line1(x, l, i)
    BY <2>2, MatchedLineIs
  <2> QED
    BY <1>1, <1>7, <1>13, <2>3, <2>4, MatchAdmits
<1> QED
  BY <1>14, <1>15

(* The undoing of a match, written step by step.  What its steps move in   *)
(* all beyond what they post, all of them seen in the same rows:           *)
Moved(d, s, n, a) == IF n \in DOMAIN s THEN Effect(d, s[n], a) ELSE 0
Total(d, s, a) ==
  Moved(d, s, 1, a) + Moved(d, s, 2, a) + Moved(d, s, 3, a) + Moved(d, s, 4, a)
+ Moved(d, s, 5, a) + Moved(d, s, 6, a) + Moved(d, s, 7, a) + Moved(d, s, 8, a)

LEMMA OwedIsTotal ==
  ASSUME NEW d, NEW q, q.op = "unmatchLine", NEW a
  PROVE  Owed(d, q, a) = Total(d, q.todo, a)
BY DEF Owed, Later, Total, Moved

Erasing(s) == \A n \in DOMAIN s : \A i \in DOMAIN s[n].touch : Erases(s[n].touch[i])

Piece(d, q, s) ==
  /\ IsScript(d, s) /\ Len(s) <= 8
  /\ \A n \in DOMAIN s : SoundTx(d, q, s[n])
  /\ ErasedFirst(s)

Appends(d, q, s, x, z) ==
  /\ Piece(d, q, z) /\ Len(z) = Len(s) + 1
  /\ \A a \in Account : Total(d, z, a) = Total(d, s, a) + Effect(d, x, a)
  /\ Erasing(s) /\ (\A i \in DOMAIN x.touch : Erases(x.touch[i])) => Erasing(z)
  /\ \A n \in DOMAIN s : n \in DOMAIN z /\ z[n] = s[n]
  /\ Len(z) \in DOMAIN z /\ z[Len(z)] = x

LEMMA MovedOf ==
  ASSUME NEW d, NEW s, NEW x, NEW z, NEW n \in Nat, DOMAIN s = 1..n, DOMAIN z = 1..(n + 1), z[n + 1] = x,
         \A m \in 1..n : z[m] = s[m], NEW a, NEW k \in Nat \ {0}
  PROVE  Moved(d, z, k, a) = IF k = n + 1 THEN Effect(d, x, a) ELSE Moved(d, s, k, a)
<1>1. k \in 1..n <=> k <= n
  OBVIOUS
<1>2. k \in 1..(n + 1) <=> k <= n + 1
  OBVIOUS
<1>3. CASE k = n + 1
  BY <1>2, <1>3 DEF Moved
<1>4. CASE k <= n
  BY <1>1, <1>2, <1>4 DEF Moved
<1>5. CASE k > n + 1
  BY <1>1, <1>2, <1>5 DEF Moved
<1> QED
  BY <1>3, <1>4, <1>5

LEMMA MovedInt ==
  ASSUME NEW d, IsDatabase(d), NEW s, IsScript(d, s), NEW a \in Account, NEW k
  PROVE  Moved(d, s, k, a) \in Int
<1>1. \A n \in DOMAIN s : IsTx(d, s[n])
  BY ScriptTx
<1> QED
  BY <1>1, EffectInt DEF Moved

AddsTo(d, s, x, z) == \A a \in Account : Total(d, z, a) = Total(d, s, a) + Effect(d, x, a)

LEMMA TotalAppends ==
  ASSUME NEW d, IsDatabase(d), NEW s, IsScript(d, s), NEW n \in 0..7, DOMAIN s = 1..n,
         NEW x, IsTx(d, x), NEW z, DOMAIN z = 1..(n + 1), z[n + 1] = x, \A m \in 1..n : z[m] = s[m]
  PROVE  AddsTo(d, s, x, z)
<1> SUFFICES ASSUME NEW a \in Account
             PROVE  Total(d, z, a) = Total(d, s, a) + Effect(d, x, a)
  BY DEF AddsTo
<1>1. PICK e : e = Effect(d, x, a)
  OBVIOUS
<1>2. e \in Int
  BY <1>1, EffectInt
<1>3. \A k \in 1..8 : /\ Moved(d, s, k, a) \in Int
                      /\ Moved(d, z, k, a) = IF k = n + 1 THEN e ELSE Moved(d, s, k, a)
  <2> SUFFICES ASSUME NEW k \in 1..8
               PROVE  /\ Moved(d, s, k, a) \in Int
                      /\ Moved(d, z, k, a) = IF k = n + 1 THEN e ELSE Moved(d, s, k, a)
    OBVIOUS
  <2>1. n \in Nat /\ k \in Nat \ {0}
    OBVIOUS
  <2>2. Moved(d, z, k, a) = IF k = n + 1 THEN Effect(d, x, a) ELSE Moved(d, s, k, a)
    BY <2>1, MovedOf
  <2>3. Moved(d, s, k, a) \in Int
    BY MovedInt
  <2> QED
    BY <1>1, <2>2, <2>3
<1>4. Moved(d, s, n + 1, a) = 0
  <2>1. n + 1 \notin 1..n
    OBVIOUS
  <2> QED
    BY <2>1 DEF Moved
<1>f1. PICK f1 \in Int : f1 = Moved(d, s, 1, a)
  BY <1>3
<1>f2. PICK f2 \in Int : f2 = Moved(d, s, 2, a)
  BY <1>3
<1>f3. PICK f3 \in Int : f3 = Moved(d, s, 3, a)
  BY <1>3
<1>f4. PICK f4 \in Int : f4 = Moved(d, s, 4, a)
  BY <1>3
<1>f5. PICK f5 \in Int : f5 = Moved(d, s, 5, a)
  BY <1>3
<1>f6. PICK f6 \in Int : f6 = Moved(d, s, 6, a)
  BY <1>3
<1>f7. PICK f7 \in Int : f7 = Moved(d, s, 7, a)
  BY <1>3
<1>f8. PICK f8 \in Int : f8 = Moved(d, s, 8, a)
  BY <1>3
<1>g1. PICK g1 : g1 = Moved(d, z, 1, a) /\ g1 = IF n = 0 THEN e ELSE f1
  BY <1>3, <1>f1
<1>g2. PICK g2 : g2 = Moved(d, z, 2, a) /\ g2 = IF n = 1 THEN e ELSE f2
  BY <1>3, <1>f2
<1>g3. PICK g3 : g3 = Moved(d, z, 3, a) /\ g3 = IF n = 2 THEN e ELSE f3
  BY <1>3, <1>f3
<1>g4. PICK g4 : g4 = Moved(d, z, 4, a) /\ g4 = IF n = 3 THEN e ELSE f4
  BY <1>3, <1>f4
<1>g5. PICK g5 : g5 = Moved(d, z, 5, a) /\ g5 = IF n = 4 THEN e ELSE f5
  BY <1>3, <1>f5
<1>g6. PICK g6 : g6 = Moved(d, z, 6, a) /\ g6 = IF n = 5 THEN e ELSE f6
  BY <1>3, <1>f6
<1>g7. PICK g7 : g7 = Moved(d, z, 7, a) /\ g7 = IF n = 6 THEN e ELSE f7
  BY <1>3, <1>f7
<1>g8. PICK g8 : g8 = Moved(d, z, 8, a) /\ g8 = IF n = 7 THEN e ELSE f8
  BY <1>3, <1>f8
<1>5. Total(d, s, a) = f1 + f2 + f3 + f4 + f5 + f6 + f7 + f8
  BY <1>f1, <1>f2, <1>f3, <1>f4, <1>f5, <1>f6, <1>f7, <1>f8 DEF Total
<1>6. Total(d, z, a) = g1 + g2 + g3 + g4 + g5 + g6 + g7 + g8
  BY <1>g1, <1>g2, <1>g3, <1>g4, <1>g5, <1>g6, <1>g7, <1>g8 DEF Total
<1>c1. CASE n = 0
  <2>1. f1 = 0
    BY <1>4, <1>c1, <1>f1
  <2>2. /\ g1 = e /\ g2 = f2 /\ g3 = f3 /\ g4 = f4 /\ g5 = f5 /\ g6 = f6 /\ g7 = f7 /\ g8 = f8
    BY <1>c1, <1>g1, <1>g2, <1>g3, <1>g4, <1>g5, <1>g6, <1>g7, <1>g8
  <2>3. Total(d, z, a) = e + f2 + f3 + f4 + f5 + f6 + f7 + f8
    BY <1>6, <2>2
  <2>4. Total(d, s, a) = 0 + f2 + f3 + f4 + f5 + f6 + f7 + f8
    BY <1>5, <2>1
  <2>5. e + f2 + f3 + f4 + f5 + f6 + f7 + f8 = (0 + f2 + f3 + f4 + f5 + f6 + f7 + f8) + e
    BY <1>2
  <2> QED
    BY <1>1, <2>3, <2>4, <2>5
<1>c2. CASE n = 1
  <2>1. f2 = 0
    BY <1>4, <1>c2, <1>f2
  <2> QED
    BY <1>1, <1>2, <1>5, <1>6, <1>c2, <2>1, <1>g1, <1>g2, <1>g3, <1>g4, <1>g5, <1>g6, <1>g7, <1>g8
<1>c3. CASE n = 2
  <2>1. f3 = 0
    BY <1>4, <1>c3, <1>f3
  <2> QED
    BY <1>1, <1>2, <1>5, <1>6, <1>c3, <2>1, <1>g1, <1>g2, <1>g3, <1>g4, <1>g5, <1>g6, <1>g7, <1>g8
<1>c4. CASE n = 3
  <2>1. f4 = 0
    BY <1>4, <1>c4, <1>f4
  <2> QED
    BY <1>1, <1>2, <1>5, <1>6, <1>c4, <2>1, <1>g1, <1>g2, <1>g3, <1>g4, <1>g5, <1>g6, <1>g7, <1>g8
<1>c5. CASE n = 4
  <2>1. f5 = 0
    BY <1>4, <1>c5, <1>f5
  <2> QED
    BY <1>1, <1>2, <1>5, <1>6, <1>c5, <2>1, <1>g1, <1>g2, <1>g3, <1>g4, <1>g5, <1>g6, <1>g7, <1>g8
<1>c6. CASE n = 5
  <2>1. f6 = 0
    BY <1>4, <1>c6, <1>f6
  <2> QED
    BY <1>1, <1>2, <1>5, <1>6, <1>c6, <2>1, <1>g1, <1>g2, <1>g3, <1>g4, <1>g5, <1>g6, <1>g7, <1>g8
<1>c7. CASE n = 6
  <2>1. f7 = 0
    BY <1>4, <1>c7, <1>f7
  <2> QED
    BY <1>1, <1>2, <1>5, <1>6, <1>c7, <2>1, <1>g1, <1>g2, <1>g3, <1>g4, <1>g5, <1>g6, <1>g7, <1>g8
<1>c8. CASE n = 7
  <2>1. f8 = 0
    BY <1>4, <1>c8, <1>f8
  <2> QED
    BY <1>1, <1>2, <1>5, <1>6, <1>c8, <2>1, <1>g1, <1>g2, <1>g3, <1>g4, <1>g5, <1>g6, <1>g7, <1>g8
<1> QED
  BY <1>c1, <1>c2, <1>c3, <1>c4, <1>c5, <1>c6, <1>c7, <1>c8

LEMMA PieceOfNone ==
  ASSUME NEW d, NEW q
  PROVE  /\ Piece(d, q, <<>>) /\ Erasing(<<>>) /\ Len(<<>>) = 0
         /\ \A a \in Account : Total(d, <<>>, a) = 0
<1>1. PICK s : s = <<>>
  OBVIOUS
<1>2. DOMAIN s = {} /\ Len(s) = 0
  BY <1>1
<1>3. IsScript(d, s)
  BY <1>1, ScriptOfNone
<1>4. Piece(d, q, s) /\ Erasing(s)
  BY <1>2, <1>3 DEF Piece, ErasedFirst, Erasing
<1>5. \A a \in Account : Total(d, s, a) = 0
  BY <1>2 DEF Total, Moved
<1> QED
  BY <1>1, <1>2, <1>4, <1>5

LEMMA PieceAppends ==
  ASSUME NEW d, IsDatabase(d), NEW q, NEW s, Piece(d, q, s), Len(s) < 8, NEW x, IsTx(d, x), SoundTx(d, q, x),
         Erasing(s) \/ DOMAIN x.touch = {}
  PROVE  Appends(d, q, s, x, s \o <<x>>)
<1>1. PICK z : z = s \o <<x>>
  OBVIOUS
<1>2. PICK n : n = Len(s)
  OBVIOUS
<1>3. IsScript(d, s) /\ Len(s) \in Nat /\ DOMAIN s = 1..Len(s)
  BY ScriptTx DEF Piece
<1>4. n \in 0..7 /\ DOMAIN s = 1..n
  <2>1. n \in Nat /\ n < 8
    BY <1>2, <1>3
  <2>2. n \in 0..7
    BY ONLY <2>1
  <2> QED
    BY <1>2, <1>3, <2>2
<1>5. IsScript(d, z) /\ Len(z) = n + 1
  <2>1. IsScript(d, <<x>>) /\ Len(<<x>>) = 1
    BY ScriptOfOne
  <2> QED
    BY <1>1, <1>2, <1>3, <2>1, ScriptOfTwo
<1>6. DOMAIN z = 1..(n + 1)
  BY <1>5, ScriptTx
<1>7. z[n + 1] = x /\ \A m \in 1..n : z[m] = s[m]
  <2>1. PICK S : s \in Seq(S)
    BY <1>3 DEF IsScript
  <2>2. <<x>> \in Seq({x}) /\ <<x>>[1] = x /\ Len(<<x>>) = 1
    OBVIOUS
  <2>3. s \in Seq(S \cup {x}) /\ <<x>> \in Seq(S \cup {x})
    BY <2>1, <2>2
  <2> QED
    BY <1>1, <1>2, <1>4, <2>2, <2>3
<1>8. \A m \in 1..(n + 1) : m = n + 1 \/ m \in 1..n
  BY <1>4
<1>9. Piece(d, q, z)
  <2>1. \A m \in DOMAIN z : SoundTx(d, q, z[m])
    BY <1>4, <1>6, <1>7, <1>8 DEF Piece
  <2>2. ErasedFirst(z)
    <3> SUFFICES ASSUME NEW k \in DOMAIN z, NEW m \in DOMAIN z, k < m, NEW i \in TouchBoth(z[k], z[m])
                 PROVE  Erases(z[k].touch[i])
      BY DEF ErasedFirst
    <3>1. k \in 1..n /\ z[k] = s[k]
      BY <1>4, <1>6, <1>7
    <3>2. CASE m \in 1..n
      BY <1>4, <1>7, <3>1, <3>2 DEF Piece, ErasedFirst
    <3>3. CASE m = n + 1
      BY <1>4, <1>7, <3>1, <3>3 DEF Erasing, TouchBoth
    <3> QED
      BY <1>6, <1>8, <3>2, <3>3
  <2> QED
    BY <1>4, <1>5, <2>1, <2>2 DEF Piece
<1>10. \A a \in Account : Total(d, z, a) = Total(d, s, a) + Effect(d, x, a)
  <2>1. /\ IsDatabase(d) /\ IsScript(d, s) /\ n \in 0..7 /\ DOMAIN s = 1..n /\ IsTx(d, x) /\ DOMAIN z = 1..(n + 1)
        /\ z[n + 1] = x /\ \A m \in 1..n : z[m] = s[m]
    BY <1>3, <1>4, <1>6, <1>7
  <2>2. AddsTo(d, s, x, z)
    BY ONLY <2>1, TotalAppends, Zenon
  <2> QED
    BY <2>2 DEF AddsTo
<1>11. Erasing(s) /\ (\A i \in DOMAIN x.touch : Erases(x.touch[i])) => Erasing(z)
  BY <1>4, <1>6, <1>7, <1>8 DEF Erasing
<1>12. \A m \in DOMAIN s : m \in DOMAIN z /\ z[m] = s[m]
  BY <1>4, <1>6, <1>7
<1>13. Len(z) \in DOMAIN z /\ z[Len(z)] = x
  BY <1>4, <1>5, <1>6, <1>7
<1> QED
  BY <1>1, <1>2, <1>5, <1>9, <1>10, <1>11, <1>12, <1>13 DEF Appends

LEMMA TotalInt ==
  ASSUME NEW d, IsDatabase(d), NEW q, NEW s, Piece(d, q, s), NEW a \in Account
  PROVE  Total(d, s, a) \in Int
<1>1. IsScript(d, s)
  BY DEF Piece
<1>2. \A k : Moved(d, s, k, a) \in Int
  BY <1>1, MovedInt
<1> QED
  BY <1>2 DEF Total

(* The steps of an undoing.                                                *)
UndoingOf(d, q, l) == q.op = "unmatchLine" /\ IsOpenFor(d, q, Bank, LineMonth[l])

IsStep(d, x, l) ==
  /\ x.make = <<>> /\ x.wire = <<>> /\ x.line = Nothing /\ x.shut = {}
  /\ DOMAIN x.move \subseteq Account \cup {NoAccount} /\ \A a \in DOMAIN x.move : x.move[a] \in Int
  /\ x.touch = Nothing \/ \E i, p : /\ i \in DOMAIN d.entries /\ x.touch = Touch(i, p)
                                    /\ IsPatch(d.entries[i].cut, p) /\ "gross" \notin DOMAIN p
  /\ x.unwire = Nothing \/ \E k : /\ k \in DOMAIN d.transfers /\ x.unwire = [j \in {k} |-> [live |-> FALSE]]
                                  /\ d.transfers[k].month = LineMonth[l]

LEMMA StepTouches ==
  ASSUME NEW d, NEW x, NEW l, IsStep(d, x, l)
  PROVE  /\ DOMAIN x.touch \subseteq DOMAIN d.entries /\ \A i, j \in DOMAIN x.touch : i = j
         /\ \A i \in DOMAIN x.touch : IsPatch(d.entries[i].cut, x.touch[i]) /\ "gross" \notin DOMAIN x.touch[i]
<1>1. CASE x.touch = Nothing
  <2>1. DOMAIN x.touch = {}
    BY <1>1 DEF Nothing
  <2> QED
    BY <2>1
<1>2. CASE x.touch # Nothing
  <2>1. PICK i, p : /\ i \in DOMAIN d.entries /\ x.touch = Touch(i, p)
                    /\ IsPatch(d.entries[i].cut, p) /\ "gross" \notin DOMAIN p
    BY <1>2 DEF IsStep
  <2>2. x.touch = Touch(i, p)
    BY <2>1
  <2>3. DOMAIN x.touch = {i} /\ x.touch[i] = p
    BY ONLY <2>2, TouchIs
  <2> QED
    BY <2>1, <2>3
<1> QED
  BY <1>1, <1>2

LEMMA StepUnwires ==
  ASSUME NEW d, NEW x, NEW l, IsStep(d, x, l)
  PROVE  /\ DOMAIN x.unwire \subseteq DOMAIN d.transfers /\ \A k, j \in DOMAIN x.unwire : k = j
         /\ \A k \in DOMAIN x.unwire : x.unwire[k] = [live |-> FALSE] /\ d.transfers[k].month = LineMonth[l]
<1>1. CASE x.unwire = Nothing
  <2>1. DOMAIN x.unwire = {}
    BY <1>1 DEF Nothing
  <2> QED
    BY <2>1
<1>2. CASE x.unwire # Nothing
  <2>1. PICK k : /\ k \in DOMAIN d.transfers /\ x.unwire = [j \in {k} |-> [live |-> FALSE]]
                 /\ d.transfers[k].month = LineMonth[l]
    BY <1>2 DEF IsStep
  <2>3. DOMAIN x.unwire = {k} /\ x.unwire[k] = [live |-> FALSE]
    BY <2>1
  <2> QED
    BY <2>1, <2>3
<1> QED
  BY <1>1, <1>2

LEMMA StepTx ==
  ASSUME NEW d, NEW x, NEW l, IsStep(d, x, l)
  PROVE  IsTx(d, x)
<1>1. /\ DOMAIN x.touch \subseteq DOMAIN d.entries /\ \A i, j \in DOMAIN x.touch : i = j
      /\ \A i \in DOMAIN x.touch : IsPatch(d.entries[i].cut, x.touch[i])
  BY StepTouches
<1>2. /\ DOMAIN x.unwire \subseteq DOMAIN d.transfers /\ \A k, j \in DOMAIN x.unwire : k = j
      /\ \A k \in DOMAIN x.unwire : x.unwire[k] = [live |-> FALSE]
  BY StepUnwires
<1>3. /\ x.make = <<>> /\ x.wire = <<>> /\ x.line = Nothing /\ x.shut = {}
      /\ DOMAIN x.move \subseteq Account \cup {NoAccount} /\ \A a \in DOMAIN x.move : x.move[a] \in Int
  BY DEF IsStep
<1>4. DOMAIN x.line = {}
  BY <1>3 DEF Nothing
<1> QED
  BY <1>1, <1>2, <1>3, <1>4 DEF IsTx

LEMMA StepSound ==
  ASSUME NEW d, NEW x, NEW l \in Line, IsStep(d, x, l), NEW q, UndoingOf(d, q, l), Covered(q, x), KeepsRows(d, x)
  PROVE  SoundTx(d, q, x)
<1>1. KeepsLines(d, q, x)
  BY DEF IsStep, KeepsLines, Nothing
<1>2. InMonth(d, x, LineMonth[l])
  <2>1. \A i \in DOMAIN x.touch : "gross" \notin DOMAIN x.touch[i]
    BY StepTouches
  <2>2. \A k \in DOMAIN x.unwire : d.transfers[k].month = LineMonth[l]
    BY StepUnwires
  <2> QED
    BY <2>1, <2>2 DEF InMonth, IsStep
<1>3. LineMonth[l] \in Month
  BY LineIs
<1>4. KeepsMonths(d, q, x) /\ KeepsBank(d, q, x) /\ KeepsBalance(d, q, x)
  BY <1>2, <1>3 DEF KeepsMonths, Unchecked, KeepsBank, KeepsBalance, UndoingOf
<1> QED
  BY <1>1, <1>4 DEF SoundTx

(* A step that moves an amount, one that removes a transfer, one that      *)
(* writes a row.                                                           *)
MoveTx(m) == [Tx EXCEPT !.move = m]
UnwireTx(k) == [Tx EXCEPT !.unwire = [j \in {k} |-> [live |-> FALSE]]]
TouchTx(i, p) == [Tx EXCEPT !.touch = Touch(i, p)]

IsMove(m) == DOMAIN m \subseteq Account \cup {NoAccount} /\ \A a \in DOMAIN m : m[a] \in Int
Moves(d, x, m) == \A a \in Account : Effect(d, x, a) = At(m, a)

LEMMA MovingStep ==
  ASSUME NEW d, NEW l \in Line, NEW m, IsMove(m),
         NEW x, x = MoveTx(m)
  PROVE  IsStep(d, x, l) /\ DOMAIN x.touch = {} /\ DOMAIN x.unwire = {} /\ Moves(d, x, m)
<1>1. /\ x.touch = Nothing /\ x.make = <<>> /\ x.move = m /\ x.wire = <<>> /\ x.unwire = Nothing /\ x.line = Nothing
      /\ x.shut = {}
  BY DEF Tx, MoveTx
<1>2. DOMAIN Nothing = {}
  BY DEF Nothing
<1>3. \A a \in Account : Gain(d, x, a, Month) = 0
  BY <1>1, NoGain DEF Gain
<1>4. \A a \in Account : At(m, a) \in Int
  BY DEF IsMove, At
<1> QED
  BY <1>1, <1>2, <1>3, <1>4 DEF IsMove, Moves, IsStep, Effect

LEMMA UnwiringStep ==
  ASSUME NEW d, IsDatabase(d), NEW l \in Line, NEW k \in DOMAIN d.transfers, d.transfers[k].live,
         d.transfers[k].line = l, NEW w, w = d.transfers[k],
         NEW x, x = UnwireTx(k)
  PROVE  /\ IsStep(d, x, l) /\ DOMAIN x.touch = {} /\ DOMAIN x.unwire = {k}
         /\ \A a \in Account : Effect(d, x, a) = At(Carry(w.from, w.to, w.amount), a)
<1>1. PICK u : u = [j \in {k} |-> [live |-> FALSE]]
  OBVIOUS
<1>2. /\ x.touch = Nothing /\ x.make = <<>> /\ x.move = Nothing /\ x.wire = <<>> /\ x.unwire = u /\ x.line = Nothing
      /\ x.shut = {}
  BY <1>1 DEF Tx, UnwireTx
<1>3. DOMAIN u = {k}
  BY <1>1
<1>4. GoodWire(w)
  BY DEF IsDatabase
<1>5. w.month = LineMonth[l] /\ w.month \in Month /\ w.from \in Account /\ w.to \in Account /\ w.amount \in Int
  BY <1>4, WireFields, LineAssumption DEF GoodWire
<1>6. IsStep(d, x, l)
  BY <1>1, <1>2, <1>5 DEF IsStep, Nothing
<1>7. ASSUME NEW a \in Account PROVE Effect(d, x, a) = At(Carry(w.from, w.to, w.amount), a)
  <2>1. PICK c : c = At(Carry(w.from, w.to, w.amount), a)
    OBVIOUS
  <2>2. c \in Int
    BY <1>5, <2>1, CarryTyped DEF CarryIs
  <2>3. Carried(w, a, Month) = c
    BY <1>5, <2>1, WireWorth
  <2>r. DOMAIN x.unwire = {k}
    BY <1>2, <1>3
  <2>t. TakesBack(d, x, w, a, Month)
    BY <2>r, UnwireGainIs
  <2>4. UnwireGain(d, x, a, Month) = -c
    BY <2>3, <2>t DEF TakesBack
  <2>5. PatchGain(d, x, a, Month) = 0 /\ MadeGain(x, a, Month) = 0 /\ WireGain(x, a, Month) = 0
    BY <1>2, NoGain
  <2>6. At(x.move, a) = 0
    BY <1>2, MoveAt
  <2> QED
    BY <2>1, <2>2, <2>4, <2>5, <2>6 DEF Effect, Gain
<1>8. DOMAIN x.touch = {} /\ DOMAIN x.unwire = {k}
  BY <1>2, <1>3 DEF Nothing
<1> QED
  BY <1>6, <1>7, <1>8

LEMMA WritingStep ==
  ASSUME NEW d, IsDatabase(d), NEW l \in Line, NEW i \in DOMAIN d.entries, NEW p, IsPatch(d.entries[i].cut, p),
         "gross" \notin DOMAIN p, NEW e, e = d.entries[i], NEW n, n = Patched(e, p),
         n.status # "PAID" \/ ~n.live,
         NEW x, x = TouchTx(i, p)
  PROVE  /\ IsStep(d, x, l) /\ x.touch = Touch(i, p) /\ DOMAIN x.touch = {i} /\ x.touch[i] = p /\ DOMAIN x.unwire = {}
         /\ \A a \in Account : Effect(d, x, a) = Worth(e, a, Month)
<1>1. PICK t : t = Touch(i, p)
  OBVIOUS
<1>2. /\ x.touch = t /\ x.make = <<>> /\ x.move = Nothing /\ x.wire = <<>> /\ x.unwire = Nothing /\ x.line = Nothing
      /\ x.shut = {}
  BY <1>1 DEF Tx, TouchTx
<1>3. DOMAIN t = {i} /\ t[i] = p
  BY ONLY <1>1, TouchIs
<1>4. IsStep(d, x, l)
  BY <1>1, <1>2 DEF IsStep, Nothing
<1>5. ASSUME NEW a \in Account PROVE Effect(d, x, a) = Worth(e, a, Month)
  <2>1. GoodEntry(e)
    BY DEF IsDatabase
  <2>2. Worth(e, a, Month) \in Int /\ Worth(n, a, Month) = 0
    BY <2>1, WorthInt, WorthZero
  <2>3. PatchGain(d, x, a, Month) = Worth(n, a, Month) - Worth(e, a, Month)
    BY <1>1, <1>2, PatchGainIs
  <2>4. UnwireGain(d, x, a, Month) = 0 /\ MadeGain(x, a, Month) = 0 /\ WireGain(x, a, Month) = 0
    BY <1>2, NoGain
  <2>5. At(x.move, a) = 0
    BY <1>2, MoveAt
  <2> QED
    BY <2>2, <2>3, <2>4, <2>5 DEF Effect, Gain
<1>6. DOMAIN x.unwire = {}
  BY <1>2 DEF Nothing
<1> QED
  BY <1>1, <1>2, <1>3, <1>4, <1>5, <1>6

LEMMA MoveWide ==
  ASSUME NEW a \in Account \cup {NoAccount}, NEW cents \in Int
  PROVE  /\ IsMove(Move(a, cents))
         /\ \A b \in Account : At(Move(a, cents), b) = IF a = b THEN cents ELSE 0
<1>1. PICK m : m = Move(a, cents)
  OBVIOUS
<1>2. DOMAIN m \subseteq Account /\ \A b \in DOMAIN m : m[b] \in Int
  BY <1>1, MoveTyped
<1>3. \A b \in Account : At(m, b) = IF a = b THEN cents ELSE 0
  BY <1>1, MoveAt
<1> QED
  BY <1>1, <1>2, <1>3 DEF IsMove

(* A step that moves, at the end of a piece.                               *)
LEMMA PieceMoves ==
  ASSUME NEW d, IsDatabase(d), NEW l \in Line, NEW q, UndoingOf(d, q, l), NEW s, Piece(d, q, s), Len(s) < 8, Erasing(s),
         NEW m, IsMove(m), NEW x, x = MoveTx(m)
  PROVE  Appends(d, q, s, x, s \o <<x>>) /\ Erasing(s \o <<x>>) /\ Moves(d, x, m)
<1>1. IsStep(d, x, l) /\ DOMAIN x.touch = {} /\ DOMAIN x.unwire = {} /\ Moves(d, x, m)
  BY MovingStep
<1>2. Covered(q, x) /\ KeepsRows(d, x)
  BY <1>1 DEF Covered, KeepsRows
<1>3. IsTx(d, x) /\ SoundTx(d, q, x)
  BY <1>1, <1>2, StepTx, StepSound
<1>4. Appends(d, q, s, x, s \o <<x>>)
  BY <1>1, <1>3, PieceAppends
<1> QED
  BY <1>1, <1>4 DEF Appends

(* Sequences written step by step.                                         *)
LEMMA Joined ==
  ASSUME NEW S, NEW s \in Seq(S), NEW x \in S, NEW z, z = s \o <<x>>
  PROVE  /\ z \in Seq(S) /\ Len(z) = Len(s) + 1 /\ DOMAIN z = 1..(Len(s) + 1)
         /\ z[Len(s) + 1] = x /\ \A m \in 1..Len(s) : z[m] = s[m]
OBVIOUS

LEMMA ThreeSteps ==
  ASSUME NEW x, NEW y, NEW z
  PROVE  ((<<>> \o <<x>>) \o <<y>>) \o <<z>> = <<x, y, z>>
<1>1. PICK S : S = {x, y, z}
  OBVIOUS
<1>2. PICK a : a = <<>> \o <<x>>
  OBVIOUS
<1>3. PICK b : b = a \o <<y>>
  OBVIOUS
<1>4. PICK c : c = b \o <<z>>
  OBVIOUS
<1>5. <<>> \in Seq(S) /\ Len(<<>>) = 0 /\ x \in S /\ y \in S /\ z \in S
  BY <1>1
<1>6. a \in Seq(S) /\ Len(a) = 1 /\ a[1] = x
  <2>1. <<>> \in Seq(S)
    BY <1>5
  <2>2. a \in Seq(S) /\ Len(a) = Len(<<>>) + 1 /\ a[Len(<<>>) + 1] = x
    BY <1>2, <1>5, <2>1, Joined
  <2> QED
    BY <1>5, <2>2
<1>7. b \in Seq(S) /\ Len(b) = 2 /\ b[1] = x /\ b[2] = y
  <2>2. b \in Seq(S) /\ Len(b) = Len(a) + 1 /\ b[Len(a) + 1] = y /\ \A m \in 1..Len(a) : b[m] = a[m]
    BY <1>3, <1>5, <1>6, Joined
  <2> QED
    BY <1>6, <2>2
<1>8. c \in Seq(S) /\ Len(c) = 3 /\ c[1] = x /\ c[2] = y /\ c[3] = z
  <2>2. c \in Seq(S) /\ Len(c) = Len(b) + 1 /\ c[Len(b) + 1] = z /\ \A m \in 1..Len(b) : c[m] = b[m]
    BY <1>4, <1>5, <1>7, Joined
  <2> QED
    BY <1>7, <2>2
<1>9. c = <<x, y, z>>
  BY <1>5, <1>8
<1> QED
  BY <1>2, <1>3, <1>4, <1>9

(* The three steps of a transfer's return move nothing in all.             *)
LEMMA BackSound ==
  ASSUME TypeInv, NEW l \in Line, NEW k \in TransfersOf(l), NEW q, UndoingOf(db, q, l), <<"wire", k>> \in q.on
  PROVE  /\ Piece(db, q, Back(k)) /\ Erasing(Back(k)) /\ Len(Back(k)) = 3
         /\ \A a \in Account : Total(db, Back(k), a) = 0
<1>1. PICK w : w = db.transfers[k]
  OBVIOUS
<1>2. k \in DOMAIN db.transfers /\ w.live /\ w.line = l
  BY <1>1 DEF TransfersOf
<1>3. IsDatabase(db)
  BY DEF TypeInv
<1>4. GoodWire(w) /\ w["from"] \in Account /\ w["to"] \in Account /\ w["amount"] \in Int /\ w["from"] # w["to"]
  BY <1>1, <1>2, <1>3, WireFields DEF IsDatabase, GoodWire
<1>5. PICK m1 : m1 = Move(w.from, w.amount)
  OBVIOUS
<1>6. PICK m2 : m2 = Move(w.to, -w.amount)
  OBVIOUS
<1>7. PICK x1 : x1 = MoveTx(m1)
  OBVIOUS
<1>8. PICK x2 : x2 = MoveTx(m2)
  OBVIOUS
<1>9. PICK x3 : x3 = UnwireTx(k)
  OBVIOUS
<1>10. PICK s1 : s1 = <<>> \o <<x1>>
  OBVIOUS
<1>11. PICK s2 : s2 = s1 \o <<x2>>
  OBVIOUS
<1>12. PICK s3 : s3 = s2 \o <<x3>>
  OBVIOUS
<1>13. s3 = Back(k)
  <2>1. Back(k) = <<x1, x2, x3>>
    BY <1>1, <1>5, <1>6, <1>7, <1>8, <1>9 DEF Back, MoveTx, UnwireTx
  <2>2. s3 = <<x1, x2, x3>>
    BY <1>10, <1>11, <1>12, ThreeSteps
  <2> QED
    BY <2>1, <2>2
<1>14. /\ Piece(db, q, <<>>) /\ Erasing(<<>>) /\ Len(<<>>) = 0 /\ Len(<<>>) < 8
       /\ \A a \in Account : Total(db, <<>>, a) = 0
  BY PieceOfNone
<1>15. /\ IsMove(m1)
       /\ \A a \in Account : At(m1, a) = IF w.from = a THEN w.amount ELSE 0
  BY <1>4, <1>5, MoveWide
<1>16. /\ IsMove(m2)
       /\ \A a \in Account : At(m2, a) = IF w.to = a THEN -w.amount ELSE 0
  <2>1. -w.amount \in Int
    BY <1>4
  <2> QED
    BY <1>4, <1>6, <2>1, MoveWide
<1>17. Appends(db, q, <<>>, x1, s1) /\ Erasing(s1) /\ Moves(db, x1, m1)
  BY <1>3, <1>7, <1>10, <1>14, <1>15, PieceMoves
<1>18. Piece(db, q, s1) /\ Len(s1) = 1 /\ Len(s1) < 8
  BY <1>14, <1>17 DEF Appends
<1>19. Appends(db, q, s1, x2, s2) /\ Erasing(s2) /\ Moves(db, x2, m2)
  BY <1>3, <1>8, <1>11, <1>16, <1>17, <1>18, PieceMoves
<1>20. Piece(db, q, s2) /\ Len(s2) = 2 /\ Len(s2) < 8
  BY <1>18, <1>19 DEF Appends
<1>21. /\ IsStep(db, x3, l) /\ DOMAIN x3.touch = {} /\ DOMAIN x3.unwire = {k}
       /\ \A a \in Account : Effect(db, x3, a) = At(Carry(w.from, w.to, w.amount), a)
  BY <1>1, <1>2, <1>3, <1>9, UnwiringStep
<1>22. IsTx(db, x3) /\ SoundTx(db, q, x3)
  <2>1. Covered(q, x3) /\ KeepsRows(db, x3)
    BY <1>21 DEF Covered, KeepsRows
  <2> QED
    BY <1>21, <2>1, StepTx, StepSound
<1>23. Appends(db, q, s2, x3, s3)
  BY <1>3, <1>12, <1>20, <1>21, <1>22, PieceAppends
<1>24. Piece(db, q, s3) /\ Len(s3) = 3 /\ Erasing(s3)
  BY <1>19, <1>20, <1>21, <1>23 DEF Appends
<1>25. ASSUME NEW a \in Account PROVE Total(db, s3, a) = 0
  <2>1. Total(db, s1, a) = 0 + At(m1, a)
    BY <1>14, <1>17 DEF Appends, Moves
  <2>2. Total(db, s2, a) = Total(db, s1, a) + At(m2, a)
    BY <1>19 DEF Appends, Moves
  <2>3. Total(db, s3, a) = Total(db, s2, a) + At(Carry(w.from, w.to, w.amount), a)
    BY <1>21, <1>23 DEF Appends
  <2>4. At(Carry(w.from, w.to, w.amount), a) = IF a = w.to THEN w.amount ELSE IF a = w.from THEN -w.amount ELSE 0
    BY <1>4, CarryTyped DEF CarryIs
  <2> QED
    BY <1>4, <1>15, <1>16, <2>1, <2>2, <2>3, <2>4
<1> QED
  BY <1>13, <1>24, <1>25

LEMMA TwoSteps ==
  ASSUME NEW S, NEW s \in Seq(S), NEW x, NEW y
  PROVE  s \o <<x, y>> = (s \o <<x>>) \o <<y>> /\ s \o <<>> = s
<1>1. PICK T : T = S \cup {x, y}
  OBVIOUS
<1>2. s \in Seq(T) /\ x \in T /\ y \in T /\ Len(s) \in Nat
  BY <1>1
<1>3. PICK a : a = s \o <<x>>
  OBVIOUS
<1>4. PICK b : b = a \o <<y>>
  OBVIOUS
<1>5. PICK c : c = s \o <<x, y>>
  OBVIOUS
<1>6. /\ a \in Seq(T) /\ Len(a) = Len(s) + 1 /\ a[Len(s) + 1] = x /\ \A m \in 1..Len(s) : a[m] = s[m]
  BY <1>2, <1>3, Joined
<1>7. /\ b \in Seq(T) /\ Len(b) = Len(a) + 1 /\ b[Len(a) + 1] = y /\ \A m \in 1..Len(a) : b[m] = a[m]
  BY <1>2, <1>4, <1>6, Joined
<1>8. c \in Seq(T) /\ Len(c) = Len(s) + 2 /\ c[Len(s) + 1] = x /\ c[Len(s) + 2] = y /\ \A m \in 1..Len(s) : c[m] = s[m]
  BY <1>2, <1>5
<1>9. b = c
  <2>1. Len(b) = Len(c)
    BY <1>2, <1>6, <1>7, <1>8
  <2>2. ASSUME NEW m \in 1..Len(b) PROVE b[m] = c[m]
    <3>1. m \in 1..Len(s) \/ m = Len(s) + 1 \/ m = Len(s) + 2
      BY <1>2, <1>6, <1>7
    <3> QED
      BY <1>2, <1>6, <1>7, <1>8, <3>1
  <2> QED
    BY <1>7, <1>8, <2>1, <2>2
<1>10. s \o <<>> = s
  <2>1. <<>> \in Seq(T) /\ Len(<<>>) = 0
    OBVIOUS
  <2>2. PICK z : z = s \o <<>>
    OBVIOUS
  <2>3. z \in Seq(T) /\ Len(z) = Len(s) /\ \A m \in 1..Len(s) : z[m] = s[m]
    BY <1>2, <2>1, <2>2
  <2> QED
    BY <1>2, <2>2, <2>3
<1> QED
  BY <1>3, <1>4, <1>5, <1>9, <1>10

(* The row of the fee: what is credited back for it, and its erasure.      *)
Fee(l) == db.entries[TaxOf(l)]
Credit(l) == [a \in {Fee(l).account} |-> Fee(l).net]
Erased == [live |-> FALSE, status |-> "ERASED"]

LEMMA UntaxedIs ==
  ASSUME NEW l
  PROVE  /\ TaxesOf(l) = {} => Untaxed(l, TRUE) = <<>> /\ Untaxed(l, FALSE) = <<>>
         /\ TaxesOf(l) # {} => /\ Untaxed(l, TRUE) = <<MoveTx(Credit(l)), TouchTx(TaxOf(l), Erased)>>
                               /\ Untaxed(l, FALSE) = <<TouchTx(TaxOf(l), Erased)>>
<1>1. CASE TaxesOf(l) = {}
  BY <1>1 DEF Untaxed
<1>2. CASE TaxesOf(l) # {}
  BY <1>2 DEF Untaxed, MoveTx, TouchTx, Fee, Credit, Erased
<1> QED
  BY <1>1, <1>2

LEMMA FeeIs ==
  ASSUME TypeInv, NEW l \in Line, TaxesOf(l) # {}, NEW e, e = Fee(l)
  PROVE  /\ TaxOf(l) \in TaxesOf(l) /\ TaxOf(l) \in DOMAIN db.entries /\ e = db.entries[TaxOf(l)]
         /\ GoodEntry(e) /\ e.live /\ e.type = "PAYABLE" /\ e.account \in Account \cup {NoAccount} /\ e.net \in Int
         /\ IsMove(Credit(l)) /\ \A a \in Account : At(Credit(l), a) = IF e.account = a THEN e.net ELSE 0
<1>1. TaxOf(l) \in TaxesOf(l)
  BY DEF TaxOf
<1>2. TaxOf(l) \in DOMAIN db.entries /\ e = db.entries[TaxOf(l)] /\ e.live /\ e.line = l
  BY <1>1 DEF Fee, TaxesOf
<1>3. GoodEntry(e) /\ e["account"] \in Account \cup {NoAccount} /\ e["net"] \in Int
  BY <1>2, RowOf
<1>4. e.type = "PAYABLE"
  BY <1>2, <1>3, LineAssumption DEF GoodEntry
<1>5. PICK c : c = Credit(l)
  OBVIOUS
<1>6. DOMAIN c = {e.account} /\ c[e.account] = e.net
  BY <1>5 DEF Credit
<1>7. IsMove(c) /\ \A a \in Account : At(c, a) = IF e.account = a THEN e.net ELSE 0
  BY <1>3, <1>6 DEF IsMove, At
<1> QED
  BY <1>1, <1>2, <1>3, <1>4, <1>5, <1>7

(* A step that writes a row, at the end of a piece.                        *)
Writes(d, q, s, x, z, e) ==
  /\ Appends(d, q, s, x, z)
  /\ \A a \in Account : Effect(d, x, a) = Worth(e, a, Month)

LEMMA PieceWrites ==
  ASSUME NEW d, IsDatabase(d), NEW l \in Line, NEW q, UndoingOf(d, q, l), NEW s, Piece(d, q, s), Len(s) < 8, Erasing(s),
         NEW i \in DOMAIN d.entries, NEW p, IsPatch(d.entries[i].cut, p), "gross" \notin DOMAIN p,
         NEW e, e = d.entries[i], NEW n, n = Patched(e, p), n.status # "PAID" \/ ~n.live, Regular(n),
         <<"entry", i>> \in q.on, NEW x, x = TouchTx(i, p)
  PROVE  /\ Writes(d, q, s, x, s \o <<x>>, e)
         /\ Erases(p) => Erasing(s \o <<x>>)
         /\ e.status = "ERASED" => Lost(d, x)
<1>1. /\ IsStep(d, x, l) /\ DOMAIN x.touch = {i} /\ x.touch[i] = p /\ DOMAIN x.unwire = {}
      /\ \A a \in Account : Effect(d, x, a) = Worth(e, a, Month)
  BY WritingStep
<1>2. Covered(q, x) /\ KeepsRows(d, x)
  BY <1>1 DEF Covered, KeepsRows
<1>3. IsTx(d, x) /\ SoundTx(d, q, x)
  BY <1>1, <1>2, StepTx, StepSound
<1>4. Appends(d, q, s, x, s \o <<x>>)
  BY <1>3, PieceAppends
<1>5. Erases(p) => Erasing(s \o <<x>>)
  BY <1>1, <1>4 DEF Appends
<1>6. e.status = "ERASED" => Lost(d, x)
  BY <1>1 DEF Lost
<1> QED
  BY <1>1, <1>4, <1>5, <1>6 DEF Writes

LEMMA ErasedTax ==
  ASSUME TypeInv, NEW l \in Line, TaxesOf(l) # {}, NEW q, UndoingOf(db, q, l), <<"entry", TaxOf(l)>> \in q.on,
         NEW s, Piece(db, q, s), Len(s) < 8, Erasing(s), NEW x, x = TouchTx(TaxOf(l), Erased)
  PROVE  Writes(db, q, s, x, s \o <<x>>, Fee(l)) /\ Erasing(s \o <<x>>)
<1>1. PICK i : i = TaxOf(l)
  OBVIOUS
<1>2. PICK e : e = Fee(l)
  OBVIOUS
<1>3. i \in DOMAIN db.entries /\ e = db.entries[i] /\ GoodEntry(e)
  BY <1>1, <1>2, FeeIs
<1>4. PICK p : p = Erased
  OBVIOUS
<1>5. PICK n : n = Patched(e, p)
  OBVIOUS
<1>6. Erases(p)
  BY <1>4 DEF Erased, Erases
<1>7. IsPatch(e.cut, p) /\ "gross" \notin DOMAIN p /\ ~n.live /\ Regular(n)
  BY <1>3, <1>4, <1>5, <1>6, RemovedPatch DEF Erased
<1>8. x = TouchTx(i, p) /\ <<"entry", i>> \in q.on /\ IsDatabase(db)
  BY <1>1, <1>4 DEF TypeInv
<1> QED
  BY <1>2, <1>3, <1>5, <1>6, <1>7, <1>8, PieceWrites

(* The fee undone with its transfer, and undone without.                   *)
LEMMA PieceSeq ==
  ASSUME NEW d, NEW q, NEW s, Piece(d, q, s)
  PROVE  (\E S : s \in Seq(S)) /\ Len(s) \in Nat
<1>1. \E S : s \in Seq(S)
  BY DEF Piece, IsScript
<1>2. Len(s) \in Nat
  BY <1>1
<1> QED
  BY <1>1, <1>2

Longer(q, s, z, n) == Piece(db, q, z) /\ Erasing(z) /\ Len(z) <= Len(s) + n
Same(s, z) == \A a \in Account : Total(db, z, a) = Total(db, s, a)
With(s, z, e) == \A a \in Account : Total(db, z, a) = Total(db, s, a) + Worth(e, a, Month)

(* Whatever is moved back with a posting is what the posting was worth.    *)
LEMMA Cancels ==
  ASSUME TypeInv, NEW q, NEW s, Piece(db, q, s), NEW b, NEW z, NEW x, NEW m, IsMove(m),
         Appends(db, q, s, x, b), Moves(db, x, m),
         NEW e, \A a \in Account : At(m, a) + Worth(e, a, Month) = 0, GoodEntry(e), With(b, z, e)
  PROVE  Same(s, z)
<1> SUFFICES ASSUME NEW a \in Account PROVE Total(db, z, a) = Total(db, s, a)
  BY DEF Same
<1>1. PICK u : u = Total(db, s, a)
  OBVIOUS
<1>2. PICK v : v = Total(db, b, a)
  OBVIOUS
<1>3. PICK w : w = Worth(e, a, Month)
  OBVIOUS
<1>4. IsDatabase(db)
  BY DEF TypeInv
<1>5. u \in Int /\ w \in Int /\ At(m, a) \in Int
  BY <1>1, <1>3, <1>4, TotalInt, WorthInt DEF IsMove, At
<1>6. v = u + At(m, a) /\ At(m, a) + w = 0
  BY <1>1, <1>2, <1>3 DEF Appends, Moves
<1>7. Total(db, z, a) = v + w
  BY <1>2, <1>3 DEF With
<1>8. PICK c \in Int : c = At(m, a)
  BY <1>5
<1>9. Total(db, z, a) = (u + c) + w /\ c + w = 0
  BY <1>6, <1>7, <1>8
<1>10. (u + c) + w = u
  BY <1>5, <1>9
<1> QED
  BY <1>1, <1>9, <1>10

LEMMA UntaxedWired ==
  ASSUME TypeInv, NEW l \in Line, NEW q, UndoingOf(db, q, l), \A t \in TaxesOf(l) : <<"entry", t>> \in q.on,
         NEW s, Piece(db, q, s), Len(s) <= 4, Erasing(s), NEW z, z = s \o Untaxed(l, TRUE)
  PROVE  Longer(q, s, z, 2) /\ (TaxesOf(l) = {} \/ IsPaid(Fee(l)) => Same(s, z))
<1>1. PICK S : s \in Seq(S)
  BY PieceSeq
<1>2. IsDatabase(db) /\ Len(s) \in Nat /\ Len(s) < 8
  BY PieceSeq DEF TypeInv
<1>3. CASE TaxesOf(l) = {}
  <2>1. z = s \o <<>>
    BY <1>3, UntaxedIs
  <2>2. s \o <<>> = s
    BY <1>1, TwoSteps
  <2>3. z = s
    BY ONLY <2>1, <2>2
  <2>4. Same(s, z)
    BY <2>3 DEF Same
  <2>5. Longer(q, s, z, 2)
    <3>1. Piece(db, q, z) /\ Erasing(z) /\ Len(z) = Len(s)
      BY <2>3
    <3>2. Len(z) <= Len(s) + 2
      BY ONLY <1>2, <3>1
    <3> QED
      BY <3>1, <3>2 DEF Longer
  <2> QED
    BY <2>4, <2>5
<1>4. CASE TaxesOf(l) # {}
  <2>1. PICK x : x = MoveTx(Credit(l))
    OBVIOUS
  <2>2. PICK y : y = TouchTx(TaxOf(l), Erased)
    OBVIOUS
  <2>3. z = s \o <<x, y>>
    BY <1>4, <2>1, <2>2, UntaxedIs
  <2>4. PICK b : b = s \o <<x>>
    OBVIOUS
  <2>5. z = b \o <<y>>
    <3>1. s \o <<x, y>> = (s \o <<x>>) \o <<y>>
      BY <1>1, TwoSteps
    <3> QED
      BY ONLY <2>3, <2>4, <3>1
  <2>6. PICK e : e = Fee(l)
    OBVIOUS
  <2>7. /\ TaxOf(l) \in TaxesOf(l) /\ GoodEntry(e) /\ e.live /\ e.type = "PAYABLE" /\ e.net \in Int
        /\ IsMove(Credit(l)) /\ \A a \in Account : At(Credit(l), a) = IF e.account = a THEN e.net ELSE 0
    BY <1>4, <2>6, FeeIs
  <2>8. PICK m : m = Credit(l)
    OBVIOUS
  <2>9. IsMove(m) /\ x = MoveTx(m)
    BY <2>1, <2>7, <2>8
  <2>10. Appends(db, q, s, x, b) /\ Erasing(b) /\ Moves(db, x, m)
    BY <1>2, <2>4, <2>9, PieceMoves
  <2>11. Piece(db, q, b) /\ Len(b) = Len(s) + 1 /\ Len(b) < 8
    BY <1>2, <2>10 DEF Appends
  <2>12. Writes(db, q, b, y, z, e) /\ Erasing(z)
    <3>1. <<"entry", TaxOf(l)>> \in q.on
      BY <2>7
    <3>2. Writes(db, q, b, y, b \o <<y>>, Fee(l)) /\ Erasing(b \o <<y>>)
      BY <1>4, <2>2, <2>10, <2>11, <3>1, ErasedTax
    <3> QED
      BY <2>5, <2>6, <3>2
  <2>13. Piece(db, q, z) /\ Len(z) = Len(b) + 1 /\ With(b, z, e)
    BY <2>12 DEF Writes, Appends, With
  <2>14. Longer(q, s, z, 2)
    <3>1. Len(z) <= Len(s) + 2
      BY ONLY <1>2, <2>11, <2>13
    <3> QED
      BY <2>12, <2>13, <3>1 DEF Longer
  <2>15. ASSUME IsPaid(e) PROVE Same(s, z)
    <3>1. e.status = "PAID" /\ e.month \in Month /\ Signed(e) = -e.net
      BY <2>7, <2>15 DEF IsPaid, GoodEntry, Signed, Sign
    <3>2. ASSUME NEW a \in Account PROVE At(m, a) + Worth(e, a, Month) = 0
      <4>1. CASE e.account = a
        <5>1. Worth(e, a, Month) = -e.net
          BY <2>7, <3>1, <4>1, WorthOfPaid
        <5>2. At(m, a) = e.net
          BY <2>7, <2>8, <4>1
        <5> QED
          BY <2>7, <5>1, <5>2
      <4>2. CASE e.account # a
        <5>1. Worth(e, a, Month) = 0
          BY <2>7, <3>1, <4>2, WorthOfPaid
        <5>2. At(m, a) = 0
          BY <2>7, <2>8, <4>2
        <5> QED
          BY <5>1, <5>2
      <4> QED
        BY <4>1, <4>2
    <3>3. GoodEntry(e)
      BY <2>7
    <3> QED
      BY <2>9, <2>10, <2>13, <3>2, <3>3, Cancels
  <2> QED
    BY <1>4, <2>6, <2>14, <2>15
<1> QED
  BY <1>3, <1>4

LEMMA UntaxedAlone ==
  ASSUME TypeInv, NEW l \in Line, NEW q, UndoingOf(db, q, l), \A t \in TaxesOf(l) : <<"entry", t>> \in q.on,
         NEW s, Piece(db, q, s), Len(s) <= 4, Erasing(s), NEW z, z = s \o Untaxed(l, FALSE)
  PROVE  Longer(q, s, z, 1) /\ (IF TaxesOf(l) = {} THEN Same(s, z) ELSE With(s, z, Fee(l)))
<1>1. PICK S : s \in Seq(S)
  BY PieceSeq
<1>2. IsDatabase(db) /\ Len(s) \in Nat /\ Len(s) < 8
  BY PieceSeq DEF TypeInv
<1>3. CASE TaxesOf(l) = {}
  <2>1. z = s \o <<>>
    BY <1>3, UntaxedIs
  <2>2. s \o <<>> = s
    BY <1>1, TwoSteps
  <2>3. z = s
    BY ONLY <2>1, <2>2
  <2>4. Same(s, z)
    BY <2>3 DEF Same
  <2>5. Longer(q, s, z, 1)
    <3>1. Piece(db, q, z) /\ Erasing(z) /\ Len(z) = Len(s)
      BY <2>3
    <3>2. Len(z) <= Len(s) + 1
      BY ONLY <1>2, <3>1
    <3> QED
      BY <3>1, <3>2 DEF Longer
  <2> QED
    BY <1>3, <2>4, <2>5
<1>4. CASE TaxesOf(l) # {}
  <2>1. PICK y : y = TouchTx(TaxOf(l), Erased)
    OBVIOUS
  <2>2. z = s \o <<y>>
    BY <1>4, <2>1, UntaxedIs
  <2>3. PICK e : e = Fee(l)
    OBVIOUS
  <2>4. TaxOf(l) \in TaxesOf(l)
    BY <1>4, <2>3, FeeIs
  <2>6. Writes(db, q, s, y, z, e) /\ Erasing(z)
    <3>1. <<"entry", TaxOf(l)>> \in q.on
      BY <2>4
    <3>2. Writes(db, q, s, y, s \o <<y>>, Fee(l)) /\ Erasing(s \o <<y>>)
      BY <1>2, <1>4, <2>1, <3>1, ErasedTax
    <3> QED
      BY <2>2, <2>3, <3>2
  <2>7. Piece(db, q, z) /\ Len(z) = Len(s) + 1 /\ With(s, z, e)
    BY <2>6 DEF Writes, Appends, With
  <2>8. Longer(q, s, z, 1)
    <3>1. Len(z) <= Len(s) + 1
      BY ONLY <1>2, <2>7
    <3> QED
      BY <2>6, <2>7, <3>1 DEF Longer
  <2> QED
    BY <1>4, <2>3, <2>7, <2>8
<1> QED
  BY <1>3, <1>4

(* A match undone: what makes it wrong, and what it comes to otherwise.    *)
Wrong(l, i) ==
  LET e == db.entries[i]
      wired == TransfersOf(l) # {}
  IN \/ wired /\ e.auto /\ IsPaid(e) /\ e.gross # e.net
     \/ wired /\ TaxesOf(l) # {} /\ ~IsPaid(Fee(l))
     \/ ~wired /\ e.auto /\ \E a \in Account : Brought(l, i, a) # IF a = Bank THEN LineAmount[l] ELSE 0
     \/ ~e.auto /\ e.account = Bank /\ transit # NoAccount

Fails(s) == \E n \in DOMAIN s : Lost(db, s[n])
GivesBack(s) == \A a \in Account : Total(db, s, a) = 0
Finishes(q, l, i, s) ==
  Regular(db.entries[i]) /\ ~Wrong(l, i) => Piece(db, q, s) /\ (Fails(s) \/ GivesBack(s))

Pending(a) == [status |-> "PENDING", month |-> 0, auto |-> FALSE, account |-> a]

Ended(q, s, z, e) ==
  Piece(db, q, z) /\ Len(z) = Len(s) + 1 /\ With(s, z, e) /\ (e.status = "ERASED" => Fails(z))

LEMMA PendingEnds ==
  ASSUME TypeInv, NEW l \in Line, NEW q, UndoingOf(db, q, l), NEW i \in DOMAIN db.entries, <<"entry", i>> \in q.on,
         NEW s, Piece(db, q, s), Len(s) < 8, Erasing(s), NEW a \in Account \cup {NoAccount}, NEW e, e = db.entries[i],
         NEW z, z = s \o <<TouchTx(i, Pending(a))>>
  PROVE  Ended(q, s, z, e)
<1>1. PICK p : p = Pending(a)
  OBVIOUS
<1>2. PICK n : n = Patched(e, p)
  OBVIOUS
<1>3. PICK x : x = TouchTx(i, p)
  OBVIOUS
<1>4. GoodEntry(e) /\ IsDatabase(db)
  BY RowOf DEF TypeInv
<1>5. IsPatch(e.cut, p) /\ "gross" \notin DOMAIN p /\ Regular(n) /\ n.status # "PAID"
  BY <1>1, <1>2, <1>4, UnpaidPatch DEF Pending
<1>6. Writes(db, q, s, x, s \o <<x>>, e) /\ (e.status = "ERASED" => Lost(db, x))
  BY <1>2, <1>3, <1>4, <1>5, PieceWrites
<1>7. z = s \o <<x>>
  BY <1>1, <1>3
<1>8. Appends(db, q, s, x, z) /\ With(s, z, e)
  BY <1>6, <1>7 DEF Writes, With, Appends
<1>9. Len(z) \in DOMAIN z /\ z[Len(z)] = x /\ Piece(db, q, z) /\ Len(z) = Len(s) + 1
  BY <1>8 DEF Appends
<1>10. e.status = "ERASED" => Fails(z)
  BY <1>6, <1>9 DEF Fails
<1> QED
  BY <1>8, <1>9, <1>10 DEF Ended

(* Sums of what three parts of an undoing come to.                         *)
LEMMA ThreeParts ==
  ASSUME TypeInv, NEW q, NEW s, Piece(db, q, s), GivesBack(s), NEW b, NEW x, NEW m, IsMove(m),
         Appends(db, q, s, x, b), Moves(db, x, m), NEW c, Same(b, c), NEW e, GoodEntry(e),
         \A a \in Account : At(m, a) + Worth(e, a, Month) = 0, NEW z, With(c, z, e)
  PROVE  GivesBack(z)
<1>1. With(b, z, e)
  BY DEF With, Same
<1>2. Same(s, z)
  BY <1>1, Cancels
<1> QED
  BY <1>2 DEF Same, GivesBack

LEMMA AutoWired ==
  ASSUME TypeInv, NEW l \in Line, NEW k \in TransfersOf(l), NEW q, UndoingOf(db, q, l), <<"wire", k>> \in q.on,
         \A t \in TaxesOf(l) : <<"entry", t>> \in q.on, NEW i \in DOMAIN db.entries, <<"entry", i>> \in q.on,
         NEW e, e = db.entries[i], e.auto, NEW m, m = Move(e.account, -Sign(e) * e.gross), NEW z,
         z = ((Back(k) \o <<MoveTx(m)>>) \o Untaxed(l, TRUE)) \o <<TouchTx(i, Pending(e.account))>>
  PROVE  Piece(db, q, z) /\ Len(z) <= 7 /\ Finishes(q, l, i, z)
<1>1. PICK s : s = Back(k)
  OBVIOUS
<1>2. PICK x : x = MoveTx(m)
  OBVIOUS
<1>3. PICK b : b = s \o <<x>>
  OBVIOUS
<1>4. PICK c : c = b \o Untaxed(l, TRUE)
  OBVIOUS
<1>5. z = c \o <<TouchTx(i, Pending(e.account))>>
  BY <1>1, <1>2, <1>3, <1>4
<1>6. Piece(db, q, s) /\ Erasing(s) /\ Len(s) = 3 /\ Len(s) < 8 /\ GivesBack(s)
  <2>1. /\ Piece(db, q, Back(k)) /\ Erasing(Back(k)) /\ Len(Back(k)) = 3
        /\ \A a \in Account : Total(db, Back(k), a) = 0
    BY BackSound
  <2>2. GivesBack(Back(k))
    BY <2>1 DEF GivesBack
  <2> QED
    BY <1>1, <2>1, <2>2
<1>7. /\ GoodEntry(e) /\ IsDatabase(db) /\ e.account \in Account \cup {NoAccount} /\ e.gross \in Int /\ e.net \in Int
      /\ e.type \in {"RECEIVABLE", "PAYABLE"}
  BY RowOf DEF TypeInv
<1>8. Sign(e) \in Int /\ -Sign(e) * e.gross \in Int
  BY <1>7 DEF Sign
<1>9. IsMove(m) /\ \A a \in Account : At(m, a) = IF e.account = a THEN -Sign(e) * e.gross ELSE 0
  BY <1>7, <1>8, MoveWide
<1>10. Appends(db, q, s, x, b) /\ Erasing(b) /\ Moves(db, x, m)
  <2>1. Appends(db, q, s, x, s \o <<x>>) /\ Erasing(s \o <<x>>) /\ Moves(db, x, m)
    <3>1. /\ l \in Line /\ IsDatabase(db) /\ UndoingOf(db, q, l) /\ Piece(db, q, s) /\ Len(s) < 8 /\ Erasing(s)
          /\ IsMove(m) /\ x = MoveTx(m)
      BY <1>2, <1>6, <1>7, <1>9
    <3> QED
      BY ONLY <3>1, PieceMoves
  <2> QED
    BY <1>3, <2>1
<1>11. Piece(db, q, b) /\ Len(b) = 4 /\ Len(b) <= 4
  BY <1>6, <1>10 DEF Appends
<1>12. Longer(q, b, c, 2) /\ (TaxesOf(l) = {} \/ IsPaid(Fee(l)) => Same(b, c))
  BY <1>4, <1>10, <1>11, UntaxedWired
<1>13. Piece(db, q, c) /\ Erasing(c) /\ Len(c) <= 6 /\ Len(c) \in Nat /\ Len(c) < 8
  <2>1. Piece(db, q, c) /\ Erasing(c) /\ Len(c) <= Len(b) + 2
    BY <1>12 DEF Longer
  <2>2. Len(c) \in Nat
    BY <2>1, PieceSeq
  <2> QED
    BY <1>11, <2>1, <2>2
<1>14. Ended(q, c, z, e)
  BY <1>5, <1>7, <1>13, PendingEnds
<1>15. Piece(db, q, z) /\ With(c, z, e) /\ (e.status = "ERASED" => Fails(z)) /\ Len(z) = Len(c) + 1
  BY <1>14 DEF Ended
<1>16. Len(z) <= 7
  BY ONLY <1>13, <1>15
<1>17. ASSUME Regular(e), ~Wrong(l, i), e.status # "ERASED"
       PROVE  GivesBack(z)
  <2>1. TransfersOf(l) # {}
    OBVIOUS
  <2>2. Same(b, c)
    BY <1>12, <1>17, <2>1 DEF Wrong
  <2>3. e.status = "PAID" => e.gross = e.net
    BY <1>17, <2>1 DEF Wrong, IsPaid
  <2>4. ASSUME NEW a \in Account PROVE At(m, a) + Worth(e, a, Month) = 0
    <3>1. CASE e.status # "PAID"
      <4>1. e.account = NoAccount
        BY <1>17, <3>1 DEF Regular
      <4>2. At(m, a) = 0
        BY <1>9, <4>1, AccountAssumption
      <4>3. Worth(e, a, Month) = 0
        BY <3>1, WorthZero
      <4> QED
        BY <4>2, <4>3
    <3>2. CASE e.status = "PAID"
      <4>1. e.live /\ e.month \in Month /\ e.gross = e.net
        BY <1>7, <1>17, <2>3, <3>2 DEF Regular, GoodEntry
      <4>2. Worth(e, a, Month) = IF e.account = a THEN Signed(e) ELSE 0
        BY <3>2, <4>1, WorthOfPaid
      <4>3. CASE e.account = a
        <5>1. Worth(e, a, Month) = Sign(e) * e.net
          BY <4>2, <4>3 DEF Signed
        <5>2. At(m, a) = -Sign(e) * e.net
          BY <1>9, <4>1, <4>3
        <5>3. -Sign(e) * e.net + Sign(e) * e.net = 0
          BY <1>7 DEF Sign
        <5> QED
          BY <5>1, <5>2, <5>3
      <4>4. CASE e.account # a
        BY <1>9, <4>2, <4>4
      <4> QED
        BY <4>3, <4>4
    <3> QED
      BY <3>1, <3>2
  <2> QED
    <3>1. /\ TypeInv /\ Piece(db, q, s) /\ GivesBack(s) /\ IsMove(m) /\ Appends(db, q, s, x, b) /\ Moves(db, x, m)
          /\ Same(b, c) /\ GoodEntry(e) /\ With(c, z, e)
      BY <1>6, <1>7, <1>9, <1>10, <1>15, <2>2
    <3> QED
      BY ONLY <3>1, <2>4, ThreeParts
<1>18. Finishes(q, l, i, z)
  BY <1>15, <1>17 DEF Finishes
<1> QED
  BY <1>15, <1>16, <1>18

LEMMA OneStep ==
  ASSUME NEW x
  PROVE  <<>> \o <<x>> = <<x>>
<1>1. PICK S : S = {x}
  OBVIOUS
<1>2. PICK z : z = <<>> \o <<x>>
  OBVIOUS
<1>3. <<>> \in Seq(S) /\ x \in S /\ Len(<<>>) = 0
  BY <1>1
<1>4. z \in Seq(S) /\ Len(z) = Len(<<>>) + 1 /\ z[Len(<<>>) + 1] = x
  BY <1>2, <1>3, Joined
<1>5. z = <<x>>
  BY <1>3, <1>4
<1> QED
  BY <1>2, <1>5

(* A step of its own that moves.                                           *)
LEMMA MovesFirst ==
  ASSUME NEW d, IsDatabase(d), NEW l \in Line, NEW q, UndoingOf(d, q, l), NEW m, IsMove(m), NEW x, x = MoveTx(m)
  PROVE  Appends(d, q, <<>>, x, <<x>>) /\ Erasing(<<x>>) /\ Moves(d, x, m)
<1>1. Piece(d, q, <<>>) /\ Erasing(<<>>) /\ Len(<<>>) = 0 /\ Len(<<>>) < 8
  BY PieceOfNone
<1>2. PICK s : s = <<>>
  OBVIOUS
<1>3. Piece(d, q, s) /\ Erasing(s) /\ Len(s) < 8
  BY <1>1, <1>2
<1>4. Appends(d, q, s, x, s \o <<x>>) /\ Erasing(s \o <<x>>) /\ Moves(d, x, m)
  BY <1>3, PieceMoves
<1>5. s \o <<x>> = <<x>>
  BY <1>2, OneStep
<1>6. Appends(d, q, s, x, <<x>>) /\ Erasing(<<x>>) /\ Moves(d, x, m)
  BY ONLY <1>4, <1>5, Zenon
<1> QED
  BY <1>2, <1>6

LEMMA AutoAlone ==
  ASSUME TypeInv, NEW l \in Line, TransfersOf(l) = {}, NEW q, UndoingOf(db, q, l),
         \A t \in TaxesOf(l) : <<"entry", t>> \in q.on, NEW i \in DOMAIN db.entries, <<"entry", i>> \in q.on,
         NEW e, e = db.entries[i], e.auto, NEW m, m = Move(Bank, -LineAmount[l]), NEW z,
         z = (<<MoveTx(m)>> \o Untaxed(l, FALSE)) \o <<TouchTx(i, Pending(NoAccount))>>
  PROVE  Piece(db, q, z) /\ Len(z) <= 7 /\ Finishes(q, l, i, z)
<1>1. PICK x : x = MoveTx(m)
  OBVIOUS
<1>2. PICK b : b = <<x>>
  OBVIOUS
<1>3. PICK c : c = b \o Untaxed(l, FALSE)
  OBVIOUS
<1>4. PICK a0 : a0 = NoAccount
  OBVIOUS
<1>5. z = c \o <<TouchTx(i, Pending(a0))>> /\ a0 \in Account \cup {NoAccount}
  BY <1>1, <1>2, <1>3, <1>4
<1>6. GoodEntry(e) /\ IsDatabase(db)
  BY RowOf DEF TypeInv
<1>7. LineAmount[l] \in Int /\ -LineAmount[l] \in Int /\ Bank \in Account
  BY LineIs, AccountAssumption
<1>8. IsMove(m) /\ \A a \in Account : At(m, a) = IF Bank = a THEN -LineAmount[l] ELSE 0
  BY <1>7, MoveWide
<1>9. Appends(db, q, <<>>, x, b) /\ Erasing(b) /\ Moves(db, x, m)
  <2>1. IsDatabase(db) /\ l \in Line /\ UndoingOf(db, q, l) /\ IsMove(m) /\ x = MoveTx(m)
    BY <1>1, <1>6, <1>8
  <2>2. Appends(db, q, <<>>, x, <<x>>) /\ Erasing(<<x>>) /\ Moves(db, x, m)
    BY ONLY <2>1, MovesFirst
  <2> QED
    BY <1>2, <2>2
<1>10. Piece(db, q, <<>>) /\ Len(<<>>) = 0 /\ \A a \in Account : Total(db, <<>>, a) = 0
  BY PieceOfNone
<1>11. Piece(db, q, b) /\ Len(b) = 1 /\ Len(b) <= 4
  BY <1>9, <1>10 DEF Appends
<1>12. Longer(q, b, c, 1) /\ (IF TaxesOf(l) = {} THEN Same(b, c) ELSE With(b, c, Fee(l)))
  BY <1>3, <1>9, <1>11, UntaxedAlone
<1>13. Piece(db, q, c) /\ Erasing(c) /\ Len(c) <= 2 /\ Len(c) \in Nat /\ Len(c) < 8
  <2>1. Piece(db, q, c) /\ Erasing(c) /\ Len(c) <= Len(b) + 1
    BY <1>12 DEF Longer
  <2>2. Len(c) \in Nat
    BY <2>1, PieceSeq
  <2> QED
    BY <1>11, <2>1, <2>2
<1>14. Ended(q, c, z, e)
  BY <1>5, <1>6, <1>13, PendingEnds
<1>15. Piece(db, q, z) /\ With(c, z, e) /\ Len(z) = Len(c) + 1
  BY <1>14 DEF Ended
<1>16. Len(z) <= 7
  BY ONLY <1>13, <1>15
<1>17. ASSUME ~Wrong(l, i), NEW a \in Account
       PROVE  Total(db, z, a) = 0
  <2>1. Brought(l, i, a) = IF a = Bank THEN LineAmount[l] ELSE 0
    BY <1>17 DEF Wrong
  <2>2. PICK v : v = Worth(e, a, Month)
    OBVIOUS
  <2>3. PICK f : f = IF TaxesOf(l) = {} THEN 0 ELSE Worth(Fee(l), a, Month)
    OBVIOUS
  <2>4. v + f = IF a = Bank THEN LineAmount[l] ELSE 0
    BY <2>1, <2>2, <2>3 DEF Brought, Fee
  <2>5. Total(db, b, a) = At(m, a)
    <3>1. Total(db, b, a) = 0 + At(m, a)
      BY <1>9, <1>10 DEF Appends, Moves
    <3> QED
      BY <1>8, <1>7, <3>1
  <2>6. Total(db, c, a) = At(m, a) + f
    <3>1. CASE TaxesOf(l) = {}
      <4>1. Total(db, c, a) = At(m, a) /\ f = 0
        BY <1>12, <2>3, <2>5, <3>1 DEF Same
      <4> QED
        BY <1>7, <1>8, <4>1
    <3>2. CASE TaxesOf(l) # {}
      BY <1>12, <2>3, <2>5, <3>2 DEF With
    <3> QED
      BY <3>1, <3>2
  <2>7. Total(db, z, a) = (At(m, a) + f) + v
    BY <1>15, <2>2, <2>6 DEF With
  <2>8. v \in Int /\ f \in Int
    <3>1. TaxesOf(l) # {} => Worth(Fee(l), a, Month) \in Int
      BY FeeIs, WorthInt
    <3> QED
      BY <1>6, <2>2, <2>3, <3>1, WorthInt
  <2>9. CASE a = Bank
    <3>1. At(m, a) = -LineAmount[l] /\ v + f = LineAmount[l]
      BY <1>8, <2>4, <2>9
    <3>2. PICK t \in Int : t = LineAmount[l]
      BY <1>7
    <3>3. Total(db, z, a) = (-t + f) + v /\ v + f = t
      BY <2>7, <3>1, <3>2
    <3>4. (-t + f) + v = 0
      BY <2>8, <3>3
    <3> QED
      BY <3>3, <3>4
  <2>10. CASE a # Bank
    <3>1. At(m, a) = 0 /\ v + f = 0
      BY <1>8, <2>4, <2>10
    <3>2. Total(db, z, a) = (0 + f) + v
      BY <2>7, <3>1
    <3>3. (0 + f) + v = 0
      BY <2>8, <3>1
    <3> QED
      BY <3>2, <3>3
  <2> QED
    BY <2>9, <2>10
<1>18. Finishes(q, l, i, z)
  BY <1>15, <1>17 DEF Finishes, GivesBack
<1> QED
  BY <1>15, <1>16, <1>18

(* A match of an entry paid before: its transfer is taken back, and with   *)
(* an entry of the bank there is a last write that puts it in transit.     *)
LEMMA ManualWired ==
  ASSUME TypeInv, NEW l \in Line, NEW k \in TransfersOf(l), NEW q, UndoingOf(db, q, l), <<"wire", k>> \in q.on,
         \A t \in TaxesOf(l) : <<"entry", t>> \in q.on, NEW i \in DOMAIN db.entries, NEW z,
         z = Back(k) \o Untaxed(l, TRUE)
  PROVE  Piece(db, q, z) /\ Len(z) <= 5 /\ Finishes(q, l, i, z)
<1>1. PICK s : s = Back(k)
  OBVIOUS
<1>2. z = s \o Untaxed(l, TRUE)
  BY <1>1
<1>3. Piece(db, q, s) /\ Erasing(s) /\ Len(s) = 3 /\ Len(s) <= 4 /\ GivesBack(s)
  <2>1. /\ Piece(db, q, Back(k)) /\ Erasing(Back(k)) /\ Len(Back(k)) = 3
        /\ \A a \in Account : Total(db, Back(k), a) = 0
    BY BackSound
  <2>2. GivesBack(Back(k))
    BY <2>1 DEF GivesBack
  <2> QED
    BY <1>1, <2>1, <2>2
<1>4. Longer(q, s, z, 2) /\ (TaxesOf(l) = {} \/ IsPaid(Fee(l)) => Same(s, z))
  BY <1>2, <1>3, UntaxedWired
<1>5. Piece(db, q, z) /\ Len(z) <= Len(s) + 2
  BY <1>4 DEF Longer
<1>6. Len(z) <= 5
  <2>1. Len(z) \in Nat
    BY <1>5, PieceSeq
  <2> QED
    BY ONLY <1>3, <1>5, <2>1
<1>7. ASSUME ~Wrong(l, i) PROVE GivesBack(z)
  <2>1. Same(s, z)
    BY <1>4, <1>7 DEF Wrong
  <2> QED
    BY <1>3, <2>1 DEF Same, GivesBack
<1> QED
  BY <1>5, <1>6, <1>7 DEF Finishes

----------------------------------------------------------------------------
(* unmatchLine *)

TheWire(l) == CHOOSE j \in TransfersOf(l) : TRUE
ToTransit(i) == TouchTx(i, [account |-> transit])
Taken(l) == IF IsCredit(l) THEN <<MoveTx(Move(Bank, -Magnitude(l))), MoveTx(Move(transit, Magnitude(l)))>>
                           ELSE <<MoveTx(Move(Bank, Magnitude(l))), MoveTx(Move(transit, -Magnitude(l)))>>

UndoAutoWired(l, i, e, k) ==
  ((Back(k) \o <<MoveTx(Move(e.account, -Sign(e) * e.gross))>>) \o Untaxed(l, TRUE))
  \o <<TouchTx(i, Pending(e.account))>>
UndoAutoAlone(l, i) ==
  (<<MoveTx(Move(Bank, -LineAmount[l]))>> \o Untaxed(l, FALSE)) \o <<TouchTx(i, Pending(NoAccount))>>

LEMMA UndoIs ==
  ASSUME NEW l, NEW i, NEW e, e = db.entries[i], NEW k, k = TheWire(l), e.auto \in BOOLEAN
  PROVE  /\ e.auto /\ TransfersOf(l) # {} => Undo(l, i) = UndoAutoWired(l, i, e, k)
         /\ e.auto /\ TransfersOf(l) = {} => Undo(l, i) = UndoAutoAlone(l, i)
         /\ ~e.auto /\ TransfersOf(l) # {} =>
              Undo(l, i) = (Back(k) \o Untaxed(l, TRUE))
                           \o (IF e.account = Bank /\ transit # NoAccount THEN <<ToTransit(i)>> ELSE <<>>)
         /\ ~e.auto /\ TransfersOf(l) = {} /\ e.account = Bank /\ transit # NoAccount =>
              Undo(l, i) = Taken(l) \o <<ToTransit(i)>>
         /\ ~e.auto /\ TransfersOf(l) = {} /\ ~(e.account = Bank /\ transit # NoAccount) => Undo(l, i) = <<>>
<1>1. CASE e.auto /\ TransfersOf(l) # {}
  BY <1>1 DEF Undo, UndoAutoWired, MoveTx, TouchTx, Pending, TheWire
<1>2. CASE e.auto /\ TransfersOf(l) = {}
  BY <1>2 DEF Undo, UndoAutoAlone, MoveTx, TouchTx, Pending
<1>3. CASE ~e.auto /\ TransfersOf(l) # {}
  BY <1>3 DEF Undo, ToTransit, TouchTx, TheWire
<1>4. CASE ~e.auto /\ TransfersOf(l) = {} /\ e.account = Bank /\ transit # NoAccount
  BY <1>4 DEF Undo, ToTransit, TouchTx, Taken, MoveTx
<1>5. CASE ~e.auto /\ TransfersOf(l) = {} /\ ~(e.account = Bank /\ transit # NoAccount)
  BY <1>5 DEF Undo
<1> QED
  BY <1>1, <1>2, <1>3, <1>4, <1>5

LEMMA TransitStep ==
  ASSUME TypeInv, NEW l \in Line, NEW i \in DOMAIN db.entries, ~db.entries[i].auto
  PROVE  IsScript(db, <<ToTransit(i)>>) /\ Len(<<ToTransit(i)>>) = 1
<1>1. PICK p : p = [account |-> transit]
  OBVIOUS
<1>2. PICK x : x = TouchTx(i, p)
  OBVIOUS
<1>3. PICK e : e = db.entries[i]
  OBVIOUS
<1>4. GoodEntry(e) /\ transit \in Account \cup {NoAccount}
  BY <1>3, RowOf, AccountAssumption DEF TypeInv
<1>5. IsPatch(e.cut, p) /\ "gross" \notin DOMAIN p
  BY <1>1, <1>3, <1>4, MovedPatch
<1>6. PICK t : t = Touch(i, p)
  OBVIOUS
<1>7. /\ x.touch = t /\ x.make = <<>> /\ x.move = Nothing /\ x.wire = <<>> /\ x.unwire = Nothing /\ x.line = Nothing
      /\ x.shut = {}
  BY <1>2, <1>6 DEF Tx, TouchTx
<1>8. IsStep(db, x, l)
  BY <1>3, <1>5, <1>6, <1>7 DEF IsStep, Nothing
<1>9. IsTx(db, x)
  BY <1>8, StepTx
<1> QED
  BY <1>1, <1>2, <1>9, ScriptOfOne DEF ToTransit

LEMMA TwoMoves ==
  ASSUME NEW d, NEW l \in Line, NEW m, IsMove(m), NEW n, IsMove(n)
  PROVE  IsScript(d, <<MoveTx(m), MoveTx(n)>>) /\ Len(<<MoveTx(m), MoveTx(n)>>) = 2
<1>1. PICK x : x = MoveTx(m)
  OBVIOUS
<1>2. PICK y : y = MoveTx(n)
  OBVIOUS
<1>3. IsTx(d, x) /\ IsTx(d, y)
  BY <1>1, <1>2, MovingStep, StepTx
<1>4. PICK S : S = {x, y}
  OBVIOUS
<1>5. <<x, y>> \in Seq(S) /\ \A z \in S : IsTx(d, z)
  BY <1>3, <1>4
<1>6. IsScript(d, <<x, y>>)
  BY <1>5, Zenon DEF IsScript
<1> QED
  BY <1>1, <1>2, <1>6

LEMMA TakenTyped ==
  ASSUME TypeInv, NEW l \in Line
  PROVE  IsScript(db, Taken(l)) /\ Len(Taken(l)) = 2
<1>1. PICK c \in Int : c = Magnitude(l)
  BY LineIs
<1>2. -c \in Int
  OBVIOUS
<1>3. Bank \in Account \cup {NoAccount} /\ transit \in Account \cup {NoAccount}
  BY AccountAssumption DEF TypeInv
<1>4. CASE IsCredit(l)
  <2>1. PICK m : m = Move(Bank, -c)
    OBVIOUS
  <2>2. PICK n : n = Move(transit, c)
    OBVIOUS
  <2>3. IsMove(m) /\ IsMove(n)
    BY <1>2, <1>3, <2>1, <2>2, MoveWide
  <2>4. IsScript(db, <<MoveTx(m), MoveTx(n)>>) /\ Len(<<MoveTx(m), MoveTx(n)>>) = 2
    BY <2>3, TwoMoves
  <2>5. Taken(l) = <<MoveTx(m), MoveTx(n)>>
    BY <1>1, <1>4, <2>1, <2>2 DEF Taken
  <2> QED
    BY <2>4, <2>5
<1>5. CASE ~IsCredit(l)
  <2>1. PICK m : m = Move(Bank, c)
    OBVIOUS
  <2>2. PICK n : n = Move(transit, -c)
    OBVIOUS
  <2>3. IsMove(m) /\ IsMove(n)
    BY <1>2, <1>3, <2>1, <2>2, MoveWide
  <2>4. IsScript(db, <<MoveTx(m), MoveTx(n)>>) /\ Len(<<MoveTx(m), MoveTx(n)>>) = 2
    BY <2>3, TwoMoves
  <2>5. Taken(l) = <<MoveTx(m), MoveTx(n)>>
    BY <1>1, <1>5, <2>1, <2>2 DEF Taken
  <2> QED
    BY <2>4, <2>5
<1> QED
  BY <1>4, <1>5

(* What unmatchLine has read.                                              *)
HasRead(q, l, i) ==
  /\ UndoingOf(db, q, l) /\ <<"entry", i>> \in q.on
  /\ \A t \in TaxesOf(l) : <<"entry", t>> \in q.on
  /\ \A k \in TransfersOf(l) : <<"wire", k>> \in q.on

LEMMA UndoTyped ==
  ASSUME TypeInv, NEW l \in Line, NEW i \in DOMAIN db.entries, NEW q, HasRead(q, l, i)
  PROVE  IsScript(db, Undo(l, i)) /\ Len(Undo(l, i)) <= 7 /\ Finishes(q, l, i, Undo(l, i))
<1>1. PICK e : e = db.entries[i]
  OBVIOUS
<1>2. PICK k : k = TheWire(l)
  OBVIOUS
<1>3. e.auto \in BOOLEAN
  BY <1>1, EntryFields DEF TypeInv, IsDatabase, GoodEntry
<1>4. PICK z : z = Undo(l, i)
  OBVIOUS
<1>5. TransfersOf(l) # {} => k \in TransfersOf(l) /\ <<"wire", k>> \in q.on
  BY <1>2 DEF TheWire, HasRead
<1>6. UndoingOf(db, q, l) /\ <<"entry", i>> \in q.on /\ \A t \in TaxesOf(l) : <<"entry", t>> \in q.on
  BY DEF HasRead
<1>7. CASE e.auto /\ TransfersOf(l) # {}
  <2>1. PICK m : m = Move(e.account, -Sign(e) * e.gross)
    OBVIOUS
  <2>2. z = ((Back(k) \o <<MoveTx(m)>>) \o Untaxed(l, TRUE)) \o <<TouchTx(i, Pending(e.account))>>
    <3>1. z = UndoAutoWired(l, i, e, k)
      BY <1>1, <1>2, <1>3, <1>4, <1>7, UndoIs
    <3> QED
      BY ONLY <2>1, <3>1 DEF UndoAutoWired
  <2>3. Piece(db, q, z) /\ Len(z) <= 7 /\ Finishes(q, l, i, z)
    BY <1>1, <1>5, <1>6, <1>7, <2>1, <2>2, AutoWired
  <2> QED
    BY <1>4, <2>3 DEF Piece
<1>8. CASE e.auto /\ TransfersOf(l) = {}
  <2>1. PICK m : m = Move(Bank, -LineAmount[l])
    OBVIOUS
  <2>2. z = (<<MoveTx(m)>> \o Untaxed(l, FALSE)) \o <<TouchTx(i, Pending(NoAccount))>>
    BY <1>1, <1>2, <1>3, <1>4, <1>8, <2>1, UndoIs DEF UndoAutoAlone
  <2>3. Piece(db, q, z) /\ Len(z) <= 7 /\ Finishes(q, l, i, z)
    BY <1>1, <1>6, <1>8, <2>1, <2>2, AutoAlone
  <2> QED
    BY <1>4, <2>3 DEF Piece
<1>9. CASE ~e.auto /\ TransfersOf(l) # {}
  <2>1. PICK c : c = Back(k) \o Untaxed(l, TRUE)
    OBVIOUS
  <2>2. Piece(db, q, c) /\ Len(c) <= 5 /\ Finishes(q, l, i, c)
    BY <1>5, <1>6, <1>9, <2>1, ManualWired
  <2>3. IsScript(db, c) /\ Len(c) \in Nat /\ \E S : c \in Seq(S)
    BY <2>2, PieceSeq DEF Piece
  <2>4. CASE e.account = Bank /\ transit # NoAccount
    <3>1. PICK t : t = <<ToTransit(i)>>
      OBVIOUS
    <3>2. z = c \o t
      BY <1>1, <1>2, <1>3, <1>4, <1>9, <2>1, <2>4, <3>1, UndoIs
    <3>3. IsScript(db, t) /\ Len(t) = 1
      BY <1>1, <1>9, <3>1, TransitStep
    <3>4. IsScript(db, z) /\ Len(z) = Len(c) + Len(t)
      BY <2>3, <3>2, <3>3, ScriptOfTwo
    <3>5. Len(z) <= 7
      BY ONLY <2>2, <2>3, <3>3, <3>4
    <3>6. Wrong(l, i)
      BY <1>1, <1>9, <2>4 DEF Wrong
    <3>7. Finishes(q, l, i, z)
      BY <3>6 DEF Finishes
    <3> QED
      BY <1>4, <3>4, <3>5, <3>7
  <2>5. CASE ~(e.account = Bank /\ transit # NoAccount)
    <3>1. z = c \o <<>>
      BY <1>1, <1>2, <1>3, <1>4, <1>9, <2>1, <2>5, UndoIs
    <3>2. c \o <<>> = c
      BY <2>3, TwoSteps
    <3>3. z = c
      BY ONLY <3>1, <3>2
    <3>4. IsScript(db, z) /\ Len(z) <= 5 /\ Len(z) \in Nat /\ Finishes(q, l, i, z)
      BY <2>2, <2>3, <3>3
    <3>5. Len(z) <= 7
      BY ONLY <3>4
    <3> QED
      BY <1>4, <3>4, <3>5
  <2> QED
    BY <2>4, <2>5
<1>10. CASE ~e.auto /\ TransfersOf(l) = {} /\ e.account = Bank /\ transit # NoAccount
  <2>1. PICK c : c = Taken(l)
    OBVIOUS
  <2>2. PICK t : t = <<ToTransit(i)>>
    OBVIOUS
  <2>3. z = c \o t
    BY <1>1, <1>2, <1>3, <1>4, <1>10, <2>1, <2>2, UndoIs
  <2>4. IsScript(db, t) /\ Len(t) = 1
    BY <1>1, <1>10, <2>2, TransitStep
  <2>5. IsScript(db, c) /\ Len(c) = 2
    BY <2>1, TakenTyped
  <2>6. IsScript(db, z) /\ Len(z) = Len(c) + Len(t)
    BY <2>3, <2>4, <2>5, ScriptOfTwo
  <2>7. Len(z) <= 7
    BY ONLY <2>4, <2>5, <2>6
  <2>8. Wrong(l, i)
    BY <1>1, <1>10 DEF Wrong
  <2>9. Finishes(q, l, i, z)
    BY <2>8 DEF Finishes
  <2> QED
    BY <1>4, <2>6, <2>7, <2>9
<1>11. CASE ~e.auto /\ TransfersOf(l) = {} /\ ~(e.account = Bank /\ transit # NoAccount)
  <2>1. z = <<>>
    BY <1>1, <1>2, <1>3, <1>4, <1>11, UndoIs
  <2>2. Piece(db, q, <<>>) /\ Len(<<>>) = 0 /\ \A a \in Account : Total(db, <<>>, a) = 0
    BY PieceOfNone
  <2>3. Piece(db, q, z) /\ Len(z) = 0 /\ GivesBack(z)
    BY <2>1, <2>2 DEF GivesBack
  <2>4. Finishes(q, l, i, z) /\ Len(z) <= 7 /\ IsScript(db, z)
    BY <2>3 DEF Finishes, Piece
  <2> QED
    BY <1>4, <2>4
<1> QED
  BY <1>3, <1>7, <1>8, <1>9, <1>10, <1>11

LastTx(l) == [Tx EXCEPT !.line = [k \in {l} |-> [status |-> "UNMATCHED", entry |-> 0]]]

LEMMA LastUnmarks ==
  ASSUME NEW l
  PROVE  UnmarkedLine(LastTx(l), l)
<1>1. PICK x : x = LastTx(l)
  OBVIOUS
<1>2. DOMAIN x.line = {l} /\ x.line[l] = [status |-> "UNMATCHED", entry |-> 0] /\ x.shut = {} /\ PostsNothing(x)
  BY <1>1 DEF LastTx, Tx, PostsNothing
<1> QED
  BY <1>1, <1>2 DEF UnmarkedLine

(* The last write, after an undoing that comes to nothing.                 *)
LEMMA LastEnds ==
  ASSUME TypeInv, NEW l \in Line, NEW q, UndoingOf(db, q, l), NEW s, Piece(db, q, s), Len(s) <= 7, Fails(s) \/ GivesBack(s),
         NEW x, x = LastTx(l), NEW z, z = s \o <<x>>, q.todo = z
  PROVE  Fresh(db, q)
<1>1. IsDatabase(db) /\ Len(s) < 8
  BY PieceSeq DEF TypeInv
<1>2. UnmarkedLine(x, l)
  BY LastUnmarks
<1>3. PostsNothing(x) /\ DOMAIN x.touch = {}
  BY <1>2 DEF UnmarkedLine, PostsNothing, Nothing
<1>4. IsTx(db, x) /\ SoundTx(db, q, x)
  <2>1. IsOpenFor(db, q, Bank, LineMonth[l]) /\ LineMonth[l] \in Month
    BY LineIs DEF UndoingOf
  <2>2. \E m \in Month : IsOpenFor(db, q, Bank, m)
    BY <2>1
  <2> QED
    BY <1>2, <2>2, UnmarkedTx, UnmarkedSound
<1>5. Appends(db, q, s, x, z)
  BY <1>1, <1>3, <1>4, PieceAppends
<1>6. Piece(db, q, z)
  BY <1>5 DEF Appends
<1>7. q.op = "unmatchLine"
  BY DEF UndoingOf
<1>8. Sound(db, q)
  BY <1>6, <1>7 DEF Sound, Piece
<1>9. ASSUME Fails(s) PROVE Doomed(db, q)
  <2>1. PICK n \in DOMAIN s : Lost(db, s[n])
    BY <1>9 DEF Fails
  <2>2. n \in DOMAIN z /\ z[n] = s[n]
    BY <1>5 DEF Appends
  <2> QED
    BY <1>7, <2>1, <2>2 DEF Doomed
<1>10. ASSUME GivesBack(s), NEW a \in Account PROVE Owed(db, q, a) = 0
  <2>1. Total(db, z, a) = Total(db, s, a) + Effect(db, x, a)
    BY <1>5 DEF Appends
  <2>2. Effect(db, x, a) = 0
    BY <1>3, NothingPosted
  <2>3. Total(db, s, a) = 0
    BY <1>10 DEF GivesBack
  <2>4. Total(db, z, a) = 0
    BY <2>1, <2>2, <2>3
  <2> QED
    BY <1>7, <2>4, OwedIsTotal
<1> QED
  BY <1>8, <1>9, <1>10 DEF Fresh

LEMMA UnmatchLineAdmits ==
  ASSUME TypeInv, NEW r \in Request, NEW l \in Line, UnmatchLine(r, l)
  PROVE  Admits(r)
<1>1. PICK i : i = db.lines[l].entry
  OBVIOUS
<1>2. PICK x : x = LastTx(l)
  OBVIOUS
<1>3. PICK s : s = Undo(l, i)
  OBVIOUS
<1>4. PICK z : z = s \o <<x>>
  OBVIOUS
<1>5. PICK on : on = ReadLine(l) \cup {<<"entry", j>> : j \in {i} \cup TaxesOf(l)} \cup {<<"wire", k>> : k \in TransfersOf(l)}
  OBVIOUS
<1>6. db.lines[l].status = "MATCHED" /\ ~IsClosed(Bank, LineMonth[l]) /\ Begin(r, "unmatchLine", on, z, NoPay)
  BY <1>1, <1>2, <1>3, <1>4, <1>5 DEF UnmatchLine, LastTx
<1>7. i \in DOMAIN db.entries
  BY <1>1, <1>6 DEF TypeInv, IsDatabase
<1>8. PICK q : q = req'[r]
  OBVIOUS
<1>9. /\ q = [op |-> "unmatchLine", todo |-> z, then |-> NoPay, on |-> on, stale |-> FALSE]
      /\ req[r].op = "idle" /\ ~Busy(r) /\ Begins(r, "unmatchLine")
      /\ db' = db /\ transit' = transit
      /\ DOMAIN req' = Request /\ \A p \in Request \ {r} : req'[p] = req[p]
  BY <1>6, <1>8, BeginIs
<1>10. /\ q.op = "unmatchLine" /\ q.todo = z /\ q.then = NoPay /\ q.on = on /\ q.stale = FALSE
       /\ DOMAIN q = {"op", "todo", "then", "on", "stale"}
  BY <1>9
<1>11. <<"line", l>> \in on /\ <<"month", <<Bank, LineMonth[l]>>>> \in on
  BY <1>5 DEF ReadLine, ReadMonth
<1>12. HasRead(q, l, i)
  <2>1. UndoingOf(db, q, l)
    BY <1>6, <1>10, <1>11 DEF UndoingOf, IsOpenFor, IsClosed
  <2> QED
    BY <1>5, <1>10, <2>1 DEF HasRead
<1>13. IsScript(db, s) /\ Len(s) <= 7 /\ Finishes(q, l, i, s)
  BY <1>3, <1>7, <1>12, UndoTyped
<1>14. IsRequest(db, q)
  <2>1. IsTx(db, x)
    BY <1>2, LastUnmarks, UnmarkedTx
  <2>2. IsScript(db, z) /\ Len(z) = Len(s) + 1
    <3>1. IsScript(db, <<x>>) /\ Len(<<x>>) = 1
      BY <2>1, ScriptOfOne
    <3>2. IsScript(db, s \o <<x>>) /\ Len(s \o <<x>>) = Len(s) + Len(<<x>>)
      BY <1>13, <3>1, ScriptOfTwo
    <3> QED
      BY <1>4, <3>1, <3>2
  <2>3. Len(s) \in Nat
    BY <1>13, ScriptTx
  <2>4. Len(z) <= 8
    BY ONLY <1>13, <2>2, <2>3
  <2>5. q.stale \in BOOLEAN
    BY <1>10
  <2> QED
    BY <1>10, <2>2, <2>4, <2>5 DEF IsRequest
<1>15. ASSUME Clean, Slip(r) = {} PROVE Fresh(db, q)
  <2>1. Regular(db.entries[i])
    BY <1>7, <1>15 DEF Clean
  <2>2. ~Wrong(l, i)
    <3>1. ~WrongUndo(r)
      BY <1>15, NoSlip
    <3>2. <<"line", l>> \in req'[r].on
      BY <1>8, <1>10, <1>11
    <3> QED
      BY <1>1, <1>6, <1>9, <3>1, <3>2 DEF WrongUndo, Wrong, Fee
  <2>3. Piece(db, q, s) /\ (Fails(s) \/ GivesBack(s))
    BY <1>13, <2>1, <2>2 DEF Finishes
  <2>4. UndoingOf(db, q, l)
    BY <1>12 DEF HasRead
  <2> QED
    BY <1>2, <1>4, <1>10, <1>13, <2>3, <2>4, LastEnds
<1> QED
  BY <1>8, <1>9, <1>14, <1>15 DEF Admits

LEMMA LineAdmits ==
  ASSUME TypeInv, NEW r \in Request, LineNext(r)
  PROVE  Admits(r)
<1>1. PICK l \in Line :
        \/ \E i \in DOMAIN db.entries, tax \in Amount \cup {0} : MatchLine(r, l, i, tax)
        \/ UnmatchLine(r, l)
        \/ IgnoreLine(r, l)
        \/ UnignoreLine(r, l)
  BY DEF LineNext
<1>2. CASE \E i \in DOMAIN db.entries, tax \in Amount \cup {0} : MatchLine(r, l, i, tax)
  <2>1. PICK i \in DOMAIN db.entries, tax \in Amount \cup {0} : MatchLine(r, l, i, tax)
    BY <1>2
  <2>2. tax \in Int
    BY AmountAssumption
  <2> QED
    BY <2>1, <2>2, MatchOpenAdmits, MatchPaidAdmits
<1> QED
  BY <1>1, <1>2, UnmatchLineAdmits, IgnoreLineAdmits, UnignoreLineAdmits

----------------------------------------------------------------------------
(* A commit *)

Aged(q, x) == [q EXCEPT !.stale = @ \/ Changed(x) \cap q.on # {}]

LEMMA AgedFields ==
  ASSUME NEW d, NEW q, IsRequest(d, q), NEW x
  PROVE  /\ DOMAIN Aged(q, x) = DOMAIN q /\ Aged(q, x).op = q.op /\ Aged(q, x).todo = q.todo
         /\ Aged(q, x).then = q.then /\ Aged(q, x).on = q.on
         /\ Aged(q, x).stale \in BOOLEAN
         /\ Aged(q, x).stale <=> (q.stale \/ Changed(x) \cap q.on # {})
BY DEF IsRequest, Aged

(* What a commit of r does: x is written, the requests that have read a    *)
(* row of it grow stale, and r goes on or is done.                         *)
Commits(r, x) ==
  /\ req[r].todo # <<>> /\ x = Head(req[r].todo) /\ IsTx(db, x) /\ ~Lost(db, x)
  /\ db' = Apply(db, x) /\ IsDatabase(db') /\ Grows(db, db') /\ transit' = transit
  /\ DOMAIN req' = Request
  /\ req'[r] = Rest(req[r]) \/ (req'[r] = Idle /\ Rest(req[r]).todo = <<>>)
  /\ \A q \in Request \ {r} : req'[q] = IF Busy(q) THEN Aged(req[q], x) ELSE Idle

LEMMA CommitIs ==
  ASSUME TypeInv, NEW r \in Request, Commit(r)
  PROVE  \E x : Commits(r, x)
<1>1. PICK x : x = Head(req[r].todo)
  OBVIOUS
<1>2. IsDatabase(db) /\ IsRequest(db, req[r]) /\ IsScript(db, req[r].todo)
  BY DEF TypeInv, IsRequest
<1>3. req[r].todo # <<>> /\ ~Lost(db, x) /\ db' = Apply(db, x) /\ transit' = transit
  BY <1>1 DEF Commit
<1>4. IsTx(db, x)
  BY <1>1, <1>2, <1>3, ScriptTx
<1>5. IsDatabase(db') /\ Grows(db, db')
  BY <1>2, <1>3, <1>4, ApplyTyped
<1>6. req' = [q \in Request |->
                IF q = r THEN IF Rest(req[r]).todo = <<>> /\ Rest(req[r]).then = NoPay THEN Idle ELSE Rest(req[r])
                ELSE IF Busy(q) THEN Aged(req[q], x) ELSE Idle]
  BY <1>1 DEF Commit, Rest, Aged
<1>7. DOMAIN req' = Request
  BY <1>6
<1>8. req'[r] = IF Rest(req[r]).todo = <<>> /\ Rest(req[r]).then = NoPay THEN Idle ELSE Rest(req[r])
  BY <1>6
<1>9. \A q \in Request \ {r} : req'[q] = IF Busy(q) THEN Aged(req[q], x) ELSE Idle
  BY <1>6
<1> QED
  BY <1>1, <1>3, <1>4, <1>5, <1>7, <1>8, <1>9 DEF Commits

LEMMA NextRequest ==
  ASSUME NEW d, NEW e, Grows(d, e), NEW q, IsRequest(d, q), q.op # "idle", NEW n, DOMAIN n = DOMAIN q, n.op = q.op,
         n.then = q.then, n.stale \in BOOLEAN, IsScript(d, n.todo), Len(n.todo) <= 8
  PROVE  IsRequest(e, n)
<1>1. IsScript(e, n.todo)
  BY ScriptGrows
<1>2. n.then # NoPay => n.op = "partialPay" /\ IsPart(e, n.then)
  BY DEF IsRequest, IsPart, Grows
<1> QED
  BY <1>1, <1>2 DEF IsRequest

LEMMA SameRequest ==
  ASSUME NEW d, NEW e, Grows(d, e), NEW q, IsRequest(d, q)
  PROVE  IsRequest(e, q)
<1>1. IsScript(e, q.todo)
  BY ScriptGrows DEF IsRequest
<1>2. q.then # NoPay => q.op = "partialPay" /\ IsPart(e, q.then)
  BY DEF IsRequest, IsPart, Grows
<1> QED
  BY <1>1, <1>2 DEF IsRequest

LEMMA CommitTyped ==
  ASSUME TypeInv, NEW r \in Request, NEW x, Commits(r, x)
  PROVE  TypeInv'
<1>1. IsDatabase(db') /\ Grows(db, db') /\ transit' \in {Transit, NoAccount} /\ DOMAIN req' = Request
  BY DEF Commits, TypeInv
<1>2. IsRequest(db, req[r]) /\ IsScript(db, req[r].todo) /\ Len(req[r].todo) <= 8 /\ req[r].todo # <<>>
  BY DEF TypeInv, IsRequest, Commits
<1>3. IsRequest(db', req'[r])
  <2>1. CASE req'[r] = Idle
    BY <2>1, IdleIs
  <2>2. CASE req'[r] = Rest(req[r])
    <3>1. PICK q : q = req[r]
      OBVIOUS
    <3>2. PICK n : n = Rest(q)
      OBVIOUS
    <3>3. IsRequest(db, q) /\ IsScript(db, q.todo) /\ Len(q.todo) <= 8 /\ q.todo # <<>>
      BY <1>2, <3>1
    <3>4. DOMAIN n = DOMAIN q /\ n.op = q.op /\ n.then = q.then /\ n.stale = q.stale /\ n.todo = Tail(q.todo)
      BY <3>2, <3>3, RestFields
    <3>5. q.op # "idle"
      BY <3>3 DEF IsRequest, Idle
    <3>6. IsScript(db, n.todo) /\ Len(n.todo) <= 8
      <4>1. IsScript(db, Tail(q.todo)) /\ Len(Tail(q.todo)) = Len(q.todo) - 1 /\ Len(q.todo) \in Nat
        BY <3>3, ScriptTx
      <4>2. Len(Tail(q.todo)) <= 8
        BY ONLY <3>3, <4>1
      <4> QED
        BY <3>4, <4>1, <4>2
    <3>7. n.stale \in BOOLEAN
      BY <3>3, <3>4 DEF IsRequest
    <3>8. IsRequest(db', n)
      BY <1>1, <3>3, <3>4, <3>5, <3>6, <3>7, NextRequest
    <3> QED
      BY <2>2, <3>1, <3>2, <3>8
  <2> QED
    BY <2>1, <2>2 DEF Commits
<1>4. ASSUME NEW p \in Request \ {r} PROVE IsRequest(db', req'[p])
  <2>1. CASE ~Busy(p)
    <3>1. req'[p] = Idle
      BY <2>1 DEF Commits
    <3> QED
      BY <3>1, IdleIs
  <2>2. CASE Busy(p)
    <3>1. PICK q : q = req[p]
      OBVIOUS
    <3>2. PICK n : n = Aged(q, x)
      OBVIOUS
    <3>3. IsRequest(db, q) /\ IsScript(db, q.todo) /\ Len(q.todo) <= 8 /\ q.op # "idle"
      BY <2>2, <3>1 DEF TypeInv, IsRequest, Busy
    <3>4. DOMAIN n = DOMAIN q /\ n.op = q.op /\ n.then = q.then /\ n.stale \in BOOLEAN /\ n.todo = q.todo
      BY <3>2, <3>3, AgedFields
    <3>5. IsRequest(db', n)
      BY <1>1, <3>3, <3>4, NextRequest
    <3>6. req'[p] = n
      BY <2>2, <3>1, <3>2 DEF Commits
    <3> QED
      BY <3>5, <3>6
  <2> QED
    BY <2>1, <2>2
<1> QED
  BY <1>1, <1>3, <1>4 DEF TypeInv

(* A request is sound by what it has read and what it has still to write.  *)
LEMMA SoundAlike ==
  ASSUME NEW d, NEW q, Sound(d, q), NEW n, n.op = q.op, n.todo = q.todo, n.on = q.on
  PROVE  Sound(d, n)
<1>1. \A m \in DOMAIN n.todo : SoundTx(d, n, n.todo[m])
  <2> SUFFICES ASSUME NEW m \in DOMAIN n.todo PROVE SoundTx(d, n, n.todo[m])
    OBVIOUS
  <2>1. PICK x : x = n.todo[m]
    OBVIOUS
  <2>2. SoundTx(d, q, x)
    BY <2>1 DEF Sound
  <2>3. Covered(n, x) /\ KeepsRows(d, x) /\ KeepsLines(d, n, x)
    BY <2>2 DEF SoundTx, Covered, KeepsLines
  <2>4. \A a, m2 : IsOpenFor(d, q, a, m2) => IsOpenFor(d, n, a, m2)
    BY DEF IsOpenFor
  <2>5. KeepsMonths(d, n, x) /\ KeepsBank(d, n, x) /\ KeepsBalance(d, n, x)
    BY <2>2, <2>4 DEF SoundTx, KeepsMonths, KeepsBank, KeepsBalance
  <2> QED
    BY <2>1, <2>3, <2>5 DEF SoundTx
<1> QED
  BY <1>1 DEF Sound

LEMMA HeadSound ==
  ASSUME TypeInv, NEW r \in Request, NEW x, Commits(r, x), Sound(db, req[r])
  PROVE  SoundTx(db, req[r], x)
<1>1. IsScript(db, req[r].todo) /\ req[r].todo # <<>> /\ x = Head(req[r].todo)
  BY DEF TypeInv, IsRequest, Commits
<1>2. Head(req[r].todo) = req[r].todo[1] /\ 1 \in DOMAIN req[r].todo
  BY <1>1, ScriptTx
<1> QED
  BY <1>1, <1>2 DEF Sound

LEMMA CommitClean ==
  ASSUME TypeInv, Clean, NEW r \in Request, NEW x, Commits(r, x), ~req[r].stale
  PROVE  Clean'
<1>1. PICK q : q = req[r]
  OBVIOUS
<1>2. PICK e : e = db'
  OBVIOUS
<1>3. IsRequest(db, q) /\ Sound(db, q) /\ SoundTx(db, q, x) /\ IsDatabase(db)
  BY <1>1, HeadSound DEF TypeInv, Clean
<1>4. IsTx(db, x) /\ ~Lost(db, x) /\ e = Apply(db, x)
  BY <1>2 DEF Commits
<1>5. ASSUME NEW i \in DOMAIN e.entries PROVE Regular(e.entries[i])
  <2>1. CASE i \in DOMAIN db.entries
    <3>1. e.entries[i] = IF i \in DOMAIN x.touch THEN Patched(db.entries[i], x.touch[i]) ELSE db.entries[i]
      BY <1>3, <1>4, <2>1, EntriesAfter
    <3>2. i \in DOMAIN x.touch => Regular(Patched(db.entries[i], x.touch[i]))
      BY <1>3, <1>4 DEF SoundTx, KeepsRows, Lost
    <3>3. Regular(db.entries[i])
      BY <2>1 DEF Clean
    <3> QED
      BY <3>1, <3>2, <3>3
  <2>2. CASE i \notin DOMAIN db.entries
    <3>1. x.make # <<>>
      BY <1>3, <1>4, <2>2, EntriesAfter
    <3>2. PICK f : Regular(f) /\ x.make = <<f>>
      BY <1>4, <3>1 DEF IsTx
    <3>3. DOMAIN e.entries = DOMAIN db.entries \cup {Len(db.entries) + 1} /\ e.entries[Len(db.entries) + 1] = f
      BY <1>3, <1>4, <3>2, EntriesAfter
    <3> QED
      BY <2>2, <3>2, <3>3
  <2> QED
    BY <2>1, <2>2
<1>6. OneMatch(e)
  <2> SUFFICES ASSUME NEW k \in Line, NEW l \in Line, k # l, e.lines[k].status = "MATCHED", e.lines[l].status = "MATCHED",
                      e.lines[k].entry = e.lines[l].entry
               PROVE  FALSE
    BY DEF OneMatch
  <2>1. /\ \A m \in Line \ DOMAIN x.line : e.lines[m] = db.lines[m]
        /\ \A m \in DOMAIN x.line : /\ e.lines[m].status = x.line[m]["status"]
                                    /\ e.lines[m].entry = IF "entry" \in DOMAIN x.line[m] THEN x.line[m]["entry"]
                                                          ELSE db.lines[m].entry
    BY <1>3, <1>4, LinesAfter
  <2>2. \A m \in DOMAIN x.line : x.line[m]["status"] = "MATCHED" => "entry" \in DOMAIN x.line[m]
    BY <1>4 DEF IsTx, IsLinePatch
  <2>3. \A m, o \in DOMAIN x.line : m = o
    BY <1>4 DEF IsTx
  <2>4. ASSUME NEW m \in DOMAIN x.line, NEW o \in Line \ {m}, e.lines[m].status = "MATCHED", e.lines[o].status = "MATCHED",
               e.lines[m].entry = e.lines[o].entry
        PROVE  FALSE
    <3>1. o \notin DOMAIN x.line
      BY <2>3, <2>4
    <3>2. db.lines[o].status = "MATCHED" /\ db.lines[o].entry = e.lines[m].entry
      BY <2>1, <2>4, <3>1
    <3>3. x.line[m]["status"] = "MATCHED" /\ e.lines[m].entry = x.line[m]["entry"]
      BY <2>1, <2>2, <2>4
    <3> QED
      BY <1>3, <3>2, <3>3 DEF SoundTx, KeepsLines
  <2>5. k \notin DOMAIN x.line /\ l \notin DOMAIN x.line
    BY <2>4
  <2>6. e.lines[k] = db.lines[k] /\ e.lines[l] = db.lines[l]
    BY <2>1, <2>5
  <2> QED
    BY <2>6 DEF Clean, OneMatch
<1>7. Sound(e, req'[r])
  <2>1. CASE req'[r] = Idle
    BY <2>1, IdleIs DEF Fresh
  <2>2. CASE req'[r] = Rest(q)
    <3>1. q.todo # <<>> /\ x = Head(q.todo)
      BY <1>1 DEF Commits
    <3> QED
      BY <1>3, <1>4, <2>2, <3>1, OwnSound
  <2> QED
    BY <1>1, <2>1, <2>2 DEF Commits
<1>8. ASSUME NEW p \in Request \ {r}, ~req'[p].stale PROVE Sound(e, req'[p])
  <2>1. CASE ~Busy(p)
    <3>1. req'[p] = Idle
      BY <2>1 DEF Commits
    <3> QED
      BY <3>1, IdleIs DEF Fresh
  <2>2. CASE Busy(p)
    <3>1. PICK o : o = req[p]
      OBVIOUS
    <3>2. PICK n : n = Aged(o, x)
      OBVIOUS
    <3>3. req'[p] = n /\ IsRequest(db, o)
      BY <2>2, <3>1, <3>2 DEF Commits, TypeInv
    <3>4. n.op = o.op /\ n.todo = o.todo /\ n.on = o.on /\ ~o.stale /\ Changed(x) \cap o.on = {}
      BY <1>8, <3>2, <3>3, AgedFields
    <3>5. Sound(db, o) /\ IsScript(db, o.todo)
      BY <3>1, <3>3, <3>4 DEF Clean, IsRequest
    <3>6. Sound(e, o)
      BY <1>3, <1>4, <3>4, <3>5, OtherSound
    <3> QED
      BY <3>3, <3>4, <3>6, SoundAlike
  <2> QED
    BY <2>1, <2>2
<1> QED
  BY <1>2, <1>5, <1>6, <1>7, <1>8 DEF Clean

----------------------------------------------------------------------------
(* What the requests owe after a commit *)

(* A write that will fail fails whatever comes between.                    *)
LEMMA LostStays ==
  ASSUME NEW d, IsDatabase(d), NEW x, IsTx(d, x), ~Lost(d, x), NEW y, IsTx(d, y), Lost(d, y)
  PROVE  Lost(Apply(d, x), y)
<1>1. PICK e : e = Apply(d, x)
  OBVIOUS
<1>2. \A i \in DOMAIN d.entries : e.entries[i] = IF i \in DOMAIN x.touch THEN Patched(d.entries[i], x.touch[i])
                                                 ELSE d.entries[i]
  BY <1>1, EntriesAfter
<1>3. \A k \in DOMAIN d.transfers : e.transfers[k] = IF k \in DOMAIN x.unwire THEN Undone(d.transfers[k])
                                                     ELSE d.transfers[k]
  BY <1>1, TransfersAfter
<1>4. CASE NoAccount \in DOMAIN y.move
  BY <1>4 DEF Lost
<1>5. CASE \E i \in DOMAIN y.touch : d.entries[i].status = "ERASED"
  <2>1. PICK i \in DOMAIN y.touch : d.entries[i].status = "ERASED"
    BY <1>5
  <2>2. i \in DOMAIN d.entries /\ i \notin DOMAIN x.touch
    BY <2>1 DEF IsTx, Lost
  <2> QED
    BY <1>1, <1>2, <2>1, <2>2 DEF Lost
<1>6. CASE \E k \in DOMAIN y.unwire : ~d.transfers[k].live
  <2>1. PICK k \in DOMAIN y.unwire : ~d.transfers[k].live
    BY <1>6
  <2>2. k \in DOMAIN d.transfers /\ k \notin DOMAIN x.unwire
    BY <2>1 DEF IsTx, Lost
  <2> QED
    BY <1>1, <1>3, <2>1, <2>2 DEF Lost
<1> QED
  BY <1>4, <1>5, <1>6 DEF Lost

(* So an unmatch that is doomed is doomed after a write of another, and    *)
(* after its own.                                                          *)
LEMMA DoomedStays ==
  ASSUME NEW d, IsDatabase(d), NEW x, IsTx(d, x), ~Lost(d, x), NEW q, IsRequest(d, q), Doomed(d, q),
         NEW n, n.op = q.op, n.todo = q.todo, q.stale => n.stale
  PROVE  Doomed(Apply(d, x), n)
<1>1. IsScript(d, q.todo)
  BY DEF IsRequest
<1>2. \A k \in DOMAIN q.todo : Lost(d, q.todo[k]) => Lost(Apply(d, x), q.todo[k])
  BY <1>1, ScriptTx, LostStays
<1> QED
  BY <1>2 DEF Doomed

LEMMA DoomedGoesOn ==
  ASSUME NEW d, IsDatabase(d), NEW q, IsRequest(d, q), q.todo # <<>>, Sound(d, q), ~q.stale,
         ~Lost(d, Head(q.todo)), Doomed(d, q)
  PROVE  Doomed(Apply(d, Head(q.todo)), Rest(q))
<1>1. PICK x : x = Head(q.todo)
  OBVIOUS
<1>2. PICK e : e = Apply(d, x)
  OBVIOUS
<1>3. PICK s : s = Tail(q.todo)
  OBVIOUS
<1>4. IsScript(d, q.todo)
  BY DEF IsRequest
<1>5. PICK len \in Nat : len = Len(q.todo)
  BY <1>4, ScriptTx
<1>6. /\ DOMAIN q.todo = 1..len /\ \A n \in DOMAIN q.todo : IsTx(d, q.todo[n])
      /\ x = q.todo[1] /\ 1 \in DOMAIN q.todo
      /\ \A n \in DOMAIN s : s[n] = q.todo[n + 1]
      /\ IsScript(d, s) /\ Len(s) = len - 1
  BY <1>1, <1>3, <1>4, <1>5, ScriptTx
<1>7. DOMAIN s = 1..(len - 1)
  BY <1>6, ScriptTx
<1>8. \A n \in DOMAIN q.todo : n # 1 => n - 1 \in DOMAIN s /\ s[n - 1] = q.todo[n]
  <2> SUFFICES ASSUME NEW n \in DOMAIN q.todo, n # 1 PROVE n - 1 \in DOMAIN s /\ s[n - 1] = q.todo[n]
    OBVIOUS
  <2>1. n \in 1..len
    BY <1>6
  <2>2. n - 1 \in 1..(len - 1) /\ (n - 1) + 1 = n
    BY ONLY <1>5, <2>1, n # 1
  <2> QED
    BY <1>6, <1>7, <2>2
<1>9. Rest(q).op = "unmatchLine" /\ Rest(q).todo = s
  BY <1>3, RestFields DEF Doomed
<1>10. IsTx(d, x) /\ ~Lost(d, x)
  BY <1>1, <1>6
<1>11. CASE \E n \in DOMAIN q.todo : Lost(d, q.todo[n])
  <2>1. PICK n \in DOMAIN q.todo : Lost(d, q.todo[n])
    BY <1>11
  <2>2. n # 1
    BY <1>6, <1>10, <2>1
  <2>3. Lost(e, q.todo[n])
    BY <1>2, <1>6, <1>10, <2>1, LostStays
  <2>4. n - 1 \in DOMAIN s /\ Lost(e, s[n - 1])
    BY <1>8, <2>2, <2>3
  <2> QED
    BY <1>1, <1>2, <1>9, <2>4 DEF Doomed
<1>12. CASE \E n, m \in DOMAIN q.todo : n < m /\ TouchBoth(q.todo[n], q.todo[m]) # {}
  <2>1. PICK n \in DOMAIN q.todo, m \in DOMAIN q.todo : n < m /\ TouchBoth(q.todo[n], q.todo[m]) # {}
    BY <1>12
  <2>2. n \in 1..len /\ m \in 1..len
    BY <1>6, <2>1
  <2>3. m # 1 /\ m \in Int /\ n \in Int
    BY ONLY <1>5, <2>1, <2>2
  <2>4. m - 1 \in DOMAIN s /\ s[m - 1] = q.todo[m]
    BY <1>8, <2>3
  <2>5. CASE n = 1
    <3>1. \A i \in TouchBoth(x, q.todo[m]) : Erases(x.touch[i])
      BY <1>6, <2>1, <2>5 DEF Sound, ErasedFirst
    <3>2. Lost(e, q.todo[m])
      BY <1>2, <1>6, <1>10, <2>1, <2>5, <3>1, OwnRows
    <3> QED
      BY <1>1, <1>2, <1>9, <2>4, <3>2 DEF Doomed
  <2>6. CASE n # 1
    <3>1. n - 1 \in DOMAIN s /\ s[n - 1] = q.todo[n]
      BY <1>8, <2>6
    <3>2. n - 1 < m - 1
      BY ONLY <2>1, <2>3
    <3>3. TouchBoth(s[n - 1], s[m - 1]) # {}
      BY <2>1, <2>4, <3>1
    <3> QED
      BY <1>1, <1>2, <1>9, <2>4, <3>1, <3>2, <3>3 DEF Doomed
  <2> QED
    BY <2>5, <2>6
<1> QED
  BY <1>11, <1>12 DEF Doomed

(* What is owed, where nothing is.                                         *)
LEMMA NothingOwed ==
  ASSUME NEW d, NEW q, q.todo = <<>> \/ q.op # "unmatchLine", NEW a
  PROVE  Owed(d, q, a) = 0
<1>1. CASE q.op # "unmatchLine"
  BY <1>1 DEF Owed
<1>2. CASE q.todo = <<>>
  <2>1. DOMAIN q.todo = {}
    BY <1>2
  <2>2. \A n : Later(d, q, n, a) = 0
    BY <2>1 DEF Later
  <2> QED
    BY <2>2 DEF Owed
<1> QED
  BY <1>1, <1>2

(* The request that commits owes less by what it has moved.                *)
Pays(d, e, x, q, n) ==
  Doomed(e, n) \/ \A a \in Account : Owed(e, n, a) = Owed(d, q, a) - Effect(d, x, a)

LEMMA OwnPays ==
  ASSUME NEW d, IsDatabase(d), NEW q, IsRequest(d, q), q.todo # <<>>, Sound(d, q), ~Lost(d, Head(q.todo))
  PROVE  Pays(d, Apply(d, Head(q.todo)), Head(q.todo), q, Rest(q))
<1>1. PICK x : x = Head(q.todo)
  OBVIOUS
<1>2. PICK e : e = Apply(d, x)
  OBVIOUS
<1>3. IsScript(d, q.todo)
  BY DEF IsRequest
<1>4. /\ \A n \in DOMAIN q.todo : IsTx(d, q.todo[n])
      /\ x = q.todo[1] /\ 1 \in DOMAIN q.todo
  BY <1>1, <1>3, ScriptTx
<1>5. Rest(q).op = q.op
  BY RestFields
<1>6. CASE q.op # "unmatchLine"
  <2>1. \A a \in Account : Effect(d, x, a) = 0
    BY <1>4, <1>6 DEF Sound, SoundTx, KeepsBalance
  <2>2. \A a : Owed(e, Rest(q), a) = 0 /\ Owed(d, q, a) = 0
    BY <1>5, <1>6, NothingOwed
  <2> QED
    BY <1>1, <1>2, <2>1, <2>2 DEF Pays
<1>7. CASE q.op = "unmatchLine" /\ \A n \in DOMAIN q.todo : n > 1 => SameFor(d, e, q.todo[n])
  <2>1. \A a \in Account : Owed(e, Rest(q), a) = Owed(d, q, a) - Effect(d, Head(q.todo), a)
    BY <1>7, OwnOwed
  <2> QED
    BY <1>1, <1>2, <2>1 DEF Pays
<1>8. ASSUME q.op = "unmatchLine", NEW n \in DOMAIN q.todo, n > 1, ~SameFor(d, e, q.todo[n]) PROVE Doomed(e, Rest(q))
  <2>1. \A i \in TouchBoth(x, q.todo[n]) : Erases(x.touch[i])
    <3>1. 1 < n
      <4>1. PICK len \in Nat : len = Len(q.todo)
        BY <1>3, ScriptTx
      <4>2. n \in 1..len
        BY <1>3, <1>8, <4>1, ScriptTx
      <4> QED
        BY ONLY <1>8, <4>1, <4>2
    <3> QED
      BY <1>4, <1>8, <3>1 DEF Sound, ErasedFirst
  <2>2. Lost(e, q.todo[n])
    BY <1>2, <1>4, <1>8, <2>1, OwnRows
  <2>3. PICK len \in Nat : len = Len(q.todo)
    BY <1>3, ScriptTx
  <2>4. PICK s : s = Tail(q.todo)
    OBVIOUS
  <2>5. IsScript(d, s) /\ Len(s) = len - 1 /\ DOMAIN q.todo = 1..len /\ \A k \in DOMAIN s : s[k] = q.todo[k + 1]
    BY <1>3, <2>3, <2>4, ScriptTx
  <2>6. DOMAIN s = 1..(len - 1)
    BY <2>5, ScriptTx
  <2>7. n \in 1..len
    BY <1>8, <2>5
  <2>8. n - 1 \in 1..(len - 1) /\ (n - 1) + 1 = n
    BY ONLY <1>8, <2>3, <2>7
  <2>9. n - 1 \in DOMAIN s /\ Lost(e, s[n - 1])
    BY <2>2, <2>5, <2>6, <2>8
  <2>10. Rest(q).todo = s
    BY <2>4, RestFields
  <2> QED
    BY <1>5, <1>8, <2>9, <2>10 DEF Doomed
<1> QED
  BY <1>1, <1>2, <1>6, <1>7, <1>8 DEF Pays

(* The others owe what they owed.                                          *)
Owes(d, e, q, n) == Doomed(e, n) \/ \A a \in Account : Owed(e, n, a) = Owed(d, q, a)

LEMMA OtherOwes ==
  ASSUME NEW d, IsDatabase(d), NEW x, IsTx(d, x), NEW q, IsRequest(d, q), ~q.stale => Sound(d, q)
  PROVE  Owes(d, Apply(d, x), q, Aged(q, x))
<1>1. PICK e : e = Apply(d, x)
  OBVIOUS
<1>2. PICK n : n = Aged(q, x)
  OBVIOUS
<1>3. n.op = q.op /\ n.todo = q.todo /\ (n.stale <=> (q.stale \/ Changed(x) \cap q.on # {})) /\ IsScript(d, q.todo)
  BY <1>2, AgedFields DEF IsRequest
<1>4. CASE q.op # "unmatchLine"
  <2>1. \A a : Owed(e, n, a) = 0 /\ Owed(d, q, a) = 0
    BY <1>3, <1>4, NothingOwed
  <2> QED
    BY <1>1, <1>2, <2>1 DEF Owes
<1>5. CASE q.op = "unmatchLine" /\ n.stale
  BY <1>1, <1>2, <1>3, <1>5 DEF Owes, Doomed
<1>6. CASE ~n.stale
  <2>1. Sound(d, q) /\ Changed(x) \cap q.on = {}
    BY <1>3, <1>6
  <2>2. \A k \in DOMAIN q.todo : \A a : Effect(e, q.todo[k], a) = Effect(d, q.todo[k], a)
    BY <1>1, <1>3, <2>1, OtherSound
  <2>3. \A k, a : Later(e, n, k, a) = Later(d, q, k, a)
    BY <1>3, <2>2 DEF Later
  <2>4. \A a : Owed(e, n, a) = Owed(d, q, a)
    BY <1>3, <2>3 DEF Owed
  <2> QED
    BY <1>1, <1>2, <2>4 DEF Owes
<1> QED
  BY <1>4, <1>5, <1>6

(* One request pays what it owes, the others owe what they owed: the sum   *)
(* goes with the drift.                                                    *)
LEMMA SumPaid ==
  ASSUME NEW f \in [Request -> Int], NEW g \in [Request -> Int], NEW r \in Request, NEW c \in Int,
         \A p \in Request \ {r} : g[p] = f[p], g[r] = f[r] - c,
         NEW z \in Int, z + SumFunction(f) = 0
  PROVE  (z + c) + SumFunction(g) = 0
<1>1. SumFunction(g) = SumFunction(f) - f[r] + g[r]
  BY SumChanges, RequestAssumption
<1>2. SumFunction(f) \in Int /\ f[r] \in Int
  BY SumInt, RequestAssumption
<1> QED
  BY <1>1, <1>2

LEMMA OwedFunction ==
  ASSUME TypeInv, NEW a \in Account
  PROVE  [p \in Request |-> Owed(db, req[p], a)] \in [Request -> Int]
BY OwedInt DEF TypeInv

LEMMA CommitPays ==
  ASSUME TypeInv, Clean, NEW r \in Request, NEW x, Commits(r, x), ~req[r].stale
  PROVE  Pays(db, db', x, req[r], req'[r])
<1>1. PICK q : q = req[r]
  OBVIOUS
<1>2. PICK e : e = db'
  OBVIOUS
<1>3. IsDatabase(db) /\ IsRequest(db, q) /\ Sound(db, q)
  BY <1>1 DEF TypeInv, Clean
<1>4. q.todo # <<>> /\ x = Head(q.todo) /\ ~Lost(db, x) /\ e = Apply(db, x)
  BY <1>1, <1>2 DEF Commits
<1>5. Pays(db, e, x, q, Rest(q))
  BY <1>3, <1>4, OwnPays
<1>6. CASE req'[r] = Idle /\ Rest(q).todo = <<>>
  <2>1. ~Doomed(e, Rest(q))
    <3>1. Rest(q).stale = q.stale
      BY <1>3, RestFields
    <3>2. DOMAIN Rest(q).todo = {}
      BY <1>6
    <3> QED
      BY <1>1, <3>1, <3>2 DEF Doomed
  <2>2. Idle.todo = <<>>
    BY DEF Idle
  <2>3. \A a : Owed(e, Rest(q), a) = 0 /\ Owed(e, Idle, a) = 0
    BY <1>6, <2>2, NothingOwed
  <2> QED
    BY <1>1, <1>2, <1>5, <1>6, <2>1, <2>3 DEF Pays
<1> QED
  BY <1>1, <1>2, <1>5, <1>6 DEF Commits

LEMMA CommitOwes ==
  ASSUME TypeInv, Clean, NEW r \in Request, NEW x, Commits(r, x), NEW p \in Request \ {r}
  PROVE  Owes(db, db', req[p], req'[p])
<1>1. CASE ~Busy(p)
  <2>1. req'[p] = Idle /\ req[p] = Idle
    BY <1>1 DEF Commits, Busy
  <2>2. Idle.todo = <<>>
    BY DEF Idle
  <2>3. \A d, a : Owed(d, Idle, a) = 0
    BY <2>2, NothingOwed
  <2> QED
    BY <2>1, <2>3 DEF Owes
<1>2. CASE Busy(p)
  <2>1. PICK q : q = req[p]
    OBVIOUS
  <2>2. IsDatabase(db) /\ IsRequest(db, q) /\ (~q.stale => Sound(db, q))
    BY <2>1 DEF TypeInv, Clean
  <2>3. IsTx(db, x) /\ db' = Apply(db, x) /\ req'[p] = Aged(q, x)
    BY <1>2, <2>1 DEF Commits
  <2>4. Owes(db, Apply(db, x), q, Aged(q, x))
    BY <2>2, <2>3, OtherOwes
  <2> QED
    BY <2>1, <2>3, <2>4
<1> QED
  BY <1>1, <1>2

LEMMA CommitDoomed ==
  ASSUME TypeInv, Clean, NEW r \in Request, NEW x, Commits(r, x), ~req[r].stale,
         NEW p \in Request, Doomed(db, req[p])
  PROVE  Doomed(db', req'[p])
<1>1. PICK q : q = req[p]
  OBVIOUS
<1>2. IsDatabase(db) /\ IsRequest(db, q) /\ Doomed(db, q)
  BY <1>1 DEF TypeInv
<1>3. IsTx(db, x) /\ ~Lost(db, x) /\ db' = Apply(db, x)
  BY DEF Commits
<1>4. CASE p # r
  <2>1. Busy(p)
    BY <1>1, <1>2 DEF Doomed, Busy, Idle
  <2>2. PICK n : n = Aged(q, x)
    OBVIOUS
  <2>3. n.op = q.op /\ n.todo = q.todo /\ (q.stale => n.stale)
    BY <1>2, <2>2, AgedFields
  <2>4. Doomed(Apply(db, x), n)
    BY <1>2, <1>3, <2>3, DoomedStays
  <2>5. req'[p] = n
    BY <1>1, <1>4, <2>1, <2>2 DEF Commits
  <2> QED
    BY <1>3, <2>4, <2>5
<1>5. CASE p = r
  <2>1. Sound(db, q) /\ ~q.stale /\ q.todo # <<>> /\ x = Head(q.todo)
    BY <1>1, <1>5 DEF Clean, Commits
  <2>2. Doomed(Apply(db, x), Rest(q))
    BY <1>2, <1>3, <2>1, DoomedGoesOn
  <2>3. Rest(q).todo # <<>>
    <3>1. Rest(q).stale = q.stale
      BY <1>2, RestFields
    <3>2. DOMAIN Rest(q).todo # {}
      BY <2>1, <2>2, <3>1 DEF Doomed
    <3> QED
      BY <3>2
  <2>4. req'[p] = Rest(q)
    BY <1>1, <1>5, <2>3 DEF Commits
  <2> QED
    BY <1>3, <2>2, <2>4
<1> QED
  BY <1>4, <1>5

LEMMA CommitEven ==
  ASSUME TypeInv, Clean, Even, NEW r \in Request, NEW x, Commits(r, x), ~req[r].stale
  PROVE  Even'
<1>1. CASE \E p \in Request : Doomed(db', req'[p])
  BY <1>1 DEF Even
<1>2. CASE \A p \in Request : ~Doomed(db', req'[p])
  <2>1. \A p \in Request : ~Doomed(db, req[p])
    BY <1>2, CommitDoomed
  <2>2. ASSUME NEW a \in Account
        PROVE  Drift(a)' + SumFunction([p \in Request |-> Owed(db', req'[p], a)]) = 0
    <3>1. PICK f : f = [p \in Request |-> Owed(db, req[p], a)]
      OBVIOUS
    <3>2. PICK g : g = [p \in Request |-> Owed(db', req'[p], a)]
      OBVIOUS
    <3>3. f \in [Request -> Int]
      BY <3>1, OwedFunction
    <3>4. g \in [Request -> Int]
      <4>1. \A p \in Request : Owed(db', req'[p], a) \in Int
        <5>1. IsDatabase(db') /\ \A p \in Request : IsRequest(db', req'[p])
          BY CommitTyped DEF TypeInv
        <5> QED
          BY <5>1, OwedInt
      <4> QED
        BY <3>2, <4>1
    <3>5. ASSUME NEW p \in Request \ {r} PROVE g[p] = f[p]
      <4>1. Owed(db', req'[p], a) = Owed(db, req[p], a)
        BY <1>2, CommitOwes DEF Owes
      <4> QED
        BY <3>1, <3>2, <4>1
    <3>6. IsDatabase(db) /\ IsTx(db, x) /\ db' = Apply(db, x)
      BY DEF TypeInv, Commits
    <3>7. PICK c \in Int : c = Effect(db, x, a)
      BY <3>6, EffectInt
    <3>8. g[r] = f[r] - c
      <4>1. Owed(db', req'[r], a) = Owed(db, req[r], a) - Effect(db, x, a)
        BY <1>2, CommitPays DEF Pays
      <4> QED
        BY <3>1, <3>2, <3>7, <4>1
    <3>9. PICK z \in Int : z = Drift(a)
      <4>1. db.balance[a] \in Int
        BY <3>6 DEF IsDatabase
      <4>2. Posted(db, a, Month) \in Int
        BY <3>6, PostedAfter
      <4> QED
        BY <4>1, <4>2 DEF Drift
    <3>10. z + SumFunction(f) = 0
      BY <2>1, <3>1, <3>9 DEF Even
    <3>11. (z + c) + SumFunction(g) = 0
      BY <3>3, <3>4, <3>5, <3>7, <3>8, <3>9, <3>10, SumPaid
    <3>12. Drift(a)' = z + c
      <4>1. Apply(db, x).balance[a] - Posted(Apply(db, x), a, Month) = (db.balance[a] - Posted(db, a, Month)) + Effect(db, x, a)
        BY <3>6, DriftAfter
      <4> QED
        BY <3>6, <3>7, <3>9, <4>1 DEF Drift
    <3> QED
      BY <3>2, <3>11, <3>12
  <2> QED
    BY <2>2 DEF Even
<1> QED
  BY <1>1, <1>2

----------------------------------------------------------------------------
(* The steps that write nothing *)

LEMMA AdmitsTyped ==
  ASSUME TypeInv, NEW r \in Request, Admits(r)
  PROVE  TypeInv'
<1>1. \A p \in Request : IsRequest(db, req'[p])
  BY DEF Admits, TypeInv
<1> QED
  BY <1>1 DEF Admits, TypeInv

LEMMA AdmitsClean ==
  ASSUME TypeInv, Clean, NEW r \in Request, Admits(r), Slip(r) = {}
  PROVE  Clean'
<1>1. \A p \in Request : ~req'[p].stale => Sound(db, req'[p])
  BY DEF Admits, Fresh, Clean
<1> QED
  BY <1>1 DEF Admits, Clean

LEMMA AdmitsEven ==
  ASSUME TypeInv, Clean, Even, NEW r \in Request, Admits(r), Slip(r) = {}
  PROVE  Even'
<1>1. db' = db /\ \A p \in Request \ {r} : req'[p] = req[p]
  BY DEF Admits
<1>2. CASE \E p \in Request : Doomed(db', req'[p])
  BY <1>2 DEF Even
<1>3. CASE \A p \in Request : ~Doomed(db', req'[p])
  <2>1. \A p \in Request : ~Doomed(db, req[p])
    BY <1>1, <1>3 DEF Admits, Doomed
  <2>2. ASSUME NEW a \in Account
        PROVE  Drift(a)' + SumFunction([p \in Request |-> Owed(db', req'[p], a)]) = 0
    <3>1. Owed(db, req[r], a) = 0
      BY NothingOwed DEF Admits
    <3>2. Owed(db, req'[r], a) = 0
      BY <1>1, <1>3, NothingOwed DEF Admits, Fresh
    <3>3. \A p \in Request : Owed(db, req'[p], a) = Owed(db, req[p], a)
      BY <1>1, <3>1, <3>2
    <3>4. [p \in Request |-> Owed(db', req'[p], a)] = [p \in Request |-> Owed(db, req[p], a)]
      BY <1>1, <3>3
    <3>5. Drift(a)' = Drift(a)
      BY <1>1 DEF Drift
    <3>6. Drift(a) + SumFunction([p \in Request |-> Owed(db, req[p], a)]) = 0
      BY <2>1 DEF Even
    <3> QED
      BY <3>4, <3>5, <3>6
  <2> QED
    BY <2>2 DEF Even
<1> QED
  BY <1>2, <1>3

LEMMA GiveUpIs ==
  ASSUME TypeInv, NEW r \in Request, GiveUp(r)
  PROVE  TypeInv' /\ db' = db /\ (req[r].op # "unmatchLine" => Admits(r))
<1>1. /\ db' = db /\ transit' = transit /\ DOMAIN req' = Request
      /\ req'[r] = Idle /\ \A p \in Request \ {r} : req'[p] = req[p]
  BY DEF GiveUp, TypeInv
<1>2. IsRequest(db, Idle) /\ Fresh(db, Idle)
  BY IdleIs
<1>3. TypeInv'
  BY <1>1, <1>2 DEF TypeInv
<1>4. req[r].op # "unmatchLine" => Admits(r)
  BY <1>1, <1>2 DEF Admits
<1> QED
  BY <1>1, <1>3, <1>4

----------------------------------------------------------------------------
(* The invariant *)

Inv == TypeInv /\ (slips = {} => Clean /\ Even)

LEMMA StepTyped ==
  ASSUME TypeInv, NEW r \in Request, LedgerNext(r) \/ LineNext(r) \/ Commit(r) \/ Stop(r)
  PROVE  TypeInv'
<1>1. CASE LedgerNext(r) \/ LineNext(r)
  BY <1>1, LedgerAdmits, LineAdmits, AdmitsTyped
<1>2. CASE Commit(r)
  BY <1>2, CommitIs, CommitTyped
<1>3. CASE Stop(r)
  BY <1>3, GiveUpIs DEF Stop
<1> QED
  BY <1>1, <1>2, <1>3

LEMMA StepEven ==
  ASSUME TypeInv, Clean, Even, NEW r \in Request, LedgerNext(r) \/ LineNext(r) \/ Commit(r) \/ Stop(r),
         Slip(r) = {}
  PROVE  Clean' /\ Even'
<1>1. CASE Admits(r)
  BY <1>1, AdmitsClean, AdmitsEven
<1>2. CASE LedgerNext(r) \/ LineNext(r)
  BY <1>1, <1>2, LedgerAdmits, LineAdmits
<1>3. CASE Commit(r)
  <2>1. ~req[r].stale
    BY <1>3, NoSlip
  <2>2. PICK x : Commits(r, x)
    BY <1>3, CommitIs
  <2> QED
    BY <2>1, <2>2, CommitClean, CommitEven
<1>4. CASE Stop(r)
  <2>1. req[r].op # "unmatchLine"
    BY <1>4, NoSlip
  <2>2. Admits(r)
    BY <1>4, <2>1, GiveUpIs DEF Stop
  <2> QED
    BY <1>1, <2>2
<1> QED
  BY <1>2, <1>3, <1>4

LEMMA NextInv == Inv /\ [Next]_treasuryVars => Inv'
<1> SUFFICES ASSUME Inv, [Next]_treasuryVars PROVE Inv'
  OBVIOUS
<1>1. CASE Next
  <2>1. PICK r \in Request : /\ LedgerNext(r) \/ LineNext(r) \/ Commit(r) \/ Stop(r)
                             /\ slips' = slips \cup Slip(r)
    BY <1>1 DEF Next
  <2>2. TypeInv'
    BY <2>1, StepTyped DEF Inv
  <2>3. ASSUME slips' = {} PROVE Clean' /\ Even'
    <3>1. slips = {} /\ Slip(r) = {}
      BY <2>1, <2>3
    <3> QED
      BY <2>1, <3>1, StepEven DEF Inv
  <2> QED
    BY <2>2, <2>3 DEF Inv
<1>2. CASE UNCHANGED treasuryVars
  <2>1. db' = db /\ transit' = transit /\ req' = req /\ slips' = slips
    BY <1>2 DEF treasuryVars, vars
  <2>2. TypeInv'
    BY <2>1 DEF Inv, TypeInv
  <2>3. Clean => Clean'
    BY <2>1 DEF Clean
  <2>4. Even => Even'
    BY <2>1 DEF Even, Drift
  <2> QED
    BY <2>1, <2>2, <2>3, <2>4 DEF Inv
<1> QED
  BY <1>1, <1>2

(* At first nothing is paid and no request runs.                           *)
LEMMA FirstRows ==
  ASSUME NEW rows \in FirstEntries
  PROVE  /\ rows \in Seq(EntryRow)
         /\ \A i \in DOMAIN rows : GoodEntry(rows[i]) /\ Regular(rows[i]) /\ rows[i].status = "PENDING"
<1>1. rows \in Seq(EntryRow)
  BY FirstAssumption
<1>2. ASSUME NEW i \in DOMAIN rows PROVE GoodEntry(rows[i]) /\ Regular(rows[i]) /\ rows[i].status = "PENDING"
  <2>1. PICK e : e = rows[i]
    OBVIOUS
  <2>2. e \in EntryRow
    BY <1>1, <2>1
  <2>3. e = Due(e.type, e.gross, e.bps, e.account)
    BY <2>1, FirstAssumption
  <2>4. PICK type \in {"RECEIVABLE", "PAYABLE"}, gross \in Int, bps \in Nat, account \in Account \cup {NoAccount} :
          e = Due(type, gross, bps, account)
    BY <2>2, <2>3 DEF EntryRow
  <2> QED
    BY <2>1, <2>4, DueRow
<1> QED
  BY <1>1, <1>2

LEMMA PostedAtFirst ==
  ASSUME NEW d, d.entries \in Seq(EntryRow), \A i \in DOMAIN d.entries : d.entries[i].status = "PENDING",
         d.transfers = <<>>, NEW a \in Account
  PROVE  Posted(d, a, Month) = 0
<1>1. PICK f : f = [i \in DOMAIN d.entries |-> Worth(d.entries[i], a, Month)]
  OBVIOUS
<1>2. PICK g : g = [k \in DOMAIN d.transfers |-> Carried(d.transfers[k], a, Month)]
  OBVIOUS
<1>3. \A i \in DOMAIN d.entries : f[i] = 0
  BY <1>1, WorthZero
<1>4. PICK D : D = DOMAIN d.entries
  OBVIOUS
<1>5. IsFiniteSet(D)
  <2>1. Len(d.entries) \in Nat /\ D = 1..Len(d.entries)
    BY <1>4
  <2> QED
    BY <2>1, FS_Interval
<1>6. f \in [D -> Int] /\ \A i \in D : f[i] = 0
  <2>1. \A i \in D : f[i] = 0
    BY <1>3, <1>4
  <2>2. f = [i \in D |-> f[i]]
    BY <1>1, <1>4
  <2> QED
    BY ONLY <2>1, <2>2
<1>7. SumFunction(f) = 0
  BY <1>5, <1>6, SumOfZeros
<1>8. DOMAIN d.transfers = {}
  OBVIOUS
<1>9. g \in [{} -> Int] /\ IsFiniteSet({})
  BY <1>2, <1>8, FS_EmptySet
<1>10. SumFunction(g) = 0
  BY <1>9, SumOfZeros
<1>11. Posted(d, a, Month) = SumFunction(f) + SumFunction(g)
  BY <1>1, <1>2 DEF Posted
<1> QED
  BY ONLY <1>7, <1>10, <1>11

LEMMA InitInv == Init => Inv
<1> SUFFICES ASSUME Init PROVE Inv
  OBVIOUS
<1>1. /\ db.entries \in FirstEntries /\ db.balance = [a \in Account |-> 0] /\ db.transfers = <<>>
      /\ db.lines = [l \in Line |-> [status |-> "UNMATCHED", entry |-> 0]] /\ db.closed = {}
      /\ transit \in {Transit, NoAccount} /\ req = [r \in Request |-> Idle]
  BY DEF Init
<1>2. /\ db.entries \in Seq(EntryRow)
      /\ \A i \in DOMAIN db.entries : /\ GoodEntry(db.entries[i]) /\ Regular(db.entries[i])
                                      /\ db.entries[i].status = "PENDING"
  BY <1>1, FirstRows
<1>3. \A r \in Request : req[r] = Idle
  BY <1>1
<1>4. IsDatabase(db)
  <2>1. db.balance \in [Account -> Int]
    BY <1>1
  <2>2. db.transfers \in Seq(WireRow) /\ DOMAIN db.transfers = {}
    BY <1>1
  <2>3. db.lines \in [Line -> LineRow] /\ \A l \in Line : db.lines[l].status = "UNMATCHED"
    BY <1>1 DEF LineRow, LineStatus
  <2>4. \A l \in Line : db.lines[l].status # "MATCHED"
    BY <2>3
  <2> QED
    BY <1>1, <1>2, <2>1, <2>2, <2>3, <2>4 DEF IsDatabase
<1>5. TypeInv
  BY <1>1, <1>3, <1>4, IdleIs DEF TypeInv
<1>6. Clean
  <2>1. OneMatch(db)
    BY <1>1 DEF OneMatch
  <2> QED
    BY <1>2, <1>3, <2>1, IdleIs DEF Clean, Fresh
<1>7. Even
  <2>1. ASSUME NEW a \in Account
        PROVE  Drift(a) + SumFunction([r \in Request |-> Owed(db, req[r], a)]) = 0
    <3>1. Posted(db, a, Month) = 0
      BY <1>1, <1>2, PostedAtFirst
    <3>2. Drift(a) = 0
      BY <1>1, <3>1 DEF Drift
    <3>3. \A d : Owed(d, Idle, a) = 0
      BY NothingOwed DEF Idle
    <3>4. PICK f : f = [r \in Request |-> Owed(db, req[r], a)]
      OBVIOUS
    <3>5. f \in [Request -> Int] /\ \A r \in Request : f[r] = 0
      BY <1>3, <3>3, <3>4
    <3>6. SumFunction(f) = 0
      BY <3>5, SumOfZeros, RequestAssumption
    <3> QED
      BY <3>2, <3>4, <3>6
  <2> QED
    BY <2>1 DEF Even
<1> QED
  BY <1>5, <1>6, <1>7 DEF Inv

LEMMA SpecInv == Spec => []Inv
BY InitInv, NextInv, PTL DEF Spec

----------------------------------------------------------------------------
(* The theorems *)

(* Whatever the requests do, and however they are interleaved, a paid      *)
(* entry has the month of its payment, a transfer two accounts and an      *)
(* amount, and a matched line an entry that is there.                      *)
THEOREM TreasuryTyped == Spec => []TreasuryTypeOK
<1>1. Inv => TreasuryTypeOK
  <2> SUFFICES ASSUME TypeInv PROVE TreasuryTypeOK
    BY DEF Inv
  <2>1. IsDatabase(db)
    BY DEF TypeInv
  <2>2. ASSUME NEW i \in DOMAIN db.entries
        PROVE  LET e == db.entries[i]
               IN /\ e.type \in {"RECEIVABLE", "PAYABLE"}
                  /\ e.status \in {"PENDING", "PAID", "CANCELLED", "ERASED"}
                  /\ e.account \in Account \cup {NoAccount}
                  /\ e.net = e.gross - e.cut \/ e.net = e.gross
                  /\ IsPaid(e) => e.month \in Month
    <3>1. PICK e : e = db.entries[i]
      OBVIOUS
    <3>2. GoodEntry(e)
      BY <2>1, <3>1 DEF IsDatabase
    <3>3. /\ e.type \in {"RECEIVABLE", "PAYABLE"} /\ e.status \in {"PENDING", "PAID", "CANCELLED", "ERASED"}
          /\ e.account \in Account \cup {NoAccount}
      BY <3>2 DEF GoodEntry, EntryRow
    <3> QED
      BY <3>1, <3>2, <3>3 DEF GoodEntry, IsPaid
  <2>3. ASSUME NEW k \in DOMAIN db.transfers
        PROVE  LET w == db.transfers[k] IN w.from # w.to /\ w.amount > 0
    <3>1. PICK w : w = db.transfers[k]
      OBVIOUS
    <3>2. GoodWire(w)
      BY <2>1, <3>1 DEF IsDatabase
    <3>3. w.from # w.to /\ w.amount \in Nat \ {0}
      BY <3>2 DEF GoodWire, WireRow
    <3> QED
      BY <3>1, <3>3
  <2> QED
    BY <2>1, <2>2, <2>3 DEF TreasuryTypeOK, IsDatabase
<1> QED
  BY <1>1, SpecInv, PTL

(* Until one of the named slips happens, no entry is matched with two      *)
(* lines of the statement: the check of matchLine, made before its         *)
(* transaction, is enough as long as what it read stands.                  *)
THEOREM EntryMatchedOnce == Spec => []OneLinePerEntry
<1>1. Inv => OneLinePerEntry
  BY DEF Inv, Clean, OneMatch, OneLinePerEntry, Explained
<1> QED
  BY <1>1, SpecInv, PTL

(* Until one of the named slips happens, every account has, whenever no    *)
(* request runs, the balance its entries and transfers add up to.          *)
THEOREM BalancesMatch == Spec => []Balanced
<1>1. Inv => Balanced
  <2> SUFFICES ASSUME Inv, AtRest, slips = {}, NEW a \in Account PROVE Drift(a) = 0
    BY DEF Balanced, Explained
  <2>1. \A r \in Request : req[r] = Idle
    BY DEF AtRest, Busy
  <2>2. TypeInv /\ Even
    BY DEF Inv
  <2>3. \A r \in Request : ~Doomed(db, req[r])
    BY <2>1 DEF Doomed, Idle
  <2>4. \A d : Owed(d, Idle, a) = 0
    BY NothingOwed DEF Idle
  <2>5. PICK f : f = [r \in Request |-> Owed(db, req[r], a)]
    OBVIOUS
  <2>6. f \in [Request -> Int] /\ \A r \in Request : f[r] = 0
    BY <2>1, <2>4, <2>5
  <2>7. SumFunction(f) = 0
    BY <2>6, SumOfZeros, RequestAssumption
  <2>8. Drift(a) + SumFunction(f) = 0
    BY <2>2, <2>3, <2>5 DEF Even
  <2>9. Drift(a) \in Int
    <3>1. db.balance[a] \in Int
      BY <2>2 DEF TypeInv, IsDatabase
    <3>2. IsTx(db, Tx)
      BY DEF IsTx, Tx, Nothing
    <3>3. Posted(db, a, Month) \in Int
      BY <2>2, <3>2, PostedAfter DEF TypeInv
    <3> QED
      BY <3>1, <3>3 DEF Drift
  <2> QED
    BY <2>7, <2>8, <2>9
<1> QED
  BY <1>1, SpecInv, PTL

(* A match, or the undoing of one, posts in the bank only in the month of  *)
(* its line, as long as the same entries count there.                      *)
LEMMA BankKept ==
  ASSUME NEW d, IsDatabase(d), NEW x, IsTx(d, x), NEW m, NEW o, m # o, InMonth(d, x, m),
         EntriesIn(d, Bank, {o}) = EntriesIn(Apply(d, x), Bank, {o})
  PROVE  Gain(d, x, Bank, {o}) = 0
<1>1. PICK e : e = Apply(d, x)
  OBVIOUS
<1>2. PatchGain(d, x, Bank, {o}) = 0
  <2>1. CASE DOMAIN x.touch = {}
    BY <2>1 DEF PatchGain
  <2>2. CASE DOMAIN x.touch # {}
    <3>1. PICK i : DOMAIN x.touch = {i}
      BY <2>2 DEF IsTx
    <3>2. The({i}) = i
      BY DEF The
    <3>3. PICK old : old = d.entries[i]
      OBVIOUS
    <3>4. PICK new : new = Patched(old, x.touch[i])
      OBVIOUS
    <3>5. /\ i \in DOMAIN d.entries /\ IsPatch(old.cut, x.touch[i]) /\ "gross" \notin DOMAIN x.touch[i]
          /\ GoodEntry(old)
      BY <3>1, <3>3 DEF IsTx, IsDatabase, InMonth
    <3>6. new.type = old.type /\ new.net = old.net
      <4>1. "net" \notin DOMAIN x.touch[i]
        BY <3>5 DEF IsPatch
      <4>2. PICK p : p = x.touch[i]
        OBVIOUS
      <4>3. new.type = old.type /\ new.net = (IF "net" \in DOMAIN p THEN p["net"] ELSE old.net)
        BY <3>4, <3>5, <4>2, PatchedColumns
      <4> QED
        BY <4>1, <4>2, <4>3
    <3>7. e.entries[i] = new /\ i \in DOMAIN e.entries
      BY <1>1, <3>1, <3>3, <3>4, <3>5, EntriesAfter
    <3>8. Counts(old, Bank, {o}) <=> Counts(new, Bank, {o})
      <4>1. i \in EntriesIn(d, Bank, {o}) <=> Counts(old, Bank, {o})
        BY <3>3, <3>5 DEF EntriesIn
      <4>2. i \in EntriesIn(e, Bank, {o}) <=> Counts(new, Bank, {o})
        BY <3>7 DEF EntriesIn
      <4> QED
        BY <1>1, <4>1, <4>2
    <3>9. PICK c \in Int : c = Signed(old)
      BY <3>5, SignedInt
    <3>10. Signed(new) = c
      BY <3>6, <3>9 DEF Signed, Sign
    <3>11. Worth(old, Bank, {o}) = Worth(new, Bank, {o}) /\ Worth(old, Bank, {o}) \in Int
      BY <3>8, <3>9, <3>10 DEF Worth
    <3>12. PatchGain(d, x, Bank, {o}) = Worth(new, Bank, {o}) - Worth(old, Bank, {o})
      BY <2>2, <3>1, <3>2, <3>3, <3>4 DEF PatchGain
    <3> QED
      BY <3>11, <3>12
  <2> QED
    BY <2>1, <2>2
<1>3. MadeGain(x, Bank, {o}) = 0
  BY DEF InMonth, MadeGain, Worth, Counts
<1>4. WireGain(x, Bank, {o}) = 0
  BY DEF InMonth, WireGain, Carried
<1>5. UnwireGain(d, x, Bank, {o}) = 0
  <2>1. CASE DOMAIN x.unwire = {}
    BY <2>1 DEF UnwireGain
  <2>2. CASE DOMAIN x.unwire # {}
    <3>1. PICK k : DOMAIN x.unwire = {k}
      BY <2>2 DEF IsTx
    <3>2. The({k}) = k
      BY DEF The
    <3>3. Carried(d.transfers[k], Bank, {o}) = 0
      BY <3>1 DEF InMonth, Carried
    <3> QED
      BY <2>2, <3>1, <3>2, <3>3 DEF UnwireGain
  <2> QED
    BY <2>1, <2>2
<1> QED
  BY <1>2, <1>3, <1>4, <1>5 DEF Gain

(* What a commit of r may change in a closed month of an account.          *)
MayPost(r, p) ==
  \/ req[r].op \in {"updateEntry", "rebalance"}
  \/ req[r].op \in {"matchLine", "unmatchLine"} /\ p[1] # Bank
  \/ req[r].op \in {"matchLine", "unmatchLine"} /\ EntriesIn(db, Bank, {p[2]}) # EntriesIn(db', Bank, {p[2]})

LEMMA CommitKeeps ==
  ASSUME TypeInv, Clean, NEW r \in Request, NEW x, Commits(r, x), ~req[r].stale, NEW p \in db.closed
  PROVE  MayPost(r, p) \/ Posted(db', p[1], {p[2]}) = Posted(db, p[1], {p[2]})
<1>1. PICK q : q = req[r]
  OBVIOUS
<1>2. IsDatabase(db) /\ IsTx(db, x) /\ db' = Apply(db, x) /\ SoundTx(db, q, x)
  BY <1>1, HeadSound DEF TypeInv, Commits, Clean
<1>3. PICK a \in Account, o \in Month : p = <<a, o>>
  BY <1>2 DEF IsDatabase
<1>4. p[1] = a /\ p[2] = o /\ <<a, o>> \in db.closed
  BY <1>3
<1>5. PICK g : g = Gain(db, x, a, {o})
  OBVIOUS
<1>6. Posted(db', a, {o}) = Posted(db, a, {o}) + g /\ Posted(db, a, {o}) \in Int
  BY <1>2, <1>5, PostedAfter
<1>7. ASSUME ~MayPost(r, p) PROVE g = 0
  <2>1. CASE q.op \notin Unchecked
    <3>1. Gain(db, x, a, {o}) = 0 \/ IsOpenFor(db, q, a, o)
      BY <1>2, <2>1 DEF SoundTx, KeepsMonths
    <3> QED
      BY <1>4, <1>5, <3>1 DEF IsOpenFor
  <2>2. CASE q.op \in {"matchLine", "unmatchLine"}
    <3>1. a = Bank /\ EntriesIn(db, Bank, {o}) = EntriesIn(Apply(db, x), Bank, {o})
      BY <1>1, <1>2, <1>4, <1>7, <2>2 DEF MayPost
    <3>2. PICK m \in Month : IsOpenFor(db, q, Bank, m) /\ InMonth(db, x, m)
      BY <1>2, <2>2 DEF SoundTx, KeepsBank
    <3>3. m # o
      BY <1>4, <3>1, <3>2 DEF IsOpenFor
    <3> QED
      BY <1>2, <1>5, <3>1, <3>2, <3>3, BankKept
  <2>3. CASE q.op \in {"updateEntry", "rebalance"}
    BY <1>1, <1>7, <2>3 DEF MayPost
  <2> QED
    BY <2>1, <2>2, <2>3 DEF Unchecked
<1> QED
  BY <1>4, <1>6, <1>7

LEMMA CommitEnds ==
  ASSUME TypeInv, NEW r \in Request, NEW x, Commits(r, x)
  PROVE  req'[r] # req[r]
<1>1. IsRequest(db, req[r]) /\ IsScript(db, req[r].todo) /\ req[r].todo # <<>>
  BY DEF TypeInv, IsRequest, Commits
<1>2. Rest(req[r]).todo = Tail(req[r].todo)
  BY <1>1, RestFields
<1>3. Tail(req[r].todo) # req[r].todo
  <2>1. PICK s : s = req[r].todo
    OBVIOUS
  <2>2. Len(s) \in Nat /\ Len(Tail(s)) = Len(s) - 1
    BY <1>1, <2>1, ScriptTx
  <2>3. Len(Tail(s)) # Len(s)
    BY ONLY <2>2
  <2> QED
    BY <2>1, <2>3
<1>4. Idle.todo = <<>>
  BY DEF Idle
<1> QED
  BY <1>1, <1>2, <1>3, <1>4 DEF Commits

(* Until one of the named slips happens, what is posted in a closed month  *)
(* of an account stays: but for a changed amount, a rebalance, a match or  *)
(* its undoing in another account than the bank, and one that brings an    *)
(* entry into the month or takes it out.                                   *)
THEOREM ClosedMonthsKept == Spec => ClosedMonthKept
<1> DEFINE Kept(p) ==
  \/ Posted(db', p[1], {p[2]}) = Posted(db, p[1], {p[2]})
  \/ slips' # {}
  \/ \E r \in Request :
       \/ Ends(r, {"updateEntry", "rebalance"})
       \/ Ends(r, {"matchLine", "unmatchLine"}) /\ p[1] # Bank
       \/ Ends(r, {"matchLine", "unmatchLine"}) /\ EntriesIn(db, Bank, {p[2]}) # EntriesIn(db', Bank, {p[2]})
<1>1. ASSUME Inv, Next, NEW p \in db.closed PROVE Kept(p)
  <2> SUFFICES ASSUME slips' = {} PROVE Kept(p)
    OBVIOUS
  <2>1. PICK r \in Request : /\ LedgerNext(r) \/ LineNext(r) \/ Commit(r) \/ Stop(r)
                             /\ slips' = slips \cup Slip(r)
    BY <1>1 DEF Next
  <2>2. TypeInv /\ Clean /\ Slip(r) = {}
    BY <1>1, <2>1 DEF Inv
  <2>3. CASE db' = db
    BY <2>3
  <2>4. CASE LedgerNext(r) \/ LineNext(r)
    BY <2>2, <2>3, <2>4, LedgerAdmits, LineAdmits DEF Admits
  <2>5. CASE Stop(r)
    BY <2>2, <2>3, <2>5, GiveUpIs DEF Stop
  <2>6. CASE Commit(r)
    <3>1. PICK x : Commits(r, x)
      BY <2>2, <2>6, CommitIs
    <3>2. ~req[r].stale
      BY <2>2, <2>6, NoSlip
    <3>3. MayPost(r, p) \/ Posted(db', p[1], {p[2]}) = Posted(db, p[1], {p[2]})
      BY <2>2, <3>1, <3>2, CommitKeeps
    <3>4. req'[r] # req[r]
      BY <2>2, <3>1, CommitEnds
    <3> QED
      BY <3>3, <3>4 DEF MayPost, Ends
  <2> QED
    BY <2>1, <2>4, <2>5, <2>6
<1>2. Inv /\ [Next]_treasuryVars => [\A p \in db.closed : Kept(p)]_treasuryVars
  BY <1>1
<1>3. Spec => [][\A p \in db.closed : Kept(p)]_treasuryVars
  BY <1>2, SpecInv, PTL DEF Spec
<1> QED
  BY <1>3 DEF ClosedMonthKept
=============================================================================
