---------------------------- MODULE BillingTypes ----------------------------
(***************************************************************************)
(* The tables of billing stay typed, for every instance.  BillingTypeOK is *)
(* not inductive: a write is made long after it was decided, to a row that *)
(* was read before, so that the invariant says which writes every handler  *)
(* in flight has left (At, by how many follow), that the rows they name    *)
(* exist (Named), and that no row goes away (Grows).                       *)
(***************************************************************************)
EXTENDS Billing, SequenceTheorems, FiniteSetTheorems, WellFoundedInduction, TLAPS

Listed(s) == s \in Seq({s[k] : k \in DOMAIN s})

LEMMA ListedIn == ASSUME NEW S, NEW s \in Seq(S) PROVE Listed(s)
  BY DEF Listed

LEMMA ListedLen == ASSUME NEW s, Listed(s) PROVE Len(s) \in Nat /\ DOMAIN s = 1 .. Len(s)
  BY DEF Listed

LEMMA ListedTail ==
  ASSUME NEW s, Listed(s), s # <<>>
  PROVE  /\ Listed(Tail(s))
         /\ Head(s) = s[1] /\ 1 \in DOMAIN s
         /\ DOMAIN Tail(s) = 1 .. Len(s) - 1 /\ Len(Tail(s)) = Len(s) - 1 /\ Len(s) >= 1
         /\ \A k \in DOMAIN Tail(s) : Tail(s)[k] = s[k + 1] /\ k + 1 \in DOMAIN s
<1> DEFINE S == {s[k] : k \in DOMAIN s}
<1>1. s \in Seq(S)
  BY DEF Listed
<1> HIDE DEF S
<1>2. /\ Tail(s) \in Seq(S) /\ Len(Tail(s)) = Len(s) - 1
      /\ \A i \in 1 .. Len(Tail(s)) : Tail(s)[i] = s[i+1]
  BY <1>1, HeadTailProperties
<1>3. Len(s) \in Nat \ {0} /\ DOMAIN s = 1 .. Len(s)
  BY <1>1, EmptySeq, LenProperties
<1>4. DOMAIN Tail(s) = 1 .. Len(Tail(s))
  BY <1>2, LenProperties
<1>5. Head(s) = s[1]
  BY <1>1
<1>6. Listed(Tail(s))
  BY <1>2, ListedIn
<1> QED
  BY <1>2, <1>3, <1>4, <1>5, <1>6

LEMMA ListedReplace ==
  ASSUME NEW s, Listed(s), s # <<>>, NEW w
  PROVE  LET r == <<w>> \o Tail(s) IN
         /\ Listed(r)
         /\ DOMAIN r = DOMAIN s /\ Len(r) = Len(s)
         /\ r[1] = w
         /\ \A k \in DOMAIN s : k # 1 => r[k] = s[k]
<1> DEFINE S == {s[k] : k \in DOMAIN s} \cup {w}
           T == Tail(s)
           r == <<w>> \o T
<1>1. s \in Seq(S)
  BY DEF Listed
<1>2. <<w>> \in Seq(S) /\ Len(<<w>>) = 1 /\ <<w>>[1] = w
  OBVIOUS
<1> HIDE DEF S
<1>3. /\ T \in Seq(S) /\ Len(T) = Len(s) - 1
      /\ \A i \in 1 .. Len(T) : T[i] = s[i+1]
  BY <1>1, HeadTailProperties
<1>4. Len(s) \in Nat \ {0} /\ DOMAIN s = 1 .. Len(s)
  BY <1>1, EmptySeq, LenProperties
<1> HIDE DEF T
<1>5. /\ r \in Seq(S) /\ Len(r) = 1 + Len(T)
      /\ \A i \in 1 .. 1 + Len(T) : r[i] = IF i <= 1 THEN <<w>>[i] ELSE T[i - 1]
  BY <1>2, <1>3, ConcatProperties
<1> HIDE DEF r
<1>6. DOMAIN r = 1 .. Len(r) /\ Listed(r)
  BY <1>5, LenProperties, ListedIn
<1>7. Len(r) = Len(s)
  BY <1>3, <1>4, <1>5
<1>8. r[1] = w
  BY <1>2, <1>4, <1>5, <1>7
<1>9. ASSUME NEW k \in DOMAIN s, k # 1 PROVE r[k] = s[k]
  <2>1. k - 1 \in 1 .. Len(T) /\ k \in 1 .. 1 + Len(T) /\ ~(k <= 1)
    BY <1>3, <1>4, <1>9
  <2>2. r[k] = T[k - 1]
    BY <2>1, <1>5
  <2>3. T[k - 1] = s[(k - 1) + 1]
    BY <2>1, <1>3
  <2> QED
    BY <2>1, <2>2, <2>3, <1>4
<1> QED
  BY <1>4, <1>6, <1>7, <1>8, <1>9 DEF r, T

LEMMA ListedDrop ==
  ASSUME NEW s, Listed(s), Len(s) >= 3
  PROVE  LET r == SubSeq(s, 4, Len(s)) IN
         /\ Listed(r)
         /\ Len(r) = Len(s) - 3 /\ DOMAIN r = 1 .. Len(s) - 3
         /\ \A k \in DOMAIN r : r[k] = s[k + 3] /\ k + 3 \in DOMAIN s
<1> DEFINE S == {s[k] : k \in DOMAIN s}
           r == SubSeq(s, 4, Len(s))
<1>1. Len(s) \in Nat /\ DOMAIN s = 1 .. Len(s)
  BY ListedLen
<1>2. \A i \in 4 .. Len(s) : s[i] \in S
  BY <1>1
<1> HIDE DEF S
<1>3. /\ r \in Seq(S) /\ Len(r) = IF 4 <= Len(s) THEN Len(s) - 4 + 1 ELSE 0
      /\ \A i \in 1 .. Len(s) - 4 + 1 : r[i] = s[4 + i - 1]
  BY <1>1, <1>2, SubSeqProperties
<1> HIDE DEF r
<1>4. DOMAIN r = 1 .. Len(r) /\ Listed(r)
  BY <1>3, LenProperties, ListedIn
<1>5. Len(r) = Len(s) - 3
  <2>1. CASE 4 <= Len(s)
    BY <2>1, <1>1, <1>3
  <2>2. CASE ~(4 <= Len(s))
    <3>1. Len(s) = 3 /\ Len(r) = 0
      BY <2>2, <1>1, <1>3
    <3> QED
      BY <3>1
  <2> QED
    BY <2>1, <2>2
<1>6. \A k \in 1 .. Len(s) - 3 : 4 + k - 1 = k + 3 /\ k \in 1 .. Len(s) - 4 + 1 /\ k + 3 \in 1 .. Len(s)
  BY <1>1
<1> QED
  BY <1>1, <1>3, <1>4, <1>5, <1>6 DEF r

Columns == {"status", "plan", "pending", "due", "ext", "overdue"}
SubSet(set) ==
  /\ "status" \in DOMAIN set => set["status"] \in {"PENDING", "ACTIVE", "PAST_DUE", "CANCELLED", "SUSPENDED"}
  /\ "plan" \in DOMAIN set => set["plan"] \in Plan
  /\ "pending" \in DOMAIN set => set["pending"] \in Plan \cup {None}
  /\ "due" \in DOMAIN set => set["due"] \in BOOLEAN
  /\ "ext" \in DOMAIN set => set["ext"] \in Nat
  /\ "overdue" \in DOMAIN set => set["overdue"] \in {"no", "recent", "late"}

LEMMA PutColumn ==
  ASSUME NEW row, NEW set, NEW column \in DOMAIN row
  PROVE  Put(row, set)[column] = IF column \in DOMAIN set THEN set[column] ELSE row[column]
  BY DEF Put

LEMMA PutSub ==
  ASSUME NEW row \in SubRow, NEW set, SubSet(set)
  PROVE  Put(row, set) \in SubRow
<1> DEFINE r == Put(row, set)
<1>0. DOMAIN row = Columns
  BY DEF SubRow, Columns
<1>1. DOMAIN r = Columns /\ r = [column \in DOMAIN r |-> r[column]]
  BY <1>0 DEF Put
<1>a. row["status"] \in {"PENDING", "ACTIVE", "PAST_DUE", "CANCELLED", "SUSPENDED"} /\ row["plan"] \in Plan
      /\ row["pending"] \in Plan \cup {None} /\ row["due"] \in BOOLEAN /\ row["ext"] \in Nat
      /\ row["overdue"] \in {"no", "recent", "late"}
  BY DEF SubRow
<1>b. "status" \in Columns /\ "plan" \in Columns /\ "pending" \in Columns /\ "due" \in Columns /\ "ext" \in Columns /\ "overdue" \in Columns
  BY DEF Columns
<1> HIDE DEF r
<1>2. r["status"] \in {"PENDING", "ACTIVE", "PAST_DUE", "CANCELLED", "SUSPENDED"}
  BY <1>0, <1>a, <1>b, PutColumn DEF SubSet, r
<1>3. r["plan"] \in Plan /\ r["pending"] \in Plan \cup {None}
  BY <1>0, <1>a, <1>b, PutColumn DEF SubSet, r
<1>4. r["due"] \in BOOLEAN
  BY <1>0, <1>a, <1>b, PutColumn DEF SubSet, r
<1>5. r["ext"] \in Nat
  BY <1>0, <1>a, <1>b, PutColumn DEF SubSet, r
<1>6. r["overdue"] \in {"no", "recent", "late"}
  BY <1>0, <1>a, <1>b, PutColumn DEF SubSet, r
<1>7. r \in [status : {"PENDING", "ACTIVE", "PAST_DUE", "CANCELLED", "SUSPENDED"}, plan : Plan,
           pending : Plan \cup {None}, due : BOOLEAN, ext : Nat, overdue : {"no", "recent", "late"}]
  BY <1>1, <1>2, <1>3, <1>4, <1>5, <1>6 DEF Columns
<1> QED
  BY <1>7 DEF r, SubRow

LEMMA PutTenant ==
  ASSUME NEW row \in TenantRow, NEW set,
         "status" \in DOMAIN set => set["status"] \in {"PENDING_PAYMENT", "ACTIVE", "BLOCKED", "SUSPENDED"},
         "plan" \in DOMAIN set => set["plan"] \in Plan
  PROVE  Put(row, set) \in TenantRow
<1> DEFINE r == Put(row, set)
<1>1. DOMAIN row = {"status", "plan"}
  BY DEF TenantRow
<1>2. DOMAIN r = {"status", "plan"} /\ r = [column \in DOMAIN r |-> r[column]]
  BY <1>1 DEF Put
<1>3. row["status"] \in {"PENDING_VERIFICATION", "PENDING_PAYMENT", "ACTIVE", "BLOCKED", "SUSPENDED"} /\ row["plan"] \in Plan
  BY DEF TenantRow
<1> HIDE DEF r
<1>4. r["status"] \in {"PENDING_VERIFICATION", "PENDING_PAYMENT", "ACTIVE", "BLOCKED", "SUSPENDED"}
  BY <1>1, <1>3, PutColumn DEF r
<1>5. r["plan"] \in Plan
  BY <1>1, <1>3, PutColumn DEF r
<1>6. r \in [status : {"PENDING_VERIFICATION", "PENDING_PAYMENT", "ACTIVE", "BLOCKED", "SUSPENDED"}, plan : Plan]
  BY <1>2, <1>4, <1>5
<1> QED
  BY <1>6 DEF r, TenantRow

LEMMA PutPurchase ==
  ASSUME NEW row \in PurchaseRow, NEW status \in {"PENDING", "PAID", "EXPIRED"}
  PROVE  /\ Put(row, [status |-> status]) \in PurchaseRow
         /\ Put(row, [status |-> status]).sub = row.sub
         /\ Put(row, [status |-> status]).status = status
<1> DEFINE set == [status |-> status]
           r == Put(row, set)
<1>1. DOMAIN row = {"status", "sub", "due"} /\ DOMAIN set = {"status"} /\ set["status"] = status
  BY DEF PurchaseRow
<1>2. DOMAIN r = {"status", "sub", "due"} /\ r = [column \in DOMAIN r |-> r[column]]
  BY <1>1 DEF Put
<1>3. row["sub"] \in Nat /\ row["due"] \in BOOLEAN
  BY DEF PurchaseRow
<1> HIDE DEF set
<1>4. r["status"] = status /\ r["sub"] = row["sub"] /\ r["due"] = row["due"]
  BY <1>1, PutColumn
<1> HIDE DEF r
<1>5. r \in [status : {"PENDING", "PAID", "EXPIRED"}, sub : Nat, due : BOOLEAN]
  BY <1>2, <1>3, <1>4
<1> QED
  BY <1>4, <1>5 DEF r, set, PurchaseRow

(* The writes of a subscription that keep its row typed.                   *)
SafeSet(set, g) ==
  /\ SubSet(set)
  /\ "pending" \in DOMAIN set => "due" \in DOMAIN set
  /\ "due" \in DOMAIN set => "pending" \in DOMAIN set /\ (set["due"] => set["pending"] # None)
  /\ "status" \in DOMAIN set /\ set["status"] = "PAST_DUE" => "overdue" \in DOMAIN set
  /\ "overdue" \in DOMAIN set => "status" \in DOMAIN set /\ (set["overdue"] = "no" => set["status"] = "ACTIVE")
  /\ "ext" \in DOMAIN set => set["ext"] \in 0 .. Len(g.subs)

LEMMA PutSafe ==
  ASSUME NEW g, NEW row \in SubRow, SubTyped(row, g), NEW set, SafeSet(set, g)
  PROVE  Put(row, set) \in SubRow /\ SubTyped(Put(row, set), g)
<1> DEFINE r == Put(row, set)
<1>1. r \in SubRow
  BY PutSub DEF SafeSet
<1>2. DOMAIN row = Columns
  BY DEF SubRow, Columns
<1>3. \A column \in Columns : r[column] = IF column \in DOMAIN set THEN set[column] ELSE row[column]
  BY <1>2, PutColumn
<1> HIDE DEF r
<1>4. r["due"] => r["pending"] # None
  BY <1>3 DEF Columns, SafeSet, SubTyped
<1>5. r["status"] = "PAST_DUE" => r["overdue"] # "no"
  BY <1>3 DEF Columns, SafeSet, SubTyped
<1>6. r["ext"] \in 0 .. Len(g.subs)
  BY <1>3 DEF Columns, SafeSet, SubTyped
<1> QED
  BY <1>1, <1>4, <1>5, <1>6 DEF r, SubTyped

LEMMA SeqPut ==
  ASSUME NEW S, NEW s \in Seq(S), NEW i \in DOMAIN s, NEW e \in S
  PROVE  LET r == [s EXCEPT ![i] = e]
         IN /\ r \in Seq(S) /\ DOMAIN r = DOMAIN s /\ Len(r) = Len(s)
            /\ r[i] = e /\ \A j \in DOMAIN s : j # i => r[j] = s[j]
<1>1. DOMAIN s = 1 .. Len(s) /\ Len(s) \in Nat
  BY LenProperties
<1>2. [s EXCEPT ![i] = e] \in Seq(S)
  BY <1>1, ExceptSeq
<1>3. Len([s EXCEPT ![i] = e]) = Len(s)
  BY <1>1, ExceptSeq
<1> QED
  BY <1>2, <1>3

LEMMA SeqAdd ==
  ASSUME NEW S, NEW s \in Seq(S), NEW e \in S
  PROVE  LET r == Append(s, e)
         IN /\ r \in Seq(S) /\ DOMAIN r = DOMAIN s \cup {Len(s) + 1} /\ Len(r) = Len(s) + 1
            /\ Len(s) + 1 \notin DOMAIN s /\ DOMAIN s = 1 .. Len(s) /\ Len(s) \in Nat
            /\ r[Len(s) + 1] = e /\ \A j \in DOMAIN s : r[j] = s[j]
<1>1. DOMAIN s = 1 .. Len(s) /\ Len(s) \in Nat
  BY LenProperties
<1>2. /\ Append(s, e) \in Seq(S) /\ Len(Append(s, e)) = Len(s) + 1
      /\ \A j \in 1 .. Len(s) : Append(s, e)[j] = s[j]
      /\ Append(s, e)[Len(s) + 1] = e
  BY AppendProperties
<1>3. DOMAIN Append(s, e) = 1 .. Len(s) + 1
  BY <1>2, LenProperties
<1> QED
  BY <1>1, <1>2, <1>3

----------------------------------------------------------------------------
(* What each write does to typed tables.                                   *)

LEMMA TypedLens ==
  ASSUME NEW d, NEW g, Typed(d, g)
  PROVE  /\ d.subs \in Seq(SubRow) /\ DOMAIN d.subs = 1 .. Len(d.subs) /\ Len(d.subs) \in Nat
         /\ d.tenant \in TenantRow /\ d.companies \in Seq(Int)
         /\ d.purchases \in Seq(PurchaseRow) /\ DOMAIN d.purchases = 1 .. Len(d.purchases) /\ Len(d.purchases) \in Nat
         /\ g.subs \in Seq(BOOLEAN) /\ DOMAIN g.subs = 1 .. Len(g.subs) /\ Len(g.subs) \in Nat
         /\ g.bills \in Seq(BillRow) /\ DOMAIN g.bills = 1 .. Len(g.bills) /\ Len(g.bills) \in Nat
         /\ g.post \subseteq [event : OfPayment \cup OfSubscription, of : Nat]
         /\ d = [subs |-> d.subs, tenant |-> d.tenant, companies |-> d.companies, purchases |-> d.purchases]
         /\ g = [subs |-> g.subs, bills |-> g.bills, post |-> g.post]
<1>1. /\ d.subs \in Seq(SubRow) /\ d.tenant \in TenantRow /\ d.companies \in Seq(Int)
      /\ d.purchases \in Seq(PurchaseRow) 
      /\ d = [subs |-> d.subs, tenant |-> d.tenant, companies |-> d.companies, purchases |-> d.purchases]
  BY DEF Typed, Tables
<1>2. /\ g.subs \in Seq(BOOLEAN) /\ g.bills \in Seq(BillRow)
      /\ g.post \subseteq [event : OfPayment \cup OfSubscription, of : Nat]
      /\ g = [subs |-> g.subs, bills |-> g.bills, post |-> g.post]
  BY DEF Typed, GatewayRows
<1>3. /\ DOMAIN d.subs = 1 .. Len(d.subs) /\ Len(d.subs) \in Nat
      /\ DOMAIN d.purchases = 1 .. Len(d.purchases) /\ Len(d.purchases) \in Nat
  BY <1>1, LenProperties
<1>4. /\ DOMAIN g.subs = 1 .. Len(g.subs) /\ Len(g.subs) \in Nat
      /\ DOMAIN g.bills = 1 .. Len(g.bills) /\ Len(g.bills) \in Nat
  BY <1>2, LenProperties
<1> QED
  BY <1>1, <1>2, <1>3, <1>4

LEMMA SubWritten ==
  ASSUME NEW d, NEW g, Typed(d, g), NEW i \in DOMAIN d.subs, NEW set, SafeSet(set, g)
  PROVE  Typed([d EXCEPT !.subs[i] = Put(@, set)], g)
<1> DEFINE row == Put(d.subs[i], set)
           subs == [d.subs EXCEPT ![i] = row]
           e == [d EXCEPT !.subs[i] = Put(@, set)]
<1>0. d = [subs |-> d.subs, tenant |-> d.tenant, companies |-> d.companies, purchases |-> d.purchases]
  BY TypedLens
<1>1. d.subs \in Seq(SubRow) /\ d.subs[i] \in SubRow /\ SubTyped(d.subs[i], g)
  BY TypedLens, ElementOfSeq DEF Typed
<1>2. row \in SubRow /\ SubTyped(row, g)
  BY <1>1, PutSafe
<1> HIDE DEF row
<1>3. /\ subs \in Seq(SubRow) /\ DOMAIN subs = DOMAIN d.subs
      /\ subs[i] = row /\ \A j \in DOMAIN d.subs : j # i => subs[j] = d.subs[j]
  BY <1>1, <1>2, SeqPut
<1>4. e = [subs |-> subs, tenant |-> d.tenant, companies |-> d.companies, purchases |-> d.purchases]
  BY ONLY <1>0 DEF row
<1> HIDE DEF subs, e
<1>5. e \in Tables
  BY <1>3, <1>4, TypedLens DEF Tables
<1>6. \A j \in DOMAIN e.subs : SubTyped(e.subs[j], g)
  BY <1>2, <1>3, <1>4 DEF Typed
<1> QED
  BY <1>3, <1>4, <1>5, <1>6 DEF Typed, BillTyped, e

LEMMA TenantWritten ==
  ASSUME NEW d, NEW g, Typed(d, g), NEW row \in TenantRow
  PROVE  Typed([d EXCEPT !.tenant = row], g)
<1> DEFINE e == [d EXCEPT !.tenant = row]
<1>0. d = [subs |-> d.subs, tenant |-> d.tenant, companies |-> d.companies, purchases |-> d.purchases]
  BY TypedLens
<1>1. e = [subs |-> d.subs, tenant |-> row, companies |-> d.companies, purchases |-> d.purchases]
  BY ONLY <1>0
<1> HIDE DEF e
<1>2. e \in Tables
  BY <1>1, TypedLens DEF Tables
<1> QED
  BY <1>1, <1>2 DEF Typed, BillTyped, e

LEMMA CompaniesWritten ==
  ASSUME NEW d, NEW g, Typed(d, g), NEW companies \in Seq(Int)
  PROVE  Typed([d EXCEPT !.companies = companies], g)
<1> DEFINE e == [d EXCEPT !.companies = companies]
<1>0. d = [subs |-> d.subs, tenant |-> d.tenant, companies |-> d.companies, purchases |-> d.purchases]
  BY TypedLens
<1>1. e = [subs |-> d.subs, tenant |-> d.tenant, companies |-> companies, purchases |-> d.purchases]
  BY ONLY <1>0
<1> HIDE DEF e
<1>2. e \in Tables
  BY <1>1, TypedLens DEF Tables
<1> QED
  BY <1>1, <1>2 DEF Typed, BillTyped, e

LEMMA PurchaseWritten ==
  ASSUME NEW d, NEW g, Typed(d, g), NEW p \in DOMAIN d.purchases,
         NEW row \in PurchaseRow, row.sub = d.purchases[p].sub
  PROVE  Typed([d EXCEPT !.purchases[p] = row], g)
<1> DEFINE purchases == [d.purchases EXCEPT ![p] = row]
           e == [d EXCEPT !.purchases[p] = row]
<1>0. d = [subs |-> d.subs, tenant |-> d.tenant, companies |-> d.companies, purchases |-> d.purchases]
  BY TypedLens
<1>1. /\ purchases \in Seq(PurchaseRow) /\ DOMAIN purchases = DOMAIN d.purchases
      /\ purchases[p] = row /\ \A q \in DOMAIN d.purchases : q # p => purchases[q] = d.purchases[q]
  BY TypedLens, SeqPut
<1>2. e = [subs |-> d.subs, tenant |-> d.tenant, companies |-> d.companies, purchases |-> purchases]
  BY ONLY <1>0
<1> HIDE DEF purchases, e
<1>3. e \in Tables
  BY <1>1, <1>2, TypedLens DEF Tables
<1>4. \A q \in DOMAIN e.purchases : e.purchases[q].sub \in DOMAIN e.subs
  BY <1>1, <1>2 DEF Typed
<1> QED
  BY <1>1, <1>2, <1>3, <1>4 DEF Typed, BillTyped, e

LEMMA SubAdded ==
  ASSUME NEW d, NEW g, Typed(d, g), NEW row \in SubRow, SubTyped(row, g)
  PROVE  Typed([d EXCEPT !.subs = Append(@, row)], g)
<1> DEFINE subs == Append(d.subs, row)
           e == [d EXCEPT !.subs = Append(@, row)]
<1>0. d = [subs |-> d.subs, tenant |-> d.tenant, companies |-> d.companies, purchases |-> d.purchases]
  BY TypedLens
<1>1. /\ subs \in Seq(SubRow) /\ DOMAIN subs = DOMAIN d.subs \cup {Len(d.subs) + 1}
      /\ subs[Len(d.subs) + 1] = row /\ \A j \in DOMAIN d.subs : subs[j] = d.subs[j]
  BY TypedLens, SeqAdd
<1>2. e = [subs |-> subs, tenant |-> d.tenant, companies |-> d.companies, purchases |-> d.purchases]
  BY ONLY <1>0
<1> HIDE DEF subs, e
<1>3. e \in Tables
  BY <1>1, <1>2, TypedLens DEF Tables
<1>4. \A j \in DOMAIN e.subs : SubTyped(e.subs[j], g)
  BY <1>1, <1>2 DEF Typed
<1> QED
  BY <1>1, <1>2, <1>3, <1>4 DEF Typed, BillTyped, e

LEMMA PurchaseAdded ==
  ASSUME NEW d, NEW g, Typed(d, g), NEW i \in DOMAIN d.subs
  PROVE  Typed([d EXCEPT !.purchases = Append(@, Purchase(i))], g)
<1> DEFINE row == Purchase(i)
           purchases == Append(d.purchases, row)
           e == [d EXCEPT !.purchases = Append(@, row)]
<1>0. d = [subs |-> d.subs, tenant |-> d.tenant, companies |-> d.companies, purchases |-> d.purchases]
  BY TypedLens
<1>1. row \in PurchaseRow /\ row.sub = i
  BY TypedLens DEF Purchase, PurchaseRow
<1> HIDE DEF row
<1>2. /\ purchases \in Seq(PurchaseRow) /\ DOMAIN purchases = DOMAIN d.purchases \cup {Len(d.purchases) + 1}
      /\ purchases[Len(d.purchases) + 1] = row /\ \A q \in DOMAIN d.purchases : purchases[q] = d.purchases[q]
  BY <1>1, TypedLens, SeqAdd
<1>3. e = [subs |-> d.subs, tenant |-> d.tenant, companies |-> d.companies, purchases |-> purchases]
  BY ONLY <1>0
<1> HIDE DEF purchases
<1>4. e \in Tables
  BY <1>2, <1>3, TypedLens DEF Tables
<1>5. \A q \in DOMAIN e.purchases : e.purchases[q].sub \in DOMAIN e.subs
  BY <1>1, <1>2, <1>3 DEF Typed
<1>6. Typed(e, g)
  BY <1>2, <1>3, <1>4, <1>5 DEF Typed, BillTyped
<1> QED
  BY <1>6 DEF row

(* And to the gateway.                                                     *)
LEMMA GatewayChanged ==
  ASSUME NEW d, NEW g, NEW h, Typed(d, g),
         h \in GatewayRows, Len(g.subs) <= Len(h.subs), DOMAIN g.bills \subseteq DOMAIN h.bills,
         \A b \in DOMAIN h.bills : BillTyped(h.bills[b], d, h),
         \A m \in h.post : MessageTyped(m, h)
  PROVE  Typed(d, h)
<1>1. Len(h.subs) \in Nat
  BY LenProperties DEF GatewayRows
<1>2. \A i \in DOMAIN d.subs : SubTyped(d.subs[i], h)
  BY <1>1, TypedLens DEF Typed, SubTyped
<1> QED
  BY <1>2 DEF Typed

----------------------------------------------------------------------------
(* A handler in flight is as far in the list of its writes as the length   *)
(* of its todo says: w is the write of op, about the row on, that e others *)
(* follow, of which the last is z.                                         *)

Upgrading == {"upgrade", "upgradePaid"}
Floorer == "expireAddOnPurchases"
Applier == "applyPendingDowngrades"
Is(w, kind) == w.kind = kind
Found(w) == Is(w, "below") \/ Is(w, "limit")
Sub(w, set) == Is(w, "sub") /\ w.set = set
SubOf(w, on, set) == Is(w, "sub") /\ w.i = on /\ w.set = set
Tenant(w, set) == Is(w, "tenant") /\ w.set = set

AtSubscribe(w, e) ==
  \/ e = 2 /\ Is(w, "createExt")
  \/ e = 1 /\ Is(w, "newSub") /\ \E plan \in Plan : w.row = Subscription("PENDING", plan, None)
  \/ e = 0 /\ Tenant(w, [status |-> "PENDING_PAYMENT"])

(* An upgrade is charged, or applied.                                      *)
Pends(on, w) == \E plan \in Plan : SubOf(w, on, [pending |-> plan, due |-> TRUE])
AtUpgrade(on, w, e, z) ==
  \/ /\ Is(z, "charge")
     /\ \/ e = 1 /\ Pends(on, w)
        \/ e = 0 /\ Is(w, "charge") /\ \E plan \in Plan : w.bill = Bill("upgrade", on, plan)
  \/ /\ Is(z, "limit") /\ z.to \in Plan
     /\ \/ e \in {6, 7} /\ Pends(on, w)
        \/ e = 6 /\ Is(w, "cancelExt")
        \/ e = 5 /\ SubOf(w, on, [status |-> "CANCELLED", pending |-> None, due |-> FALSE])
        \/ e = 4 /\ Is(w, "newSub") /\ \E plan \in Plan : w.row = Subscription("ACTIVE", plan, None)
        \/ e = 3 /\ Is(w, "createExt")
        \/ e = 2 /\ Is(w, "link")
        \/ e = 1 /\ Tenant(w, [plan |-> z.to])
        \/ e = 0 /\ w = z

AtDowngrade(on, w, e) == e = 0 /\ \E plan \in Plan : SubOf(w, on, [pending |-> plan, due |-> FALSE])
AtCancelDowngrade(on, w, e) == e = 0 /\ SubOf(w, on, [pending |-> None, due |-> FALSE])

AtBuyAddOn(on, w, e, z) ==
  \/ /\ Is(z, "charge")
     /\ \/ e = 1 /\ Is(w, "newPurchase") /\ w.row = Purchase(on)
        \/ e = 0 /\ Is(w, "charge") /\ w.bill = Bill("addon", None, None)
  \/ /\ Is(z, "credit")
     /\ \/ e = 2 /\ Is(w, "newPurchase") /\ w.row = Purchase(on)
        \/ e = 1 /\ Is(w, "purchase") /\ w.i = None /\ w.set = [status |-> "PAID"]
        \/ e = 0 /\ Is(w, "credit") /\ w.by = AddOn

AtAddOnPaid(on, w, e) ==
  \/ e = 1 /\ Is(w, "purchase") /\ w.i = on /\ on # None /\ w.set = [status |-> "PAID"]
  \/ e = 0 /\ Is(w, "credit") /\ w.by = AddOn

(* A payment of a month activates the tenant, moves its plan, or both.     *)
Moving(z) == "plan" \in DOMAIN z.set
Renews(z) ==
  \/ Sub(z, [status |-> "ACTIVE", overdue |-> "no"])
  \/ \E plan \in Plan : Sub(z, [status |-> "ACTIVE", overdue |-> "no", plan |-> plan, pending |-> None, due |-> FALSE])
AtCyclePaid(on, w, e, z) ==
  /\ Is(z, "sub") /\ Renews(z) /\ z.i = on
  /\ \/ e = 0 /\ w = z
     \/ e = 1 /\ Moving(z) /\ Is(w, "limit") /\ w.to = z.set.plan
     \/ e = 2 /\ Moving(z) /\ Tenant(w, [plan |-> z.set.plan])
     \/ LET f == IF Moving(z) THEN e - 2 ELSE e
        IN \/ f = 1 /\ Is(w, "onboard")
           \/ f = 1 /\ Is(w, "newCompany") /\ w.limit \in Plan
           \/ f = 2 /\ Tenant(w, [status |-> "ACTIVE"])
           \/ f = 3 /\ Is(w, "activate")

AtCycleOverdue(on, w, e) ==
  e = 0 /\ \E since \in {"recent", "late"} : SubOf(w, on, [status |-> "PAST_DUE", overdue |-> since])

AtExtCreated(w, e) == e = 0 /\ Is(w, "sub") /\ w.set = [ext |-> w.set.ext]

AtExtDeleted(on, w, e) ==
  \/ e = 1 /\ SubOf(w, on, [status |-> "CANCELLED"])
  \/ e = 0 /\ Is(w, "suspendAlone") /\ w.i = on
  \/ e = 0 /\ Tenant(w, [status |-> "SUSPENDED"])

AtCheckOverdue(w, e) ==
  \/ e % 2 = 1 /\ Tenant(w, [status |-> "BLOCKED"])
  \/ e % 2 = 0 /\ Sub(w, [status |-> "SUSPENDED"])

AtApplyPending(w, e) ==
  \/ e % 4 = 3 /\ \E plan \in Plan : Sub(w, [plan |-> plan, pending |-> None, due |-> FALSE])
  \/ e % 4 \in {1, 2} /\ \E plan \in Plan : Tenant(w, [plan |-> plan])
  \/ e % 4 = 0 /\ Is(w, "limit") /\ w.to \in Plan

AtExpireAddOns(w, e) ==
  \/ e % 3 = 2 /\ Is(w, "credit") /\ w.by = -AddOn
  \/ e % 3 = 1 /\ Is(w, "floor")
  \/ e % 3 = 1 /\ Found(w) /\ w.to \in Plan
  \/ e % 3 = 0 /\ Is(w, "purchase") /\ w.i # None /\ w.set = [status |-> "EXPIRED"]

At(op, on, w, e, z) ==
  \/ op = "subscribe" /\ AtSubscribe(w, e)
  \/ op \in Upgrading /\ AtUpgrade(on, w, e, z)
  \/ op = "downgrade" /\ AtDowngrade(on, w, e)
  \/ op = "cancelDowngrade" /\ AtCancelDowngrade(on, w, e)
  \/ op = "buyAddOn" /\ AtBuyAddOn(on, w, e, z)
  \/ op = "addOnPaid" /\ AtAddOnPaid(on, w, e)
  \/ op = "cyclePaid" /\ AtCyclePaid(on, w, e, z)
  \/ op = "cycleOverdue" /\ AtCycleOverdue(on, w, e)
  \/ op = "extCreated" /\ AtExtCreated(w, e)
  \/ op = "extDeleted" /\ AtExtDeleted(on, w, e)
  \/ op = "checkOverdueSubscriptions" /\ AtCheckOverdue(w, e)
  \/ op = Applier /\ AtApplyPending(w, e)
  \/ op = Floorer /\ AtExpireAddOns(w, e)

(* The rows that a write w names exist in the tables d or at the gateway g. *)
Named(w, d, g) ==
  /\ Is(w, "sub") => w.i \in DOMAIN d.subs /\ ("ext" \in DOMAIN w.set => w.set.ext \in DOMAIN g.subs)
  /\ Is(w, "newPurchase") => w.row.sub \in DOMAIN d.subs
  /\ Is(w, "purchase") /\ w.i # None => w.i \in DOMAIN d.purchases
  /\ Is(w, "cancelExt") => w.ext \in DOMAIN g.subs
  /\ Is(w, "charge") /\ w.bill.for = "upgrade" => w.bill.of \in DOMAIN d.subs
  /\ Is(w, "suspendAlone") => w.i \in DOMAIN d.subs

(* A handler in flight; its writes are those of its operation, in order:   *)
(* a plan of the tenant is followed by its limit, and the job that expires *)
(* add-ons has a limit to compare, or to set, only as its next write, when *)
(* it has just read which.                                                 *)
IsTask(r) ==
  /\ r = [op |-> r.op, todo |-> r.todo, row |-> r.row, ext |-> r.ext, on |-> r.on, stale |-> r.stale]
  /\ Listed(r.todo) /\ r.row \in Nat /\ r.ext \in Nat /\ r.stale \in BOOLEAN
  /\ r.todo = <<>> => r = Idle
  /\ \A k \in DOMAIN r.todo : At(r.op, r.on, r.todo[k], Len(r.todo) - k, r.todo[Len(r.todo)])
  /\ r.op = Applier => \A k \in DOMAIN r.todo : Is(r.todo[k], "tenant") =>
       \/ Tenant(r.todo[k + 1], r.todo[k].set)
       \/ Is(r.todo[k + 1], "limit") /\ r.todo[k + 1].to = r.todo[k].set.plan
  /\ r.op = Floorer => \A k \in DOMAIN r.todo : Found(r.todo[k]) => k = 1

(* The handler r in slot t fits the tables: it is a job in its slot, and   *)
(* the rows it names, and those it has created, exist.                     *)
Fits(t, r, d, g) ==
  /\ IsTask(r)
  /\ r # Idle => IF t \in Cron THEN r.op = t ELSE r.op \notin Cron
  /\ \A k \in DOMAIN r.todo : Named(r.todo[k], d, g)
  /\ r.ext \in 0 .. Len(g.subs)
  /\ r.op = "buyAddOn" => Is(r.todo[1], "newPurchase") \/ r.row \in DOMAIN d.purchases
  /\ r.op \in Upgrading /\ Len(r.todo) \in {3, 4} /\ Is(r.todo[Len(r.todo)], "limit") => r.row \in DOMAIN d.subs

LEMMA RenewsIs ==
  ASSUME NEW z, Renews(z)
  PROVE  /\ Is(z, "sub") /\ z.set["status"] = "ACTIVE" /\ z.set["overdue"] = "no"
         /\ ~Moving(z) => DOMAIN z.set = {"status", "overdue"}
         /\ Moving(z) => /\ DOMAIN z.set = {"status", "overdue", "plan", "pending", "due"}
                         /\ z.set["plan"] \in Plan /\ z.set["pending"] = None /\ z.set["due"] = FALSE
<1>1. CASE Sub(z, [status |-> "ACTIVE", overdue |-> "no"])
  BY <1>1 DEF Sub, Is, Moving
<1>2. CASE \E plan \in Plan : Sub(z, [status |-> "ACTIVE", overdue |-> "no", plan |-> plan, pending |-> None, due |-> FALSE])
  <2>1. PICK plan \in Plan : Sub(z, [status |-> "ACTIVE", overdue |-> "no", plan |-> plan, pending |-> None, due |-> FALSE])
    BY <1>2
  <2> QED
    BY <2>1 DEF Sub, Is, Moving
<1> QED
  BY <1>1, <1>2 DEF Renews

LEMMA AtTenant ==
  ASSUME NEW op, NEW on, NEW w, NEW e \in Nat, NEW z, At(op, on, w, e, z), Is(w, "tenant")
  PROVE  /\ "status" \in DOMAIN w.set => w.set["status"] \in {"PENDING_PAYMENT", "ACTIVE", "BLOCKED", "SUSPENDED"}
         /\ "plan" \in DOMAIN w.set => w.set["plan"] \in Plan
         /\ DOMAIN w.set = {"status"} \/ DOMAIN w.set = {"plan"}
<1>1. CASE \E status \in {"PENDING_PAYMENT", "ACTIVE", "BLOCKED", "SUSPENDED"} : w.set = [status |-> status]
  BY <1>1
<1>2. CASE \E plan \in Plan : w.set = [plan |-> plan]
  BY <1>2
<1>3. CASE op = "cyclePaid"
  <2>1. AtCyclePaid(on, w, e, z)
    BY <1>3 DEF At, Upgrading, Applier, Floorer
  <2>2. Is(z, "sub") /\ (Moving(z) => z.set["plan"] \in Plan)
    BY <2>1, RenewsIs DEF AtCyclePaid
  <2>3. w.set = [status |-> "ACTIVE"] \/ (Moving(z) /\ w.set = [plan |-> z.set["plan"]])
    BY <2>1, <2>2 DEF AtCyclePaid, Is, Tenant
  <2> QED
    BY <2>2, <2>3, <1>1, <1>2
<1>4. CASE op # "cyclePaid"
  <2>1. \/ \E status \in {"PENDING_PAYMENT", "BLOCKED", "SUSPENDED"} : w.set = [status |-> status]
        \/ \E plan \in Plan : w.set = [plan |-> plan]
    BY <1>4 DEF At, AtSubscribe, AtUpgrade, Pends, AtDowngrade, AtCancelDowngrade, AtBuyAddOn, AtAddOnPaid, AtCyclePaid, Moving, Renews,
         AtCycleOverdue, AtExtCreated, AtExtDeleted, AtCheckOverdue, AtApplyPending, AtExpireAddOns, Found, Is, Sub, SubOf, Tenant
  <2> QED
    BY <2>1, <1>1, <1>2
<1> QED
  BY <1>3, <1>4

LEMMA AtPurchase ==
  ASSUME NEW op, NEW on, NEW w, NEW e \in Nat, NEW z, At(op, on, w, e, z), Is(w, "purchase")
  PROVE  /\ w.set \in {[status |-> "PAID"], [status |-> "EXPIRED"]}
         /\ w.i = None => op = "buyAddOn"
  BY DEF At, AtSubscribe, AtUpgrade, Pends, AtDowngrade, AtCancelDowngrade, AtBuyAddOn, AtAddOnPaid, AtCyclePaid, Moving, Renews,
         AtCycleOverdue, AtExtCreated, AtExtDeleted, AtCheckOverdue, AtApplyPending, AtExpireAddOns, Found, Is, Sub, SubOf, Tenant

LEMMA AtSub ==
  ASSUME NEW op, NEW on, NEW w, NEW e \in Nat, NEW z, At(op, on, w, e, z), Is(w, "sub"),
         NEW d, NEW g, Len(g.subs) \in Nat, DOMAIN g.subs = 1 .. Len(g.subs), Named(w, d, g)
  PROVE  SafeSet(w.set, g)
<1>1. CASE Renews(w)
  <2>1. w.set["status"] = "ACTIVE" /\ w.set["overdue"] = "no"
    BY <1>1, RenewsIs
  <2>2. CASE Moving(w)
    <3>1. /\ DOMAIN w.set = {"status", "overdue", "plan", "pending", "due"}
          /\ w.set["plan"] \in Plan /\ w.set["pending"] = None /\ w.set["due"] = FALSE
      BY <1>1, <2>2, RenewsIs
    <3> QED
      BY <2>1, <3>1 DEF SafeSet, SubSet
  <2>3. CASE ~Moving(w)
    <3>1. DOMAIN w.set = {"status", "overdue"}
      BY <1>1, <2>3, RenewsIs
    <3> QED
      BY <2>1, <3>1 DEF SafeSet, SubSet
  <2> QED
    BY <2>2, <2>3
<1>2. CASE \E plan \in Plan, due \in BOOLEAN : w.set = [pending |-> plan, due |-> due]
  <2>1. PICK plan \in Plan, due \in BOOLEAN : w.set = [pending |-> plan, due |-> due]
    BY <1>2
  <2> QED
    BY <2>1, PlanAssumption DEF SafeSet, SubSet, None
<1>3. CASE w.set = [status |-> "CANCELLED", pending |-> None, due |-> FALSE]
  BY <1>3 DEF SafeSet, SubSet
<1>8. CASE w.set = [pending |-> None, due |-> FALSE]
  BY <1>8 DEF SafeSet, SubSet
<1>4. CASE \E since \in {"recent", "late"} : w.set = [status |-> "PAST_DUE", overdue |-> since]
  <2>1. PICK since \in {"recent", "late"} : w.set = [status |-> "PAST_DUE", overdue |-> since]
    BY <1>4
  <2> QED
    BY <2>1 DEF SafeSet, SubSet
<1>5. CASE w.set = [ext |-> w.set.ext]
  <2> DEFINE x == w.set.ext
  <2>1. DOMAIN w.set = {"ext"} /\ w.set["ext"] = x
    BY <1>5
  <2>2. x \in 1 .. Len(g.subs)
    BY <2>1 DEF Named
  <2> QED
    BY <2>1, <2>2 DEF SafeSet, SubSet
<1>6. CASE w.set = [status |-> "CANCELLED"] \/ w.set = [status |-> "SUSPENDED"]
  BY <1>6 DEF SafeSet, SubSet
<1>7. CASE \E plan \in Plan : w.set = [plan |-> plan, pending |-> None, due |-> FALSE]
  <2>1. PICK plan \in Plan : w.set = [plan |-> plan, pending |-> None, due |-> FALSE]
    BY <1>7
  <2> QED
    BY <2>1 DEF SafeSet, SubSet, None
<1> QED
  <2>1. CASE op = "cyclePaid"
    <3>1. AtCyclePaid(on, w, e, z)
      BY <2>1 DEF At, Upgrading, Applier, Floorer
    <3>2. w = z /\ Renews(z)
      BY <3>1 DEF AtCyclePaid, Is, Tenant
    <3> QED
      BY <3>2, <1>1
  <2>2. CASE op # "cyclePaid"
    <3>1. \/ \E plan \in Plan, due \in BOOLEAN : w.set = [pending |-> plan, due |-> due]
          \/ w.set = [status |-> "CANCELLED", pending |-> None, due |-> FALSE] \/ w.set = [pending |-> None, due |-> FALSE]
          \/ \E since \in {"recent", "late"} : w.set = [status |-> "PAST_DUE", overdue |-> since]
          \/ w.set = [ext |-> w.set.ext]
          \/ w.set = [status |-> "CANCELLED"] \/ w.set = [status |-> "SUSPENDED"]
          \/ \E plan \in Plan : w.set = [plan |-> plan, pending |-> None, due |-> FALSE]
      BY <2>2 DEF At, AtSubscribe, AtUpgrade, Pends, AtDowngrade, AtCancelDowngrade, AtBuyAddOn, AtAddOnPaid, AtCyclePaid, Moving, Renews,
         AtCycleOverdue, AtExtCreated, AtExtDeleted, AtCheckOverdue, AtApplyPending, AtExpireAddOns, Found, Is, Sub, SubOf, Tenant
    <3> QED
      BY <3>1, <1>2, <1>3, <1>4, <1>5, <1>6, <1>7, <1>8
  <2> QED
    BY <2>1, <2>2

LEMMA AtNewSub ==
  ASSUME NEW op, NEW on, NEW w, NEW e \in Nat, NEW z, At(op, on, w, e, z), Is(w, "newSub")
  PROVE  /\ (op = "subscribe" /\ e = 1) \/ (op \in Upgrading /\ e = 4 /\ Is(z, "limit"))
         /\ \E status \in {"PENDING", "ACTIVE"}, plan \in Plan : w.row = Subscription(status, plan, None)
  BY DEF At, AtSubscribe, AtUpgrade, Pends, AtDowngrade, AtCancelDowngrade, AtBuyAddOn, AtAddOnPaid, AtCyclePaid,
         AtCycleOverdue, AtExtCreated, AtExtDeleted, AtCheckOverdue, AtApplyPending, AtExpireAddOns, Found, Is, Sub, SubOf, Tenant

LEMMA AtNewPurchase ==
  ASSUME NEW op, NEW on, NEW w, NEW e \in Nat, NEW z, At(op, on, w, e, z), Is(w, "newPurchase")
  PROVE  op = "buyAddOn" /\ w.row = Purchase(on) /\ e >= 1
  BY DEF At, AtSubscribe, AtUpgrade, Pends, AtDowngrade, AtCancelDowngrade, AtBuyAddOn, AtAddOnPaid, AtCyclePaid,
         AtCycleOverdue, AtExtCreated, AtExtDeleted, AtCheckOverdue, AtApplyPending, AtExpireAddOns, Found, Is, Sub, SubOf, Tenant

LEMMA AtLink ==
  ASSUME NEW op, NEW on, NEW w, NEW e \in Nat, NEW z, At(op, on, w, e, z), Is(w, "link")
  PROVE  op \in Upgrading /\ e = 2 /\ Is(z, "limit")
  BY DEF At, AtSubscribe, AtUpgrade, Pends, AtDowngrade, AtCancelDowngrade, AtBuyAddOn, AtAddOnPaid, AtCyclePaid,
         AtCycleOverdue, AtExtCreated, AtExtDeleted, AtCheckOverdue, AtApplyPending, AtExpireAddOns, Found, Is, Sub, SubOf, Tenant

LEMMA AtLimit ==
  ASSUME NEW op, NEW on, NEW w, NEW e \in Nat, NEW z, At(op, on, w, e, z), Is(w, "limit")
  PROVE  w.to \in Plan
<1>1. CASE op = "cyclePaid"
  <2>1. AtCyclePaid(on, w, e, z)
    BY <1>1 DEF At, Upgrading, Applier, Floorer
  <2>2. Is(z, "sub") /\ (Moving(z) => z.set["plan"] \in Plan)
    BY <2>1, RenewsIs DEF AtCyclePaid
  <2> QED
    BY <2>1, <2>2 DEF AtCyclePaid, Is, Tenant
<1>2. CASE op # "cyclePaid"
  BY <1>2 DEF At, AtSubscribe, AtUpgrade, Pends, AtDowngrade, AtCancelDowngrade, AtBuyAddOn, AtAddOnPaid, AtCyclePaid,
         AtCycleOverdue, AtExtCreated, AtExtDeleted, AtCheckOverdue, AtApplyPending, AtExpireAddOns, Found, Is, Sub, SubOf, Tenant
<1> QED
  BY <1>1, <1>2

LEMMA AtCredit ==
  ASSUME NEW op, NEW on, NEW w, NEW e \in Nat, NEW z, At(op, on, w, e, z), Is(w, "credit")
  PROVE  \/ w.by = AddOn /\ op \in {"addOnPaid", "buyAddOn"}
         \/ w.by = -AddOn /\ op = Floorer
  BY DEF At, AtSubscribe, AtUpgrade, Pends, AtDowngrade, AtCancelDowngrade, AtBuyAddOn, AtAddOnPaid, AtCyclePaid,
         AtCycleOverdue, AtExtCreated, AtExtDeleted, AtCheckOverdue, AtApplyPending, AtExpireAddOns, Found, Is, Sub, SubOf, Tenant

LEMMA AtFloor ==
  ASSUME NEW op, NEW on, NEW w, NEW e \in Nat, NEW z, At(op, on, w, e, z), Is(w, "floor")
  PROVE  op = Floorer /\ e >= 1
  BY DEF At, AtSubscribe, AtUpgrade, Pends, AtDowngrade, AtCancelDowngrade, AtBuyAddOn, AtAddOnPaid, AtCyclePaid,
         AtCycleOverdue, AtExtCreated, AtExtDeleted, AtCheckOverdue, AtApplyPending, AtExpireAddOns, Found, Is, Sub, SubOf, Tenant

LEMMA AtBelow ==
  ASSUME NEW op, NEW on, NEW w, NEW e \in Nat, NEW z, At(op, on, w, e, z), Is(w, "below")
  PROVE  op = Floorer /\ e >= 1 /\ w.to \in Plan
  BY DEF At, AtSubscribe, AtUpgrade, Pends, AtDowngrade, AtCancelDowngrade, AtBuyAddOn, AtAddOnPaid, AtCyclePaid,
         AtCycleOverdue, AtExtCreated, AtExtDeleted, AtCheckOverdue, AtApplyPending, AtExpireAddOns, Found, Is, Sub, SubOf, Tenant

LEMMA AtActivate ==
  ASSUME NEW op, NEW on, NEW w, NEW e \in Nat, NEW z, At(op, on, w, e, z), Is(w, "activate")
  PROVE  op = "cyclePaid" /\ e >= 3
  BY DEF At, AtSubscribe, AtUpgrade, Pends, AtDowngrade, AtCancelDowngrade, AtBuyAddOn, AtAddOnPaid, AtCyclePaid,
         AtCycleOverdue, AtExtCreated, AtExtDeleted, AtCheckOverdue, AtApplyPending, AtExpireAddOns, Found, Is, Sub, SubOf, Tenant

LEMMA AtOnboard ==
  ASSUME NEW op, NEW on, NEW w, NEW e \in Nat, NEW z, At(op, on, w, e, z), Is(w, "onboard")
  PROVE  op = "cyclePaid" /\ e >= 1
  BY DEF At, AtSubscribe, AtUpgrade, Pends, AtDowngrade, AtCancelDowngrade, AtBuyAddOn, AtAddOnPaid, AtCyclePaid,
         AtCycleOverdue, AtExtCreated, AtExtDeleted, AtCheckOverdue, AtApplyPending, AtExpireAddOns, Found, Is, Sub, SubOf, Tenant

LEMMA AtNewCompany ==
  ASSUME NEW op, NEW on, NEW w, NEW e \in Nat, NEW z, At(op, on, w, e, z), Is(w, "newCompany")
  PROVE  op = "cyclePaid" /\ e >= 1 /\ w.limit \in Plan
  BY DEF At, AtSubscribe, AtUpgrade, Pends, AtDowngrade, AtCancelDowngrade, AtBuyAddOn, AtAddOnPaid, AtCyclePaid,
         AtCycleOverdue, AtExtCreated, AtExtDeleted, AtCheckOverdue, AtApplyPending, AtExpireAddOns, Found, Is, Sub, SubOf, Tenant

LEMMA AtSuspend ==
  ASSUME NEW op, NEW on, NEW w, NEW e \in Nat, NEW z, At(op, on, w, e, z), Is(w, "suspendAlone")
  PROVE  op = "extDeleted" /\ e = 0 /\ w.i = on
  BY DEF At, AtSubscribe, AtUpgrade, Pends, AtDowngrade, AtCancelDowngrade, AtBuyAddOn, AtAddOnPaid, AtCyclePaid,
         AtCycleOverdue, AtExtCreated, AtExtDeleted, AtCheckOverdue, AtApplyPending, AtExpireAddOns, Found, Is, Sub, SubOf, Tenant

LEMMA AtCreateExt ==
  ASSUME NEW op, NEW on, NEW w, NEW e \in Nat, NEW z, At(op, on, w, e, z), Is(w, "createExt")
  PROVE  \/ op = "subscribe" /\ e = 2
         \/ op \in Upgrading /\ e = 3
  BY DEF At, AtSubscribe, AtUpgrade, Pends, AtDowngrade, AtCancelDowngrade, AtBuyAddOn, AtAddOnPaid, AtCyclePaid,
         AtCycleOverdue, AtExtCreated, AtExtDeleted, AtCheckOverdue, AtApplyPending, AtExpireAddOns, Found, Is, Sub, SubOf, Tenant

LEMMA AtCancelExt ==
  ASSUME NEW op, NEW on, NEW w, NEW e \in Nat, NEW z, At(op, on, w, e, z), Is(w, "cancelExt")
  PROVE  op \in Upgrading /\ e = 6
  BY DEF At, AtSubscribe, AtUpgrade, Pends, AtDowngrade, AtCancelDowngrade, AtBuyAddOn, AtAddOnPaid, AtCyclePaid,
         AtCycleOverdue, AtExtCreated, AtExtDeleted, AtCheckOverdue, AtApplyPending, AtExpireAddOns, Found, Is, Sub, SubOf, Tenant

LEMMA AtCharge ==
  ASSUME NEW op, NEW on, NEW w, NEW e \in Nat, NEW z, At(op, on, w, e, z), Is(w, "charge")
  PROVE  \/ op \in Upgrading /\ \E plan \in Plan : w.bill = Bill("upgrade", on, plan)
         \/ op = "buyAddOn" /\ w.bill = Bill("addon", None, None)
  BY DEF At, AtSubscribe, AtUpgrade, Pends, AtDowngrade, AtCancelDowngrade, AtBuyAddOn, AtAddOnPaid, AtCyclePaid,
         AtCycleOverdue, AtExtCreated, AtExtDeleted, AtCheckOverdue, AtApplyPending, AtExpireAddOns, Found, Is, Sub, SubOf, Tenant

----------------------------------------------------------------------------
(* How a handler goes on.                                                  *)

LEMMA AtLater ==
  ASSUME NEW on, NEW w, NEW e \in Nat, NEW z, At(Applier, on, w, e, z), Is(w, "tenant")
  PROVE  e >= 1
  BY DEF At, AtApplyPending, Applier, Floorer, Upgrading, Is, Sub

LEMMA IdleTask == IsTask(Idle) /\ Idle.todo = <<>> /\ Idle.op = "idle" /\ Idle.row = None /\ Idle.ext = None
<1>1. Listed(<<>>) /\ DOMAIN <<>> = {}
  BY DEF Listed
<1> QED
  BY <1>1 DEF IsTask, Idle, None

LEMMA TaskLists ==
  ASSUME NEW r, IsTask(r)
  PROVE  Listed(r.todo) /\ Len(r.todo) \in Nat /\ DOMAIN r.todo = 1 .. Len(r.todo)
  BY ListedLen DEF IsTask

LEMMA TaskSuffix ==
  ASSUME NEW r, IsTask(r), NEW k, Listed(k), k # <<>>, NEW n \in Nat, Len(k) = Len(r.todo) - n,
         \A j \in DOMAIN k : k[j] = r.todo[j + n] /\ j + n \in DOMAIN r.todo
  PROVE  IsTask([r EXCEPT !.todo = k])
<1> DEFINE s == r.todo
           q == [r EXCEPT !.todo = k]
<1>1. q = [op |-> r.op, todo |-> k, row |-> r.row, ext |-> r.ext, on |-> r.on, stale |-> r.stale]
  BY DEF IsTask
<1> HIDE DEF q
<1>2. Listed(k) /\ Len(k) \in Nat /\ DOMAIN k = 1 .. Len(k) /\ Len(s) \in Nat /\ DOMAIN s = 1 .. Len(s) /\ Len(k) >= 1
  <2>1. Len(k) # 0
    BY EmptySeq DEF Listed
  <2> QED
    BY <2>1, ListedLen, TaskLists
<1>3. k[Len(k)] = s[Len(s)]
  <2>1. Len(k) \in DOMAIN k /\ Len(k) + n = Len(s)
    BY <1>2
  <2> QED
    BY <2>1
<1>4. ASSUME NEW j \in DOMAIN k PROVE At(r.op, r.on, k[j], Len(k) - j, k[Len(k)])
  <2>1. Len(k) - j = Len(s) - (j + n)
    BY <1>2
  <2>2. At(r.op, r.on, s[j + n], Len(s) - (j + n), s[Len(s)])
    BY DEF IsTask
  <2> QED
    BY <2>1, <2>2, <1>3
<1>5. ASSUME r.op = Applier, NEW j \in DOMAIN k, Is(k[j], "tenant")
      PROVE  \/ Tenant(k[j + 1], k[j].set)
             \/ Is(k[j + 1], "limit") /\ k[j + 1].to = k[j].set.plan
  <2>1. Len(k) - j \in Nat
    BY <1>2
  <2>2. Len(k) - j >= 1
    BY <1>4, <1>5, <2>1, AtLater
  <2>3. j + 1 \in DOMAIN k /\ (j + 1) + n = (j + n) + 1
    BY <2>2, <1>2
  <2>4. k[j + 1] = s[(j + n) + 1] /\ k[j] = s[j + n] /\ j + n \in DOMAIN s
    BY <2>3
  <2>5. Is(s[j + n], "tenant")
    BY <2>4, <1>5
  <2>6. \/ Tenant(s[(j + n) + 1], s[j + n].set)
        \/ Is(s[(j + n) + 1], "limit") /\ s[(j + n) + 1].to = s[j + n].set.plan
    BY <2>4, <2>5, <1>5 DEF IsTask
  <2> QED
    BY <2>4, <2>6
<1>6. ASSUME r.op = Floorer, NEW j \in DOMAIN k, Found(k[j]) PROVE j = 1
  <2>1. j + n = 1
    BY <1>6 DEF IsTask
  <2> QED
    BY <2>1, <1>2
<1>7. IsTask(q)
  BY <1>1, <1>2, <1>4, <1>5, <1>6 DEF IsTask
<1> QED
  BY <1>7 DEF q

LEMMA TaskReplace ==
  ASSUME NEW r, IsTask(r), r.todo # <<>>, r.op # Applier, NEW x,
         At(r.op, r.on, x, Len(r.todo) - 1, IF Len(r.todo) = 1 THEN x ELSE r.todo[Len(r.todo)])
  PROVE  LET k == <<x>> \o Tail(r.todo)
         IN IsTask([r EXCEPT !.todo = k]) /\ k # <<>>
<1> DEFINE s == r.todo
           k == <<x>> \o Tail(s)
           q == [r EXCEPT !.todo = k]
<1>2. Listed(k) /\ DOMAIN k = DOMAIN s /\ Len(k) = Len(s) /\ k[1] = x /\ \A j \in DOMAIN s : j # 1 => k[j] = s[j]
  BY TaskLists, ListedReplace
<1>0. Len(s) \in Nat /\ DOMAIN s = 1 .. Len(s) /\ Len(s) >= 1
  BY TaskLists, ListedTail
<1> HIDE DEF k
<1>1. q = [op |-> r.op, todo |-> k, row |-> r.row, ext |-> r.ext, on |-> r.on, stale |-> r.stale]
  BY DEF IsTask
<1> HIDE DEF q
<1>a. k # <<>>
  BY <1>2, <1>0, EmptySeq
<1>3. k[Len(k)] = IF Len(s) = 1 THEN x ELSE s[Len(s)]
  <2>1. Len(k) = Len(s) /\ Len(s) \in DOMAIN s
    BY <1>0, <1>2
  <2> QED
    BY <2>1, <1>2
<1>4. ASSUME NEW j \in DOMAIN k PROVE At(r.op, r.on, k[j], Len(k) - j, k[Len(k)])
  <2>1. CASE j = 1
    BY <2>1, <1>2, <1>3
  <2>2. CASE j # 1
    <3>1. Len(s) # 1
      BY <2>2, <1>0, <1>2
    <3>2. At(r.op, r.on, s[j], Len(s) - j, s[Len(s)])
      BY <1>2 DEF IsTask
    <3> QED
      BY <3>1, <3>2, <2>2, <1>2, <1>3
  <2> QED
    BY <2>1, <2>2
<1>6. ASSUME r.op = Floorer, NEW j \in DOMAIN k, Found(k[j]) PROVE j = 1
  BY <1>6, <1>2 DEF IsTask
<1>7. IsTask(q)
  BY <1>a, <1>1, <1>2, <1>4, <1>6 DEF IsTask
<1> QED
  BY <1>7, <1>a DEF q, k

LEMMA TaskFields ==
  ASSUME NEW r, IsTask(r), r.todo # <<>>, NEW n \in Nat, NEW b \in BOOLEAN
  PROVE  IsTask([r EXCEPT !.row = n]) /\ IsTask([r EXCEPT !.ext = n]) /\ IsTask([r EXCEPT !.stale = b])
<1>1. r = [op |-> r.op, todo |-> r.todo, row |-> r.row, ext |-> r.ext, on |-> r.on, stale |-> r.stale]
  BY DEF IsTask
<1>2. ASSUME NEW q, q = [r EXCEPT !.row = n] \/ q = [r EXCEPT !.ext = n] \/ q = [r EXCEPT !.stale = b] PROVE IsTask(q)
  <2>1. /\ q.op = r.op /\ q.todo = r.todo /\ q.on = r.on /\ q.row \in Nat /\ q.ext \in Nat /\ q.stale \in BOOLEAN
        /\ q = [op |-> q.op, todo |-> q.todo, row |-> q.row, ext |-> q.ext, on |-> q.on, stale |-> q.stale]
    BY <1>1, <1>2 DEF IsTask
  <2> QED
    BY <2>1 DEF IsTask
<1> QED
  BY <1>2

LEMMA FitsIdle ==
  ASSUME NEW t, NEW d, NEW g, Len(g.subs) \in Nat
  PROVE  Fits(t, Idle, d, g)
  BY IdleTask DEF Fits, Upgrading, None

LEMMA FitsGrow ==
  ASSUME NEW t, NEW r, NEW d, NEW g, NEW e, NEW h, Fits(t, r, d, g),
         DOMAIN d.subs \subseteq DOMAIN e.subs, DOMAIN d.purchases \subseteq DOMAIN e.purchases,
         DOMAIN g.subs \subseteq DOMAIN h.subs, Len(g.subs) \in Nat, Len(h.subs) \in Nat, Len(g.subs) <= Len(h.subs)
  PROVE  Fits(t, r, e, h)
<1>1. \A k \in DOMAIN r.todo : Named(r.todo[k], e, h)
  BY DEF Fits, Named
<1>2. r.ext \in 0 .. Len(h.subs)
  BY DEF Fits
<1> QED
  BY <1>1, <1>2 DEF Fits

LEMMA FitsStale ==
  ASSUME NEW t, NEW r, NEW d, NEW g, Fits(t, r, d, g), r.todo # <<>>, NEW b \in BOOLEAN
  PROVE  Fits(t, [r EXCEPT !.stale = b], d, g)
<1> DEFINE q == [r EXCEPT !.stale = b]
<1>1. IsTask(r) /\ IsTask(q)
  BY TaskFields DEF Fits
<1>2. q.op = r.op /\ q.todo = r.todo /\ q.row = r.row /\ q.ext = r.ext /\ q.on = r.on
  BY <1>1 DEF IsTask
<1>3. r # Idle
  BY IdleTask
<1> HIDE DEF q
<1>4. Fits(t, q, d, g)
  BY <1>1, <1>2, <1>3 DEF Fits
<1> QED
  BY <1>4 DEF q

LEMMA FitsTail ==
  ASSUME NEW t, NEW r, NEW d, NEW g, Fits(t, r, d, g), r.todo # <<>>, Tail(r.todo) # <<>>,
         ~Is(r.todo[1], "newSub"), ~Is(r.todo[1], "newPurchase")
  PROVE  Fits(t, [r EXCEPT !.todo = Tail(@)], d, g)
<1> DEFINE s == r.todo
           k == Tail(s)
           q == [r EXCEPT !.todo = Tail(@)]
<1>1. /\ Listed(k) /\ 1 \in DOMAIN s /\ DOMAIN k = 1 .. Len(s) - 1 /\ Len(k) = Len(s) - 1
      /\ \A j \in DOMAIN k : k[j] = s[j + 1] /\ j + 1 \in DOMAIN s
  BY TaskLists, ListedTail DEF Fits
<1>0. IsTask(r) /\ q = [r EXCEPT !.todo = k]
  BY DEF Fits, IsTask
<1>2. IsTask(q)
  BY <1>0, <1>1, TaskSuffix
<1>3. q.op = r.op /\ q.todo = k /\ q.row = r.row /\ q.ext = r.ext /\ q.on = r.on /\ r # Idle
  BY <1>0, IdleTask DEF IsTask
<1>4. Len(s) \in Nat /\ DOMAIN s = 1 .. Len(s)
  BY <1>0, TaskLists
<1>a. At(r.op, r.on, s[1], Len(s) - 1, s[Len(s)])
  BY <1>0, <1>1 DEF IsTask
<1> HIDE DEF k, q
<1>5. ASSUME r.op \in Upgrading, Len(k) \in {3, 4}, Is(k[Len(k)], "limit") PROVE r.row \in DOMAIN d.subs
  <2>1. k[Len(k)] = s[Len(s)]
    BY <1>1, <1>4, <1>5
  <2>2. CASE Len(s) = 4
    BY <2>1, <2>2, <1>5 DEF Fits
  <2>3. CASE Len(s) = 5
    <3>1. AtUpgrade(r.on, s[1], 4, s[5])
      BY <1>a, <2>3, <1>5 DEF At, Upgrading, Applier, Floorer
    <3> QED
      BY <3>1, <2>1, <2>3, <1>5 DEF AtUpgrade, Is
  <2> QED
    BY <2>2, <2>3, <1>1, <1>4, <1>5
<1>6. Fits(t, q, d, g)
  BY <1>1, <1>2, <1>3, <1>5 DEF Fits
<1> QED
  BY <1>6 DEF q

LEMMA FitsReplace ==
  ASSUME NEW t, NEW r, NEW d, NEW g, Fits(t, r, d, g), r.todo # <<>>, r.op \in {Floorer, "cyclePaid", "extDeleted"},
         NEW x, Named(x, d, g),
         At(r.op, r.on, x, Len(r.todo) - 1, IF Len(r.todo) = 1 THEN x ELSE r.todo[Len(r.todo)])
  PROVE  Fits(t, [r EXCEPT !.todo = <<x>> \o Tail(@)], d, g)
<1> DEFINE s == r.todo
           k == <<x>> \o Tail(s)
           q == [r EXCEPT !.todo = <<x>> \o Tail(@)]
<1>1. DOMAIN k = DOMAIN s /\ k[1] = x /\ \A j \in DOMAIN s : j # 1 => k[j] = s[j]
  BY TaskLists, ListedReplace DEF Fits
<1>2. r.op # Applier /\ r.op \notin Upgrading /\ r.op # "buyAddOn"
  BY DEF Floorer, Applier, Upgrading
<1>3. IsTask(r) /\ IsTask([r EXCEPT !.todo = k]) /\ k # <<>>
  BY <1>2, TaskReplace DEF Fits
<1> HIDE DEF k
<1>4. q = [r EXCEPT !.todo = k]
  BY <1>3 DEF IsTask, k
<1>5. q.op = r.op /\ q.todo = k /\ q.row = r.row /\ q.ext = r.ext /\ q.on = r.on /\ r # Idle
  BY <1>3, <1>4, IdleTask DEF IsTask
<1> HIDE DEF q
<1>6. Fits(t, q, d, g)
  BY <1>1, <1>2, <1>3, <1>4, <1>5 DEF Fits
<1> QED
  BY <1>6 DEF q

LEMMA FitsDrop ==
  ASSUME NEW t, NEW r, NEW d, NEW g, Fits(t, r, d, g), r.op = "cyclePaid", Len(r.todo) >= 4
  PROVE  LET k == SubSeq(r.todo, 4, Len(r.todo))
         IN k # <<>> /\ Fits(t, [r EXCEPT !.todo = k], d, g)
<1> DEFINE s == r.todo
           k == SubSeq(s, 4, Len(s))
           q == [r EXCEPT !.todo = k]
<1>1. /\ Listed(k) /\ Len(k) = Len(s) - 3 /\ DOMAIN k = 1 .. Len(s) - 3 /\ Len(s) \in Nat
      /\ \A j \in DOMAIN k : k[j] = s[j + 3] /\ j + 3 \in DOMAIN s
  BY TaskLists, ListedDrop DEF Fits
<1> HIDE DEF k
<1>2. k # <<>>
  BY <1>1, EmptySeq
<1>3. IsTask(r) /\ IsTask(q)
  BY <1>1, <1>2, TaskSuffix DEF Fits
<1>4. q.op = r.op /\ q.todo = k /\ q.row = r.row /\ q.ext = r.ext /\ q.on = r.on /\ r # Idle
  BY <1>3, IdleTask DEF IsTask
<1> HIDE DEF q
<1>5. Fits(t, q, d, g)
  BY <1>1, <1>3, <1>4 DEF Fits, Upgrading
<1> QED
  BY <1>2, <1>5 DEF q, k

(* A handler that has inserted a row goes on with its number.              *)
LEMMA FitsInserted ==
  ASSUME NEW t, NEW r, NEW d, NEW g, Fits(t, r, d, g), r.todo # <<>>, Tail(r.todo) # <<>>, NEW n \in Nat,
         \/ Is(r.todo[1], "newSub") /\ n \in DOMAIN d.subs
         \/ Is(r.todo[1], "newPurchase") /\ n \in DOMAIN d.purchases
  PROVE  Fits(t, [[r EXCEPT !.todo = Tail(@)] EXCEPT !.row = n], d, g)
<1> DEFINE s == r.todo
           k == Tail(s)
           p == [r EXCEPT !.todo = k]
           q == [[r EXCEPT !.todo = Tail(@)] EXCEPT !.row = n]
<1>1. /\ Listed(k) /\ 1 \in DOMAIN s /\ DOMAIN k = 1 .. Len(s) - 1 /\ Len(k) = Len(s) - 1
      /\ \A j \in DOMAIN k : k[j] = s[j + 1] /\ j + 1 \in DOMAIN s
  BY TaskLists, ListedTail DEF Fits
<1>2. IsTask(r) /\ IsTask(p)
  BY <1>1, TaskSuffix DEF Fits
<1>3. p.todo = k /\ p.op = r.op /\ p.ext = r.ext /\ p.on = r.on /\ r # Idle
  BY <1>2, IdleTask DEF IsTask
<1>4. IsTask([p EXCEPT !.row = n])
  BY <1>2, <1>3, TaskFields
<1>5. q = [p EXCEPT !.row = n]
  BY <1>2 DEF IsTask
<1>6. q.op = r.op /\ q.todo = k /\ q.row = n /\ q.ext = r.ext /\ q.on = r.on
  BY <1>2, <1>5, <1>3 DEF IsTask
<1>7. Len(s) \in Nat /\ At(r.op, r.on, s[1], Len(s) - 1, s[Len(s)]) /\ Len(s) - 1 \in Nat
  BY <1>1, <1>2, TaskLists DEF IsTask
<1>8. CASE Is(s[1], "newSub")
  <2>1. r.op # "buyAddOn"
    BY <1>7, <1>8, AtNewSub DEF Upgrading
  <2>2. n \in DOMAIN d.subs
    BY <1>8 DEF Is
  <2> HIDE DEF k, p, q
  <2> QED
    BY <1>1, <1>3, <1>4, <1>5, <1>6, <2>1, <2>2 DEF Fits, q
<1>9. CASE Is(s[1], "newPurchase")
  <2>1. r.op \notin Upgrading
    BY <1>7, <1>9, AtNewPurchase DEF Upgrading
  <2>2. n \in DOMAIN d.purchases
    BY <1>9 DEF Is
  <2> HIDE DEF k, p, q
  <2> QED
    BY <1>1, <1>3, <1>4, <1>5, <1>6, <2>1, <2>2 DEF Fits, q
<1> QED
  BY <1>8, <1>9

LEMMA FitsExt ==
  ASSUME NEW t, NEW r, NEW d, NEW g, Fits(t, r, d, g), r.todo # <<>>, NEW n \in 0 .. Len(g.subs), Len(g.subs) \in Nat
  PROVE  Fits(t, [r EXCEPT !.ext = n], d, g)
<1> DEFINE q == [r EXCEPT !.ext = n]
<1>1. IsTask(r) /\ IsTask(q)
  <2>1. n \in Nat /\ TRUE \in BOOLEAN
    OBVIOUS
  <2> QED
    BY <2>1, TaskFields DEF Fits
<1>2. q.op = r.op /\ q.todo = r.todo /\ q.row = r.row /\ q.ext = n /\ q.on = r.on /\ r # Idle
  BY <1>1, IdleTask DEF IsTask
<1> HIDE DEF q
<1>4. Fits(t, q, d, g)
  BY <1>1, <1>2 DEF Fits
<1> QED
  BY <1>4 DEF q

----------------------------------------------------------------------------
(* The invariant, and its steps.                                           *)

TasksFit == DOMAIN task = Slot /\ \A t \in Slot : Fits(t, task[t], db, asaas)

TypeInv == Typed(db, asaas) /\ (slips = {} => TasksFit)

(* What a write of another handler leaves of the handler in slot u.        *)
Kept(u) == task'[u] = task[u] \/ (Busy(u) /\ task'[u] = [task[u] EXCEPT !.stale = TRUE])

(* No row goes away.                                                       *)
Grows(d, e) == DOMAIN d.subs \subseteq DOMAIN e.subs /\ DOMAIN d.purchases \subseteq DOMAIN e.purchases

LEMMA FitTask ==
  ASSUME TasksFit, NEW t \in Slot
  PROVE  /\ IsTask(task[t]) /\ Listed(Todo(t)) /\ Len(Todo(t)) \in Nat /\ DOMAIN Todo(t) = 1 .. Len(Todo(t))
         /\ Busy(t) <=> Todo(t) # <<>>
         /\ task[t].stale \in BOOLEAN
  BY TaskLists, IdleTask DEF TasksFit, Fits, IsTask, Todo, Busy

LEMMA HeadIs ==
  ASSUME TasksFit, NEW t \in Slot, NEW kind, Has(t, kind)
  PROVE  /\ Todo(t) # <<>> /\ Busy(t) /\ Head(Todo(t)) = Todo(t)[1] /\ Is(Todo(t)[1], kind)
         /\ Len(Todo(t)) - 1 \in Nat /\ 1 \in DOMAIN Todo(t)
         /\ At(task[t].op, task[t].on, Todo(t)[1], Len(Todo(t)) - 1, Todo(t)[Len(Todo(t))])
         /\ Named(Todo(t)[1], db, asaas)
         /\ Len(Tail(Todo(t))) = Len(Todo(t)) - 1 /\ Listed(Tail(Todo(t)))
         /\ DOMAIN Tail(Todo(t)) = 1 .. Len(Todo(t)) - 1
         /\ \A k \in DOMAIN Tail(Todo(t)) : Tail(Todo(t))[k] = Todo(t)[k + 1] /\ k + 1 \in DOMAIN Todo(t)
<1>1. Todo(t) # <<>> /\ Head(Todo(t)).kind = kind
  BY DEF Has
<1>2. Listed(Todo(t)) /\ Len(Todo(t)) \in Nat
  BY FitTask
<1>3. /\ Listed(Tail(Todo(t)))
      /\ Head(Todo(t)) = Todo(t)[1] /\ 1 \in DOMAIN Todo(t)
      /\ DOMAIN Tail(Todo(t)) = 1 .. Len(Todo(t)) - 1 /\ Len(Tail(Todo(t))) = Len(Todo(t)) - 1 /\ Len(Todo(t)) >= 1
      /\ \A k \in DOMAIN Tail(Todo(t)) : Tail(Todo(t))[k] = Todo(t)[k + 1] /\ k + 1 \in DOMAIN Todo(t)
  BY <1>1, <1>2, ListedTail
<1>4. At(task[t].op, task[t].on, Todo(t)[1], Len(Todo(t)) - 1, Todo(t)[Len(Todo(t))]) /\ Named(Todo(t)[1], db, asaas)
  BY <1>3 DEF TasksFit, Fits, IsTask, Todo
<1> QED
  BY <1>1, <1>2, <1>3, <1>4, FitTask DEF Is

LEMMA SaveTasks ==
  ASSUME TasksFit, NEW t \in Slot, NEW tables, NEW rest, Save(t, tables, rest)
  PROVE  /\ db' = tables /\ asaas' = asaas /\ DOMAIN task' = Slot /\ task'[t] = rest
         /\ \A u \in Slot \ {t} : Kept(u)
<1>1. db' = tables /\ asaas' = asaas /\ DOMAIN task' = Slot /\ task'[t] = rest
  BY DEF Save, TasksFit
<1>2. ASSUME NEW u \in Slot \ {t} PROVE Kept(u)
  <2>1. CASE ~Busy(u)
    BY <2>1 DEF Save, TasksFit, Kept, Busy
  <2>2. CASE Busy(u)
    <3>1. PICK touched \in BOOLEAN : task'[u] = [task[u] EXCEPT !.stale = task[u].stale \/ touched]
      BY <2>2 DEF Save, TasksFit
    <3>2. task[u] = [op |-> task[u].op, todo |-> task[u].todo, row |-> task[u].row, ext |-> task[u].ext,
                     on |-> task[u].on, stale |-> task[u].stale] /\ task[u].stale \in BOOLEAN
      BY FitTask DEF IsTask
    <3>3. CASE touched
      <4>1. (task[u].stale \/ touched) = TRUE
        BY <3>2, <3>3
      <4> QED
        BY <3>1, <4>1, <2>2 DEF Kept
    <3>4. CASE ~touched
      <4>1. (task[u].stale \/ touched) = task[u].stale
        BY <3>2, <3>4
      <4>2. task'[u] = [task[u] EXCEPT !.stale = task[u].stale]
        BY <3>1, <4>1
      <4>3. task'[u] = task[u]
        BY <3>2, <4>2
      <4> QED
        BY <4>3 DEF Kept
    <3> QED
      BY <3>3, <3>4
  <2> QED
    BY <2>1, <2>2
<1> QED
  BY <1>1, <1>2

LEMMA KeptFits ==
  ASSUME TasksFit, NEW u \in Slot, Kept(u), NEW e, NEW h, Grows(db, e),
         DOMAIN asaas.subs \subseteq DOMAIN h.subs, Len(asaas.subs) \in Nat, Len(h.subs) \in Nat, Len(asaas.subs) <= Len(h.subs)
  PROVE  Fits(u, task'[u], e, h)
<1>1. Fits(u, task[u], db, asaas)
  BY DEF TasksFit
<1>2. Busy(u) => task[u].todo # <<>>
  BY FitTask DEF Todo
<1>3. Fits(u, task'[u], db, asaas)
  <2>1. CASE task'[u] = task[u]
    BY <2>1, <1>1
  <2>2. CASE Busy(u) /\ task'[u] = [task[u] EXCEPT !.stale = TRUE]
    <3>1. TRUE \in BOOLEAN
      OBVIOUS
    <3>2. task[u].todo # <<>>
      BY <2>2, <1>2
    <3>3. Fits(u, [task[u] EXCEPT !.stale = TRUE], db, asaas)
      BY <3>1, <3>2, <1>1, FitsStale
    <3> QED
      BY <2>2, <3>3
  <2> QED
    BY <2>1, <2>2 DEF Kept
<1> QED
  BY <1>3, FitsGrow DEF Grows

LEMMA SaveGrown ==
  ASSUME Typed(db, asaas), TasksFit, NEW t \in Slot, NEW tables, NEW rest, Save(t, tables, rest),
         Fits(t, rest, tables, asaas), Grows(db, tables), Typed(tables, asaas)
  PROVE  TypeInv'
<1>1. /\ db' = tables /\ asaas' = asaas /\ DOMAIN task' = Slot /\ task'[t] = rest
      /\ \A u \in Slot \ {t} : Kept(u)
  BY SaveTasks
<1>2. Len(asaas.subs) \in Nat
  BY TypedLens
<1>4. \A u \in Slot \ {t} : Fits(u, task'[u], tables, asaas)
  BY <1>1, <1>2, KeptFits
<1>5. Slot' = Slot
  BY DEF Slot, Cron
<1>6. TasksFit'
  BY <1>1, <1>4, <1>5 DEF TasksFit
<1> QED
  BY <1>1, <1>6 DEF TypeInv

LEMMA SaveFits ==
  ASSUME Typed(db, asaas), TasksFit, NEW t \in Slot, NEW tables, NEW rest, Save(t, tables, rest),
         Fits(t, rest, db, asaas), Grows(db, tables), Typed(tables, asaas)
  PROVE  TypeInv'
<1>1. Len(asaas.subs) \in Nat
  BY TypedLens
<1>2. Fits(t, rest, tables, asaas)
  BY <1>1, FitsGrow DEF Grows
<1> QED
  BY <1>2, SaveGrown

LEMMA ContinueFits ==
  ASSUME Typed(db, asaas), TasksFit, NEW t \in Slot, NEW kind, Has(t, kind), kind \notin {"newSub", "newPurchase"}
  PROVE  Fits(t, Continue(t, Tail(Todo(t))), db, asaas)
<1>1. Todo(t) # <<>> /\ Is(Todo(t)[1], kind) /\ IsTask(task[t])
  BY HeadIs, FitTask
<1>2. Fits(t, task[t], db, asaas) /\ Len(asaas.subs) \in Nat
  BY TypedLens DEF TasksFit
<1>3. CASE Tail(Todo(t)) = <<>>
  BY <1>2, <1>3, FitsIdle DEF Continue
<1>4. CASE Tail(Todo(t)) # <<>>
  <2>1. Fits(t, [task[t] EXCEPT !.todo = Tail(@)], db, asaas)
    BY <1>1, <1>2, <1>4, FitsTail DEF Todo, Is
  <2>2. [task[t] EXCEPT !.todo = Tail(@)] = [task[t] EXCEPT !.todo = Tail(Todo(t))]
    BY <1>1 DEF Todo, IsTask
  <2> QED
    BY <1>4, <2>1, <2>2 DEF Continue
<1> QED
  BY <1>3, <1>4

LEMMA WriteSubTyped ==
  ASSUME Typed(db, asaas), TasksFit, NEW t \in Slot, WriteSub(t)
  PROVE  TypeInv'
<1> DEFINE w == Head(Todo(t))
           tables == [db EXCEPT !.subs[w.i] = Put(@, w.set)]
<1>1. Has(t, "sub") /\ Save(t, tables, Continue(t, Tail(Todo(t))))
  BY DEF WriteSub, Write
<1>2. /\ w = Todo(t)[1] /\ Is(w, "sub") /\ Named(w, db, asaas)
      /\ At(task[t].op, task[t].on, w, Len(Todo(t)) - 1, Todo(t)[Len(Todo(t))]) /\ Len(Todo(t)) - 1 \in Nat
  BY <1>1, HeadIs
<1> HIDE DEF w
<1>3. w.i \in DOMAIN db.subs
  BY <1>2 DEF Named
<1>4. SafeSet(w.set, asaas)
  BY <1>2, TypedLens, AtSub
<1>5. Typed(tables, asaas)
  BY <1>3, <1>4, SubWritten
<1>6. Grows(db, tables)
  <2>1. db = [subs |-> db.subs, tenant |-> db.tenant, companies |-> db.companies, purchases |-> db.purchases]
    BY TypedLens
  <2> QED
    BY ONLY <2>1 DEF Grows
<1> HIDE DEF tables
<1> QED
  BY <1>1, <1>5, <1>6, SaveFits, ContinueFits

LEMMA WriteTenantTyped ==
  ASSUME Typed(db, asaas), TasksFit, NEW t \in Slot, WriteTenant(t)
  PROVE  TypeInv'
<1> DEFINE w == Head(Todo(t))
           tables == [db EXCEPT !.tenant = Put(@, w.set)]
<1>1. Has(t, "tenant") /\ Save(t, tables, Continue(t, Tail(Todo(t))))
  BY DEF WriteTenant, Write
<1>2. /\ w = Todo(t)[1] /\ Is(w, "tenant")
      /\ At(task[t].op, task[t].on, w, Len(Todo(t)) - 1, Todo(t)[Len(Todo(t))]) /\ Len(Todo(t)) - 1 \in Nat
  BY <1>1, HeadIs
<1> HIDE DEF w
<1>3. Put(db.tenant, w.set) \in TenantRow
  BY <1>2, AtTenant, PutTenant, TypedLens
<1>4. Typed(tables, asaas)
  BY <1>3, TenantWritten
<1>5. Grows(db, tables)
  <2>1. db = [subs |-> db.subs, tenant |-> db.tenant, companies |-> db.companies, purchases |-> db.purchases]
    BY TypedLens
  <2> QED
    BY ONLY <2>1 DEF Grows
<1> HIDE DEF tables
<1> QED
  BY <1>1, <1>4, <1>5, SaveFits, ContinueFits

LEMMA WritePurchaseTyped ==
  ASSUME Typed(db, asaas), TasksFit, NEW t \in Slot, WritePurchase(t)
  PROVE  TypeInv'
<1> DEFINE w == Head(Todo(t))
           p == IF w.i = None THEN task[t].row ELSE w.i
           tables == [db EXCEPT !.purchases[p] = Put(@, w.set)]
<1>1. Has(t, "purchase") /\ Save(t, tables, Continue(t, Tail(Todo(t))))
  BY DEF WritePurchase, Write
<1>2. /\ w = Todo(t)[1] /\ Is(w, "purchase") /\ Named(w, db, asaas)
      /\ At(task[t].op, task[t].on, w, Len(Todo(t)) - 1, Todo(t)[Len(Todo(t))]) /\ Len(Todo(t)) - 1 \in Nat
  BY <1>1, HeadIs
<1> HIDE DEF w
<1>3. /\ w.set \in {[status |-> "PAID"], [status |-> "EXPIRED"]}
      /\ w.i = None => task[t].op = "buyAddOn"
  BY <1>2, AtPurchase
<1>4. p \in DOMAIN db.purchases
  <2>1. CASE w.i # None
    BY <2>1, <1>2 DEF Named
  <2>2. CASE w.i = None
    BY <2>2, <1>2, <1>3 DEF TasksFit, Fits, Is, Todo
  <2> QED
    BY <2>1, <2>2
<1> HIDE DEF p
<1>5. PICK status \in {"PAID", "EXPIRED"} : w.set = [status |-> status]
  BY <1>3
<1>6. db.purchases[p] \in PurchaseRow
  BY <1>4, TypedLens, ElementOfSeq
<1>7. Put(db.purchases[p], w.set) \in PurchaseRow /\ Put(db.purchases[p], w.set).sub = db.purchases[p].sub
  BY <1>5, <1>6, PutPurchase
<1>8. Typed(tables, asaas)
  BY <1>4, <1>7, PurchaseWritten
<1>9. Grows(db, tables)
  <2>1. db = [subs |-> db.subs, tenant |-> db.tenant, companies |-> db.companies, purchases |-> db.purchases]
    BY TypedLens
  <2> QED
    BY ONLY <2>1 DEF Grows
<1> HIDE DEF tables
<1> QED
  BY <1>1, <1>8, <1>9, SaveFits, ContinueFits

LEMMA LinkTyped ==
  ASSUME Typed(db, asaas), TasksFit, NEW t \in Slot, Link(t)
  PROVE  TypeInv'
<1> DEFINE i == task[t].row
           set == [ext |-> task[t].ext]
           tables == [db EXCEPT !.subs[i].ext = task[t].ext]
<1>1. Has(t, "link") /\ Save(t, tables, Continue(t, Tail(Todo(t))))
  BY DEF Link, Write
<1>2. /\ Is(Todo(t)[1], "link") /\ Len(Todo(t)) - 1 \in Nat /\ Len(Todo(t)) \in Nat
      /\ At(task[t].op, task[t].on, Todo(t)[1], Len(Todo(t)) - 1, Todo(t)[Len(Todo(t))])
  BY <1>1, HeadIs, FitTask
<1>3. task[t].op \in Upgrading /\ Len(Todo(t)) - 1 = 2 /\ Is(Todo(t)[Len(Todo(t))], "limit")
  BY <1>2, AtLink
<1>4. Len(Todo(t)) = 3 /\ Fits(t, task[t], db, asaas)
  BY <1>2, <1>3 DEF TasksFit
<1>5. i \in DOMAIN db.subs /\ task[t].ext \in 0 .. Len(asaas.subs)
  BY <1>3, <1>4 DEF Fits, Todo
<1>6. SafeSet(set, asaas)
  BY <1>5 DEF SafeSet, SubSet
<1>7. [db EXCEPT !.subs[i] = Put(@, set)] = tables
  <2>1. db.subs[i] \in SubRow /\ db = [subs |-> db.subs, tenant |-> db.tenant, companies |-> db.companies, purchases |-> db.purchases]
    BY <1>5, TypedLens, ElementOfSeq
  <2>2. Put(db.subs[i], set) = [db.subs[i] EXCEPT !.ext = task[t].ext]
    BY <2>1 DEF Put, SubRow
  <2> QED
    BY <2>1, <2>2
<1>8. Typed(tables, asaas)
  BY <1>5, <1>6, <1>7, SubWritten
<1>9. Grows(db, tables)
  <2>1. db = [subs |-> db.subs, tenant |-> db.tenant, companies |-> db.companies, purchases |-> db.purchases]
    BY TypedLens
  <2> QED
    BY ONLY <2>1 DEF Grows
<1> HIDE DEF tables
<1> QED
  BY <1>1, <1>8, <1>9, SaveFits, ContinueFits

LEMMA PlanInt == ASSUME NEW plan \in Plan PROVE plan \in Int /\ plan \in Nat /\ plan # None
<1>1. Plan \subseteq Nat \ {0}
  BY PlanAssumption
<1>2. plan \in Nat \ {0}
  BY <1>1
<1> QED
  BY <1>2 DEF None

LEMMA Unwritten == ASSUME NEW d, NEW g, Typed(d, g), NEW subs, NEW tenant, NEW companies, NEW purchases
  PROVE /\ [d EXCEPT !.companies = companies].subs = d.subs /\ [d EXCEPT !.companies = companies].purchases = d.purchases
        /\ [d EXCEPT !.companies = companies].tenant = d.tenant /\ [d EXCEPT !.companies = companies].companies = companies
        /\ [d EXCEPT !.tenant = tenant].subs = d.subs /\ [d EXCEPT !.tenant = tenant].purchases = d.purchases
        /\ [d EXCEPT !.tenant = tenant].companies = d.companies /\ [d EXCEPT !.tenant = tenant].tenant = tenant
        /\ [d EXCEPT !.subs = subs].subs = subs /\ [d EXCEPT !.subs = subs].purchases = d.purchases
        /\ [d EXCEPT !.subs = subs].tenant = d.tenant /\ [d EXCEPT !.subs = subs].companies = d.companies
        /\ [d EXCEPT !.purchases = purchases].purchases = purchases /\ [d EXCEPT !.purchases = purchases].subs = d.subs
        /\ [d EXCEPT !.purchases = purchases].tenant = d.tenant /\ [d EXCEPT !.purchases = purchases].companies = d.companies
<1>1. d = [subs |-> d.subs, tenant |-> d.tenant, companies |-> d.companies, purchases |-> d.purchases]
  BY TypedLens
<1> QED
  BY ONLY <1>1

LEMMA WithExt ==
  ASSUME NEW row, NEW status, NEW plan, NEW x, NEW r, r = [row EXCEPT !.ext = x],
         row = [status |-> status, plan |-> plan, pending |-> 0, due |-> FALSE, ext |-> 0, overdue |-> "no"]
  PROVE  r = [status |-> status, plan |-> plan, pending |-> 0, due |-> FALSE, ext |-> x, overdue |-> "no"]
  OBVIOUS

LEMMA InsertRowTyped ==
  ASSUME Typed(db, asaas), TasksFit, NEW t \in Slot, InsertRow(t)
  PROVE  TypeInv'
<1> DEFINE w == Head(Todo(t))
           c == Continue(t, Tail(Todo(t)))
<1>0. Fits(t, task[t], db, asaas) /\ IsTask(task[t]) /\ Len(asaas.subs) \in Nat
  BY TypedLens, FitTask DEF TasksFit
<1>1. CASE Has(t, "newSub")
  <2> DEFINE row == [w.row EXCEPT !.ext = task[t].ext]
             tables == [db EXCEPT !.subs = Append(@, row)]
             n == Len(db.subs) + 1
             rest == [c EXCEPT !.row = n]
  <2>1. Save(t, tables, rest)
    <3>1. w.kind = "newSub"
      BY <1>1 DEF Has
    <3> QED
      BY <3>1 DEF InsertRow
  <2>2. /\ w = Todo(t)[1] /\ Is(w, "newSub") /\ Todo(t) # <<>> /\ Len(Todo(t)) - 1 \in Nat
        /\ At(task[t].op, task[t].on, w, Len(Todo(t)) - 1, Todo(t)[Len(Todo(t))])
        /\ Len(Tail(Todo(t))) = Len(Todo(t)) - 1
    BY <1>1, HeadIs
  <2> HIDE DEF w
  <2>3. /\ Len(Todo(t)) - 1 >= 1
        /\ \E status \in {"PENDING", "ACTIVE"}, plan \in Plan : w.row = Subscription(status, plan, None)
    BY <2>2, AtNewSub
  <2>4. Tail(Todo(t)) # <<>>
    <3>1. Len(Tail(Todo(t))) >= 1 /\ Len(<<>>) = 0
      BY <2>2, <2>3
    <3> QED
      BY <3>1
  <2>5. PICK status \in {"PENDING", "ACTIVE"}, plan \in Plan : w.row = Subscription(status, plan, None)
    BY <2>3
  <2>6. task[t].ext \in 0 .. Len(asaas.subs)
    BY <1>0 DEF Fits
  <2>7. row = [status |-> status, plan |-> plan, pending |-> None, due |-> FALSE, ext |-> task[t].ext, overdue |-> "no"]
    <3>1. w.row = [status |-> status, plan |-> plan, pending |-> None, due |-> FALSE, ext |-> None, overdue |-> "no"]
      BY <2>5 DEF Subscription
    <3>2. PICK r : r = row
      OBVIOUS
    <3>3. PICK b : b = w.row
      OBVIOUS
    <3>4. PICK x : x = task[t].ext
      OBVIOUS
    <3>5. r = [b EXCEPT !.ext = x]
      BY ONLY <3>2, <3>3, <3>4, Zenon
    <3>6. b = [status |-> status, plan |-> plan, pending |-> 0, due |-> FALSE, ext |-> 0, overdue |-> "no"]
      BY <3>1, <3>3 DEF None
    <3>7. r = [status |-> status, plan |-> plan, pending |-> 0, due |-> FALSE, ext |-> x, overdue |-> "no"]
      BY ONLY <3>5, <3>6, WithExt, Zenon
    <3> HIDE DEF row
    <3> QED
      BY <3>2, <3>4, <3>7 DEF None
  <2> HIDE DEF row
  <2>8. row \in SubRow /\ SubTyped(row, asaas)
    BY <2>6, <2>7, <1>0 DEF SubRow, SubTyped
  <2>9. Typed(tables, asaas)
    BY <2>8, SubAdded
  <2>10. tables.subs = Append(db.subs, row) /\ tables.purchases = db.purchases
    BY Unwritten
  <2>11. Grows(db, tables) /\ n \in DOMAIN tables.subs /\ n \in Nat
    BY <2>8, <2>10, TypedLens, SeqAdd DEF Grows
  <2> HIDE DEF tables, n
  <2>12. Fits(t, task[t], tables, asaas)
    BY <1>0, <2>11, FitsGrow DEF Grows
  <2>13. rest = [[task[t] EXCEPT !.todo = Tail(@)] EXCEPT !.row = n]
    BY <2>4, <1>0 DEF Continue, Todo, IsTask
  <2>14. Fits(t, rest, tables, asaas)
    BY <2>2, <2>4, <2>11, <2>12, <2>13, FitsInserted DEF Todo
  <2> HIDE DEF rest
  <2> QED
    BY <2>1, <2>9, <2>11, <2>14, SaveGrown
<1>2. CASE Has(t, "newPurchase")
  <2> DEFINE row == w.row
             tables == [db EXCEPT !.purchases = Append(@, row)]
             n == Len(db.purchases) + 1
             rest == [c EXCEPT !.row = n]
  <2>1. Save(t, tables, rest)
    <3>1. w.kind = "newPurchase"
      BY <1>2 DEF Has
    <3> QED
      BY <3>1 DEF InsertRow
  <2>2. /\ w = Todo(t)[1] /\ Is(w, "newPurchase") /\ Todo(t) # <<>> /\ Len(Todo(t)) - 1 \in Nat
        /\ At(task[t].op, task[t].on, w, Len(Todo(t)) - 1, Todo(t)[Len(Todo(t))])
        /\ Named(w, db, asaas)
        /\ Len(Tail(Todo(t))) = Len(Todo(t)) - 1
    BY <1>2, HeadIs
  <2> HIDE DEF w
  <2>3. /\ Len(Todo(t)) - 1 >= 1
        /\ w.row = Purchase(task[t].on)
    BY <2>2, AtNewPurchase
  <2>4. Tail(Todo(t)) # <<>>
    BY <2>2, <2>3, EmptySeq
  <2>5. task[t].on \in DOMAIN db.subs
    BY <2>2, <2>3 DEF Named, Purchase
  <2>9. Typed(tables, asaas)
    BY <2>3, <2>5, PurchaseAdded
  <2>8. row \in PurchaseRow
    BY <2>3, <2>5, TypedLens DEF Purchase, PurchaseRow
  <2> HIDE DEF row
  <2>10. tables.purchases = Append(db.purchases, row) /\ tables.subs = db.subs
    BY Unwritten
  <2>11. Grows(db, tables) /\ n \in DOMAIN tables.purchases /\ n \in Nat
    BY <2>8, <2>10, TypedLens, SeqAdd DEF Grows
  <2> HIDE DEF tables, n
  <2>12. Fits(t, task[t], tables, asaas)
    BY <1>0, <2>11, FitsGrow DEF Grows
  <2>13. rest = [[task[t] EXCEPT !.todo = Tail(@)] EXCEPT !.row = n]
    BY <2>4, <1>0 DEF Continue, Todo, IsTask
  <2>14. Fits(t, rest, tables, asaas)
    BY <2>2, <2>4, <2>11, <2>12, <2>13, FitsInserted DEF Todo
  <2> HIDE DEF rest
  <2> QED
    BY <2>1, <2>9, <2>11, <2>14, SaveGrown
<1> QED
  BY <1>1, <1>2 DEF InsertRow

LEMMA WithLimitTyped ==
  ASSUME Typed(db, asaas), NEW n, db.companies # <<>> => n \in Int
  PROVE  Typed(WithLimit(n), asaas) /\ Grows(db, WithLimit(n))
<1> DEFINE companies == IF db.companies = <<>> THEN db.companies ELSE [db.companies EXCEPT ![1] = n]
<1>1. WithLimit(n) = [db EXCEPT !.companies = companies]
  BY DEF WithLimit
<1>2. companies \in Seq(Int)
  <2>0. db.companies \in Seq(Int)
    BY TypedLens
  <2>1. CASE db.companies = <<>>
    BY <2>0, <2>1
  <2>2. CASE db.companies # <<>>
    <3>1. 1 \in DOMAIN db.companies
      BY <2>0, <2>2, EmptySeq, LenProperties
    <3> QED
      BY <2>0, <2>2, <3>1, SeqPut
  <2> QED
    BY <2>1, <2>2
<1> HIDE DEF companies
<1>3. Typed([db EXCEPT !.companies = companies], asaas)
  BY <1>2, CompaniesWritten
<1>4. Grows(db, [db EXCEPT !.companies = companies])
  BY Unwritten DEF Grows
<1> QED
  BY <1>1, <1>3, <1>4

LEMMA WriteLimitTyped ==
  ASSUME Typed(db, asaas), TasksFit, NEW t \in Slot, WriteLimit(t)
  PROVE  TypeInv'
<1> DEFINE w == Head(Todo(t))
<1>1. CASE Has(t, "limit") /\ Write(t, WithLimit(w.to), Tail(Todo(t)))
  <2>1. Save(t, WithLimit(w.to), Continue(t, Tail(Todo(t))))
    BY <1>1 DEF Write
  <2>2. /\ w = Todo(t)[1] /\ Is(w, "limit") /\ Len(Todo(t)) - 1 \in Nat
        /\ At(task[t].op, task[t].on, w, Len(Todo(t)) - 1, Todo(t)[Len(Todo(t))])
    BY <1>1, HeadIs
  <2> HIDE DEF w
  <2>3. w.to \in Int
    <3>1. w.to \in Plan
      BY <2>2, AtLimit
    <3> QED
      BY <3>1, PlanInt
  <2>4. Typed(WithLimit(w.to), asaas) /\ Grows(db, WithLimit(w.to))
    BY <2>3, WithLimitTyped
  <2>5. Fits(t, Continue(t, Tail(Todo(t))), db, asaas)
    BY <1>1, ContinueFits
  <2> QED
    BY <2>1, <2>4, <2>5, SaveFits
<1>2. CASE Has(t, "credit") /\ Write(t, WithLimit(db.companies[1] + w.by), Tail(Todo(t)))
  <2> DEFINE n == db.companies[1] + w.by
  <2>1. Save(t, WithLimit(n), Continue(t, Tail(Todo(t))))
    BY <1>2 DEF Write
  <2>2. /\ w = Todo(t)[1] /\ Is(w, "credit") /\ Len(Todo(t)) - 1 \in Nat
        /\ At(task[t].op, task[t].on, w, Len(Todo(t)) - 1, Todo(t)[Len(Todo(t))])
    BY <1>2, HeadIs
  <2> HIDE DEF w
  <2>3. w.by \in Int
    BY <2>2, AtCredit, PlanAssumption
  <2>4. ASSUME db.companies # <<>> PROVE n \in Int
    <3>1. db.companies \in Seq(Int)
      BY TypedLens
    <3>2. 1 \in 1 .. Len(db.companies)
      BY <2>4, <3>1, EmptySeq, LenProperties
    <3>3. db.companies[1] \in Int
      BY <3>1, <3>2, ElementOfSeq
    <3> QED
      BY <2>3, <3>3
  <2> HIDE DEF n
  <2>5. Typed(WithLimit(n), asaas) /\ Grows(db, WithLimit(n))
    BY <2>4, WithLimitTyped
  <2>6. Fits(t, Continue(t, Tail(Todo(t))), db, asaas)
    BY <1>2, ContinueFits
  <2> QED
    BY <2>1, <2>5, <2>6, SaveFits
<1> QED
  BY <1>1, <1>2 DEF WriteLimit

LEMMA IdleFresh == [Idle EXCEPT !.stale = FALSE] = Idle
<1>1. PICK q : q = [Idle EXCEPT !.stale = FALSE]
  OBVIOUS
<1>2. PICK r : r = Idle
  OBVIOUS
<1>3. r = [op |-> "idle", todo |-> <<>>, row |-> 0, ext |-> 0, on |-> 0, stale |-> FALSE] /\ q = [r EXCEPT !.stale = FALSE]
  BY <1>1, <1>2 DEF Idle, None
<1>4. q = [op |-> "idle", todo |-> <<>>, row |-> 0, ext |-> 0, on |-> 0, stale |-> FALSE]
  BY ONLY <1>3
<1> QED
  BY ONLY <1>1, <1>2, <1>3, <1>4, Zenon

LEMMA LookTasks ==
  ASSUME TasksFit, NEW t \in Slot, NEW k, Look(t, k)
  PROVE  Save(t, db, IF k = <<>> THEN Idle ELSE [[task[t] EXCEPT !.todo = k] EXCEPT !.stale = FALSE])
<1>1. [Idle EXCEPT !.stale = FALSE] = Idle
  BY IdleFresh
<1> QED
  BY <1>1 DEF Look, Continue

LEMMA SelfGrows == Grows(db, db)
  BY DEF Grows

(* A read that takes a write off the list, or puts another in its place.   *)
LEMMA LookTyped ==
  ASSUME Typed(db, asaas), TasksFit, NEW t \in Slot, NEW kind, Has(t, kind), kind \notin {"newSub", "newPurchase"},
         Look(t, Tail(Todo(t)))
  PROVE  TypeInv'
<1> DEFINE k == Tail(Todo(t))
           c == Continue(t, k)
           rest == IF k = <<>> THEN Idle ELSE [[task[t] EXCEPT !.todo = k] EXCEPT !.stale = FALSE]
<1>1. Save(t, db, rest)
  BY LookTasks
<1>2. Fits(t, c, db, asaas)
  BY ContinueFits
<1>3. Fits(t, rest, db, asaas)
  <2>1. CASE k = <<>>
    BY <2>1, <1>2 DEF Continue
  <2>2. CASE k # <<>>
    <3>1. Fits(t, [task[t] EXCEPT !.todo = k], db, asaas) /\ FALSE \in BOOLEAN
      BY <2>2, <1>2 DEF Continue
    <3>2. [task[t] EXCEPT !.todo = k].todo = k
      BY FitTask DEF IsTask
    <3>3. Fits(t, [[task[t] EXCEPT !.todo = k] EXCEPT !.stale = FALSE], db, asaas)
      BY <2>2, <3>1, <3>2, FitsStale
    <3> QED
      BY <2>2, <3>3
  <2> QED
    BY <2>1, <2>2
<1> HIDE DEF rest
<1> QED
  BY <1>1, <1>3, SelfGrows, SaveFits

LEMMA LookPut ==
  ASSUME Typed(db, asaas), TasksFit, NEW t \in Slot, NEW kind, Has(t, kind),
         task[t].op \in {Floorer, "cyclePaid", "extDeleted"}, NEW x, Named(x, db, asaas),
         At(task[t].op, task[t].on, x, Len(Todo(t)) - 1, IF Len(Todo(t)) = 1 THEN x ELSE Todo(t)[Len(Todo(t))]),
         Look(t, <<x>> \o Tail(Todo(t)))
  PROVE  TypeInv'
<1> DEFINE k == <<x>> \o Tail(Todo(t))
           r == [task[t] EXCEPT !.todo = <<x>> \o Tail(@)]
           rest == [r EXCEPT !.stale = FALSE]
<1>0. IsTask(task[t]) /\ Fits(t, task[t], db, asaas) /\ Todo(t) # <<>> /\ Listed(Todo(t))
  BY HeadIs, FitTask DEF TasksFit
<1>1. k # <<>>
  <2>1. Listed(Todo(t)) /\ Todo(t) # <<>>
    BY <1>0
  <2>2. Len(k) = Len(Todo(t)) /\ Len(Todo(t)) >= 1
    BY <2>1, ListedReplace, ListedTail
  <2>3. Len(<<>>) = 0
    OBVIOUS
  <2> HIDE DEF k
  <2> QED
    BY <2>2, <2>3
<1>2. Fits(t, r, db, asaas)
  BY <1>0, FitsReplace DEF Todo
<1>3. r = [task[t] EXCEPT !.todo = k]
  BY <1>0 DEF Todo, IsTask
<1>4. r.todo = k
  BY <1>0, <1>3 DEF IsTask
<1> HIDE DEF k, r
<1>5. Fits(t, rest, db, asaas)
  <2>1. FALSE \in BOOLEAN
    OBVIOUS
  <2> QED
    BY <1>1, <1>2, <1>4, <2>1, FitsStale
<1>6. Save(t, db, rest)
  <2>1. Look(t, k)
    BY DEF k
  <2> QED
    BY <1>1, <1>3, <2>1, LookTasks
<1> HIDE DEF rest
<1> QED
  BY <1>5, <1>6, SelfGrows, SaveFits

LEMMA EmptyConcat == ASSUME NEW s, Listed(s) PROVE <<>> \o s = s
<1> DEFINE S == {s[k] : k \in DOMAIN s}
<1>1. s \in Seq(S)
  BY DEF Listed
<1> HIDE DEF S
<1> QED
  BY <1>1, ConcatEmptySeq

(* A comparison that puts a write in its place.                            *)
LEMMA WritePut ==
  ASSUME Typed(db, asaas), TasksFit, NEW t \in Slot, NEW kind, Has(t, kind),
         task[t].op \in {Floorer, "cyclePaid", "extDeleted"}, NEW x, Named(x, db, asaas),
         At(task[t].op, task[t].on, x, Len(Todo(t)) - 1, IF Len(Todo(t)) = 1 THEN x ELSE Todo(t)[Len(Todo(t))]),
         Write(t, db, <<x>> \o Tail(Todo(t)))
  PROVE  TypeInv'
<1> DEFINE k == <<x>> \o Tail(Todo(t))
           r == [task[t] EXCEPT !.todo = <<x>> \o Tail(@)]
<1>0. IsTask(task[t]) /\ Fits(t, task[t], db, asaas) /\ Todo(t) # <<>> /\ Listed(Todo(t))
  BY HeadIs, FitTask DEF TasksFit
<1>1. k # <<>>
  <2>1. Listed(Todo(t)) /\ Todo(t) # <<>>
    BY <1>0
  <2>2. Len(k) = Len(Todo(t)) /\ Len(Todo(t)) >= 1
    BY <2>1, ListedReplace, ListedTail
  <2>3. Len(<<>>) = 0
    OBVIOUS
  <2> HIDE DEF k
  <2> QED
    BY <2>2, <2>3
<1>2. Fits(t, r, db, asaas)
  BY <1>0, FitsReplace DEF Todo
<1>3. r = [task[t] EXCEPT !.todo = k]
  BY <1>0 DEF Todo, IsTask
<1> HIDE DEF k, r
<1>4. Save(t, db, r)
  BY <1>1, <1>3 DEF Write, Continue, k
<1> QED
  BY <1>2, <1>4, SelfGrows, SaveFits

(* The job that expires add-ons puts what it has found first.              *)
LEMMA FoundNext ==
  ASSUME Typed(db, asaas), TasksFit, NEW t \in Slot, NEW kind \in {"floor", "below"}, Has(t, kind),
         NEW x, Found(x), x.to \in Plan
  PROVE  LET z == IF Len(Todo(t)) = 1 THEN x ELSE Todo(t)[Len(Todo(t))]
         IN /\ task[t].op = Floorer /\ Named(x, db, asaas)
            /\ At(task[t].op, task[t].on, x, Len(Todo(t)) - 1, z)
<1>1. /\ Is(Todo(t)[1], kind) /\ Len(Todo(t)) - 1 \in Nat
      /\ At(task[t].op, task[t].on, Todo(t)[1], Len(Todo(t)) - 1, Todo(t)[Len(Todo(t))])
  BY HeadIs, FitTask
<1> DEFINE e == Len(Todo(t)) - 1
<1>2. task[t].op = Floorer
  <2>1. CASE kind = "floor"
    BY <1>1, <2>1, AtFloor
  <2>2. CASE kind = "below"
    BY <1>1, <2>2, AtBelow
  <2> QED
    BY <2>1, <2>2
<1>3. AtExpireAddOns(Todo(t)[1], e)
  BY <1>1, <1>2 DEF At, Floorer, Applier, Upgrading
<1>4. e % 3 = 1
  BY <1>1, <1>3 DEF AtExpireAddOns, Found, Is
<1>5. AtExpireAddOns(x, e)
  BY <1>4 DEF AtExpireAddOns
<1>6. Named(x, db, asaas)
  BY DEF Named, Found, Is
<1> HIDE DEF e
<1>7. \A z : At(task[t].op, task[t].on, x, e, z)
  BY <1>2, <1>5 DEF At
<1> QED
  BY <1>2, <1>6, <1>7 DEF e

LEMMA ReadFloorTyped ==
  ASSUME Typed(db, asaas), TasksFit, NEW t \in Slot, ReadFloor(t)
  PROVE  TypeInv'
<1> DEFINE x == Below(db.tenant.plan)
<1>1. Found(x) /\ x.to \in Plan
  BY TypedLens DEF TenantRow, Below, Found, Is
<1>2. Has(t, "floor") /\ Look(t, <<x>> \o Tail(Todo(t)))
  BY DEF ReadFloor
<1> HIDE DEF x
<1> QED
  BY <1>1, <1>2, FoundNext, LookPut

LEMMA CheckFloorTyped ==
  ASSUME Typed(db, asaas), TasksFit, NEW t \in Slot, CheckFloor(t)
  PROVE  TypeInv'
<1> DEFINE plan == Head(Todo(t)).to
           x == SetLimit(plan)
<1>1. /\ Has(t, "below") /\ Is(Todo(t)[1], "below") /\ Len(Todo(t)) - 1 \in Nat /\ plan = Todo(t)[1].to
      /\ At(task[t].op, task[t].on, Todo(t)[1], Len(Todo(t)) - 1, Todo(t)[Len(Todo(t))])
      /\ Listed(Tail(Todo(t)))
  BY HeadIs, FitTask DEF CheckFloor
<1>2. plan \in Plan
  BY <1>1, AtBelow
<1>3. Found(x) /\ x.to \in Plan
  BY <1>2 DEF SetLimit, Found, Is
<1>4. \/ Write(t, db, <<>> \o Tail(Todo(t)))
      \/ Write(t, db, <<x>> \o Tail(Todo(t)))
  BY DEF CheckFloor
<1> HIDE DEF x, plan
<1>5. CASE Write(t, db, <<>> \o Tail(Todo(t)))
  <2>1. Save(t, db, Continue(t, Tail(Todo(t))))
    BY <1>1, <1>5, EmptyConcat DEF Write
  <2>2. Fits(t, Continue(t, Tail(Todo(t))), db, asaas)
    BY <1>1, ContinueFits
  <2> QED
    BY <2>1, <2>2, SelfGrows, SaveFits
<1>6. CASE Write(t, db, <<x>> \o Tail(Todo(t)))
  BY <1>1, <1>3, <1>6, FoundNext, WritePut
<1> QED
  BY <1>4, <1>5, <1>6

LEMMA ReadOnboardTyped ==
  ASSUME Typed(db, asaas), TasksFit, NEW t \in Slot, ReadOnboard(t)
  PROVE  TypeInv'
<1>1. /\ Has(t, "onboard") /\ Is(Todo(t)[1], "onboard") /\ Len(Todo(t)) - 1 \in Nat /\ Len(Todo(t)) \in Nat
      /\ At(task[t].op, task[t].on, Todo(t)[1], Len(Todo(t)) - 1, Todo(t)[Len(Todo(t))])
      /\ Listed(Tail(Todo(t)))
  BY HeadIs, FitTask DEF ReadOnboard
<1>2. <<>> \o Tail(Todo(t)) = Tail(Todo(t))
  BY <1>1, EmptyConcat
<1>3. CASE Look(t, Tail(Todo(t)))
  BY <1>1, <1>3, LookTyped
<1>4. CASE Look(t, <<AddCompany(db.tenant.plan)>> \o Tail(Todo(t)))
  <2> DEFINE x == AddCompany(db.tenant.plan)
             e == Len(Todo(t)) - 1
             y == Todo(t)[Len(Todo(t))]
             z == IF Len(Todo(t)) = 1 THEN x ELSE Todo(t)[Len(Todo(t))]
  <2>1. task[t].op = "cyclePaid" /\ e >= 1
    BY <1>1, AtOnboard
  <2>2. AtCyclePaid(task[t].on, Todo(t)[1], e, y)
    BY <1>1, <2>1 DEF At, Floorer, Applier, Upgrading
  <2>3. y.kind = "sub"
    BY <2>2 DEF AtCyclePaid, Is
  <2>a. z = y
    BY <2>1, <1>1
  <2>4. db.tenant.plan \in Plan
    BY TypedLens DEF TenantRow
  <2> HIDE DEF y, e
  <2>5. x.kind = "newCompany" /\ x.limit \in Plan
    BY <2>4 DEF AddCompany
  <2> HIDE DEF x
  <2>8. (IF Moving(y) THEN e - 2 ELSE e) = 1
    BY <1>1, <2>2, <2>3, <2>1 DEF AtCyclePaid, Is, Tenant
  <2>9. AtCyclePaid(task[t].on, x, e, y)
    BY <2>2, <2>5, <2>8 DEF AtCyclePaid, Is
  <2>6. Named(x, db, asaas)
    BY <2>5 DEF Named, Is
  <2>7. At(task[t].op, task[t].on, x, e, z)
    BY <2>1, <2>9, <2>a DEF At
  <2> QED
    BY <1>1, <1>4, <2>1, <2>6, <2>7, LookPut DEF x, e
<1> QED
  BY <1>2, <1>3, <1>4 DEF ReadOnboard

LEMMA ReadOthersTyped ==
  ASSUME Typed(db, asaas), TasksFit, NEW t \in Slot, ReadOthers(t)
  PROVE  TypeInv'
<1>1. /\ Has(t, "suspendAlone") /\ Is(Todo(t)[1], "suspendAlone") /\ Len(Todo(t)) - 1 \in Nat /\ Len(Todo(t)) \in Nat
      /\ At(task[t].op, task[t].on, Todo(t)[1], Len(Todo(t)) - 1, Todo(t)[Len(Todo(t))])
      /\ Listed(Tail(Todo(t)))
  BY HeadIs, FitTask DEF ReadOthers
<1>2. <<>> \o Tail(Todo(t)) = Tail(Todo(t))
  BY <1>1, EmptyConcat
<1>3. CASE Look(t, Tail(Todo(t)))
  BY <1>1, <1>3, LookTyped
<1>4. CASE Look(t, <<SetTenant([status |-> "SUSPENDED"])>> \o Tail(Todo(t)))
  <2> DEFINE x == SetTenant([status |-> "SUSPENDED"])
             e == Len(Todo(t)) - 1
             z == IF Len(Todo(t)) = 1 THEN x ELSE Todo(t)[Len(Todo(t))]
  <2>1. task[t].op = "extDeleted" /\ e = 0
    BY <1>1, AtSuspend
  <2>5. AtExtDeleted(task[t].on, x, e)
    BY <2>1 DEF AtExtDeleted, SetTenant, Is, Tenant
  <2>6. Named(x, db, asaas)
    BY DEF Named, Is, SetTenant
  <2>7. At(task[t].op, task[t].on, x, e, z)
    BY <2>1, <2>5 DEF At
  <2> HIDE DEF x, e
  <2> QED
    BY <1>1, <1>4, <2>1, <2>6, <2>7, LookPut DEF x, e
<1> QED
  BY <1>2, <1>3, <1>4 DEF ReadOthers

LEMMA InsertCompanyTyped ==
  ASSUME Typed(db, asaas), TasksFit, NEW t \in Slot, InsertCompany(t)
  PROVE  TypeInv'
<1> DEFINE w == Head(Todo(t))
           companies == Append(db.companies, w.limit)
           tables == [db EXCEPT !.companies = Append(@, w.limit)]
<1>1. Has(t, "newCompany") /\ Save(t, tables, Continue(t, Tail(Todo(t))))
  BY DEF InsertCompany, Write
<1>2. /\ w = Todo(t)[1] /\ Is(w, "newCompany")
      /\ At(task[t].op, task[t].on, w, Len(Todo(t)) - 1, Todo(t)[Len(Todo(t))]) /\ Len(Todo(t)) - 1 \in Nat
  BY <1>1, HeadIs
<1> HIDE DEF w
<1>3. w.limit \in Int
  <2>1. w.limit \in Plan
    BY <1>2, AtNewCompany
  <2> QED
    BY <2>1, PlanInt
<1>4. companies \in Seq(Int)
  BY <1>3, TypedLens, SeqAdd
<1>5. tables = [db EXCEPT !.companies = companies]
  <2>1. db = [subs |-> db.subs, tenant |-> db.tenant, companies |-> db.companies, purchases |-> db.purchases]
    BY TypedLens
  <2> QED
    BY ONLY <2>1
<1> HIDE DEF companies, tables
<1>6. Typed(tables, asaas) /\ Grows(db, tables)
  BY <1>4, <1>5, CompaniesWritten, Unwritten DEF Grows
<1> QED
  BY <1>1, <1>6, SaveFits, ContinueFits

LEMMA ActivateTyped ==
  ASSUME Typed(db, asaas), TasksFit, NEW t \in Slot, Activate(t)
  PROVE  TypeInv'
<1> DEFINE k == SubSeq(Todo(t), 4, Len(Todo(t)))
           row == [db.tenant EXCEPT !.status = "ACTIVE"]
           tables == [db EXCEPT !.tenant.status = "ACTIVE"]
<1>1. CASE Write(t, tables, Tail(Todo(t)))
  <2>1. Has(t, "activate") /\ Save(t, tables, Continue(t, Tail(Todo(t))))
    BY <1>1 DEF Activate, Write
  <2>2. row \in TenantRow
    BY TypedLens DEF TenantRow
  <2>3. tables = [db EXCEPT !.tenant = row]
    <3>1. db = [subs |-> db.subs, tenant |-> db.tenant, companies |-> db.companies, purchases |-> db.purchases]
      BY TypedLens
    <3> QED
      BY ONLY <3>1
  <2> HIDE DEF row, tables
  <2>4. Typed(tables, asaas) /\ Grows(db, tables)
    BY <2>2, <2>3, TenantWritten, Unwritten DEF Grows
  <2> QED
    BY <2>1, <2>4, SaveFits, ContinueFits
<1>2. CASE Write(t, db, k)
  <2>1. Has(t, "activate") /\ Save(t, db, Continue(t, k))
    BY <1>2 DEF Activate, Write
  <2>2. /\ Is(Todo(t)[1], "activate") /\ Len(Todo(t)) - 1 \in Nat /\ Len(Todo(t)) \in Nat
        /\ At(task[t].op, task[t].on, Todo(t)[1], Len(Todo(t)) - 1, Todo(t)[Len(Todo(t))])
    BY <2>1, HeadIs, FitTask
  <2>3. task[t].op = "cyclePaid" /\ Len(Todo(t)) >= 4
    BY <2>2, AtActivate
  <2>4. k # <<>> /\ Fits(t, [task[t] EXCEPT !.todo = k], db, asaas)
    BY <2>3, FitsDrop DEF Todo, TasksFit
  <2>5. Fits(t, Continue(t, k), db, asaas)
    BY <2>4 DEF Continue
  <2> HIDE DEF k
  <2> QED
    BY <2>1, <2>5, SelfGrows, SaveFits
<1> QED
  BY <1>1, <1>2 DEF Activate

(* Calls of the gateway.                                                   *)

LEMMA PostGrows ==
  ASSUME NEW g, NEW d, Typed(d, g), NEW h, h \in GatewayRows, Len(g.subs) <= Len(h.subs), Len(g.bills) <= Len(h.bills),
         NEW M, h.post = g.post \cup M, \A m \in M : MessageTyped(m, h)
  PROVE  \A m \in h.post : MessageTyped(m, h)
<1>1. /\ DOMAIN h.subs = 1 .. Len(h.subs) /\ Len(h.subs) \in Nat
      /\ DOMAIN h.bills = 1 .. Len(h.bills) /\ Len(h.bills) \in Nat
  BY LenProperties DEF GatewayRows
<1>2. DOMAIN g.subs \subseteq DOMAIN h.subs /\ DOMAIN g.bills \subseteq DOMAIN h.bills
  BY <1>1, TypedLens
<1>3. \A m \in g.post : MessageTyped(m, h)
  BY <1>2 DEF Typed, MessageTyped
<1> QED
  BY <1>3

LEMMA OpenedFields ==
  ASSUME NEW d, NEW g, Typed(d, g), NEW x, NEW m, NEW h, h = [g EXCEPT !.subs = x, !.post = @ \cup {m}]
  PROVE  h = [subs |-> x, bills |-> g.bills, post |-> g.post \cup {m}]
<1>0. g = [subs |-> g.subs, bills |-> g.bills, post |-> g.post]
  BY TypedLens
<1>h. h = [g EXCEPT !.subs = x, !.post = @ \cup {m}]
  OBVIOUS
<1>1. PICK a : a = [g EXCEPT !.subs = x]
  OBVIOUS
<1>2. a = [subs |-> x, bills |-> g.bills, post |-> g.post]
  BY ONLY <1>0, <1>1
<1>3. h = [a EXCEPT !.post = g.post \cup {m}]
  BY ONLY <1>h, <1>1, Zenon
<1> QED
  BY ONLY <1>2, <1>3

LEMMA BilledFields ==
  ASSUME NEW d, NEW g, Typed(d, g), NEW x, NEW m, NEW h, h = [g EXCEPT !.bills = x, !.post = @ \cup m]
  PROVE  h = [subs |-> g.subs, bills |-> x, post |-> g.post \cup m]
<1>0. g = [subs |-> g.subs, bills |-> g.bills, post |-> g.post]
  BY TypedLens
<1>h. h = [g EXCEPT !.bills = x, !.post = @ \cup m]
  OBVIOUS
<1>1. PICK a : a = [g EXCEPT !.bills = x]
  OBVIOUS
<1>2. a = [subs |-> g.subs, bills |-> x, post |-> g.post]
  BY ONLY <1>0, <1>1
<1>3. h = [a EXCEPT !.post = g.post \cup m]
  BY ONLY <1>h, <1>1, Zenon
<1> QED
  BY ONLY <1>2, <1>3

LEMMA ClosedFields ==
  ASSUME NEW d, NEW g, Typed(d, g), NEW x, NEW m, NEW h, h = [g EXCEPT !.subs[x] = FALSE, !.post = @ \cup {m}]
  PROVE  h = [subs |-> [g.subs EXCEPT ![x] = FALSE], bills |-> g.bills, post |-> g.post \cup {m}]
<1>0. g = [subs |-> g.subs, bills |-> g.bills, post |-> g.post]
  BY TypedLens
<1>h. h = [g EXCEPT !.subs[x] = FALSE, !.post = @ \cup {m}]
  OBVIOUS
<1>1. PICK a : a = [g EXCEPT !.subs[x] = FALSE]
  OBVIOUS
<1>2. a = [subs |-> [g.subs EXCEPT ![x] = FALSE], bills |-> g.bills, post |-> g.post]
  BY ONLY <1>0, <1>1
<1>3. h = [a EXCEPT !.post = g.post \cup {m}]
  BY ONLY <1>h, <1>1, Zenon
<1> QED
  BY ONLY <1>2, <1>3

LEMMA ExtOpened ==
  ASSUME NEW d, NEW g, Typed(d, g)
  PROVE  LET n == Len(g.subs) + 1
             h == [g EXCEPT !.subs = Append(@, TRUE), !.post = @ \cup {Message("SUBSCRIPTION_CREATED", n)}]
         IN /\ Typed(d, h) /\ h.subs = Append(g.subs, TRUE) /\ Len(h.subs) = n /\ n \in DOMAIN h.subs
            /\ DOMAIN g.subs \subseteq DOMAIN h.subs /\ Len(g.subs) <= Len(h.subs) /\ Len(h.subs) \in Nat
<1> DEFINE n == Len(g.subs) + 1
           subs == Append(g.subs, TRUE)
           m == Message("SUBSCRIPTION_CREATED", n)
           post == g.post \cup {m}
           h == [g EXCEPT !.subs = Append(@, TRUE), !.post = @ \cup {Message("SUBSCRIPTION_CREATED", n)}]
<1>0. h = [g EXCEPT !.subs = subs, !.post = @ \cup {m}]
  OBVIOUS
<1>1. TRUE \in BOOLEAN
  OBVIOUS
<1>2. /\ subs \in Seq(BOOLEAN) /\ DOMAIN subs = DOMAIN g.subs \cup {n} /\ Len(subs) = n
      /\ n \in Nat /\ Len(g.subs) <= n
  BY <1>1, TypedLens, SeqAdd
<1>3. m = [event |-> "SUBSCRIPTION_CREATED", of |-> n]
  BY DEF Message
<1> HIDE DEF n, subs, m, h
<1>4. h = [subs |-> subs, bills |-> g.bills, post |-> post]
  BY <1>0, OpenedFields
<1>5. m \in [event : OfPayment \cup OfSubscription, of : Nat]
  BY <1>2, <1>3 DEF OfPayment, OfSubscription
<1>6. post \subseteq [event : OfPayment \cup OfSubscription, of : Nat]
  BY <1>5, TypedLens
<1> HIDE DEF post
<1>7. h \in GatewayRows
  BY <1>2, <1>4, <1>6, TypedLens DEF GatewayRows
<1>8. DOMAIN g.subs \subseteq DOMAIN h.subs /\ n \in DOMAIN h.subs /\ h.bills = g.bills /\ h.post = g.post \cup {m}
  BY <1>2, <1>4 DEF post
<1>9. MessageTyped(m, h)
  BY <1>3, <1>8 DEF MessageTyped, OfPayment
<1>10. \A x \in h.post : MessageTyped(x, h)
  BY <1>8, <1>9, TypedLens DEF Typed, MessageTyped
<1>11. \A b \in DOMAIN h.bills : BillTyped(h.bills[b], d, h)
  BY <1>8 DEF Typed, BillTyped
<1>12. Typed(d, h)
  BY <1>2, <1>4, <1>7, <1>8, <1>10, <1>11, GatewayChanged
<1> QED
  BY <1>2, <1>4, <1>8, <1>12 DEF n, subs, m, h

LEMMA ExtClosed ==
  ASSUME NEW d, NEW g, Typed(d, g), NEW x \in DOMAIN g.subs
  PROVE  LET h == [g EXCEPT !.subs[x] = FALSE, !.post = @ \cup {Message("SUBSCRIPTION_DELETED", x)}]
         IN /\ Typed(d, h) /\ h.subs = [g.subs EXCEPT ![x] = FALSE] /\ DOMAIN h.subs = DOMAIN g.subs /\ Len(h.subs) = Len(g.subs)
            /\ h.bills = g.bills
<1> DEFINE subs == [g.subs EXCEPT ![x] = FALSE]
           m == Message("SUBSCRIPTION_DELETED", x)
           post == g.post \cup {m}
           h == [g EXCEPT !.subs[x] = FALSE, !.post = @ \cup {Message("SUBSCRIPTION_DELETED", x)}]
<1>0. h = [g EXCEPT !.subs[x] = FALSE, !.post = @ \cup {m}]
  OBVIOUS
<1>1. FALSE \in BOOLEAN
  OBVIOUS
<1>2. subs \in Seq(BOOLEAN) /\ DOMAIN subs = DOMAIN g.subs /\ Len(subs) = Len(g.subs)
  BY <1>1, TypedLens, SeqPut
<1>3. m = [event |-> "SUBSCRIPTION_DELETED", of |-> x]
  BY DEF Message
<1> HIDE DEF m, h
<1>4. h = [subs |-> subs, bills |-> g.bills, post |-> post]
  BY <1>0, ClosedFields
<1> HIDE DEF subs
<1>5. m \in [event : OfPayment \cup OfSubscription, of : Nat]
  BY <1>3, TypedLens DEF OfPayment, OfSubscription
<1>6. post \subseteq [event : OfPayment \cup OfSubscription, of : Nat]
  BY <1>5, TypedLens
<1> HIDE DEF post
<1>7. h \in GatewayRows
  BY <1>2, <1>4, <1>6, TypedLens DEF GatewayRows
<1>8. DOMAIN h.subs = DOMAIN g.subs /\ h.bills = g.bills /\ h.post = g.post \cup {m}
  BY <1>2, <1>4 DEF post
<1>9. MessageTyped(m, h)
  BY <1>3, <1>8 DEF MessageTyped, OfPayment
<1>10. \A y \in h.post : MessageTyped(y, h)
  BY <1>8, <1>9, TypedLens DEF Typed, MessageTyped
<1>11. \A b \in DOMAIN h.bills : BillTyped(h.bills[b], d, h)
  BY <1>8 DEF Typed, BillTyped
<1>12. Typed(d, h)
  <2>1. Len(g.subs) <= Len(h.subs)
    BY <1>2, <1>4, TypedLens
  <2> QED
    BY <2>1, <1>7, <1>8, <1>10, <1>11, GatewayChanged
<1> QED
  BY <1>2, <1>4, <1>8, <1>12 DEF subs, m, h

LEMMA BillAdded ==
  ASSUME NEW d, NEW g, Typed(d, g), NEW b \in BillRow, BillTyped(b, d, g)
  PROVE  LET h == [g EXCEPT !.bills = Append(@, b)]
         IN Typed(d, h) /\ h.subs = g.subs /\ h.post = g.post /\ h.bills = Append(g.bills, b)
<1> DEFINE bills == Append(g.bills, b)
           h == [g EXCEPT !.bills = Append(@, b)]
<1>0. g = [subs |-> g.subs, bills |-> g.bills, post |-> g.post]
  BY TypedLens
<1>2. /\ bills \in Seq(BillRow) /\ DOMAIN bills = DOMAIN g.bills \cup {Len(g.bills) + 1}
      /\ bills[Len(g.bills) + 1] = b /\ \A j \in DOMAIN g.bills : bills[j] = g.bills[j]
  BY TypedLens, SeqAdd
<1>4. h = [subs |-> g.subs, bills |-> bills, post |-> g.post]
  BY ONLY <1>0
<1> HIDE DEF bills, h
<1>7. h \in GatewayRows
  BY <1>2, <1>4, TypedLens DEF GatewayRows
<1>8. h.subs = g.subs /\ h.post = g.post /\ DOMAIN g.bills \subseteq DOMAIN h.bills
  BY <1>2, <1>4
<1>10. \A y \in h.post : MessageTyped(y, h)
  BY <1>8 DEF Typed, MessageTyped
<1>11. \A c \in DOMAIN h.bills : BillTyped(h.bills[c], d, h)
  BY <1>2, <1>4, <1>8 DEF Typed, BillTyped
<1>12. Typed(d, h)
  <2>1. Len(g.subs) <= Len(h.subs)
    BY <1>8, TypedLens
  <2> QED
    BY <2>1, <1>7, <1>8, <1>10, <1>11, GatewayChanged
<1> QED
  BY <1>4, <1>8, <1>12 DEF bills, h

(* The handler in slot t is at r after it, and the others as they were.    *)
LEMMA CallFits ==
  ASSUME Typed(db, asaas), TasksFit, NEW t \in Slot, NEW r, NEW h, asaas' = h, db' = db, task' = [task EXCEPT ![t] = r],
         DOMAIN asaas.subs \subseteq DOMAIN h.subs, Len(asaas.subs) <= Len(h.subs), Typed(db, h), Fits(t, r, db, h)
  PROVE  TypeInv'
<1>1. Len(asaas.subs) \in Nat /\ Len(h.subs) \in Nat
  BY TypedLens
<1>2. DOMAIN task = Slot /\ Slot' = Slot
  BY DEF TasksFit, Slot, Cron
<1>3. ASSUME NEW u \in Slot \ {t} PROVE Fits(u, task'[u], db, h)
  <2>1. Kept(u)
    BY <1>2 DEF Kept
  <2> QED
    BY <1>1, <2>1, SelfGrows, KeptFits
<1>4. DOMAIN task' = Slot /\ task'[t] = r
  BY <1>2
<1>5. TasksFit'
  BY <1>2, <1>3, <1>4 DEF TasksFit
<1> QED
  BY <1>5 DEF TypeInv

LEMMA OpenExtTyped ==
  ASSUME Typed(db, asaas), TasksFit, NEW t \in Slot, OpenExt(t)
  PROVE  TypeInv'
<1> DEFINE n == Len(asaas.subs) + 1
           h == [asaas EXCEPT !.subs = Append(@, TRUE), !.post = @ \cup {Message("SUBSCRIPTION_CREATED", n)}]
           p == [task[t] EXCEPT !.todo = Tail(@)]
           r == [p EXCEPT !.ext = n]
<1>1. Has(t, "createExt") /\ asaas' = h /\ db' = db
  BY DEF OpenExt, CallGateway
<1>0. /\ IsTask(task[t]) /\ Fits(t, task[t], db, asaas) /\ DOMAIN task = Slot
      /\ task[t] = [op |-> task[t].op, todo |-> task[t].todo, row |-> task[t].row, ext |-> task[t].ext,
                    on |-> task[t].on, stale |-> task[t].stale]
  BY FitTask DEF TasksFit, IsTask
<1>2. task' = [task EXCEPT ![t] = r]
  <2>1. task' = [task EXCEPT ![t].todo = Tail(@), ![t].ext = n]
    BY DEF OpenExt
  <2> QED
    BY <2>1, <1>0
<1>3. /\ Typed(db, h) /\ Len(h.subs) = n /\ n \in DOMAIN h.subs
      /\ DOMAIN asaas.subs \subseteq DOMAIN h.subs /\ Len(asaas.subs) <= Len(h.subs) /\ Len(h.subs) \in Nat
  BY ExtOpened
<1>4. /\ Is(Todo(t)[1], "createExt") /\ Len(Todo(t)) - 1 \in Nat /\ Todo(t) # <<>>
      /\ At(task[t].op, task[t].on, Todo(t)[1], Len(Todo(t)) - 1, Todo(t)[Len(Todo(t))])
      /\ Len(Tail(Todo(t))) = Len(Todo(t)) - 1
  BY <1>1, HeadIs
<1>5. Tail(Todo(t)) # <<>>
  <2>1. Len(Todo(t)) - 1 >= 2
    BY <1>4, AtCreateExt
  <2>2. Len(Tail(Todo(t))) >= 2 /\ Len(<<>>) = 0
    BY <1>4, <2>1
  <2> QED
    BY <2>2
<1>6. Fits(t, p, db, asaas)
  BY <1>0, <1>4, <1>5, FitsTail DEF Todo, Is
<1>7. p.todo # <<>>
  BY <1>0, <1>5 DEF Todo
<1> HIDE DEF p, h, n
<1>8. Fits(t, p, db, h)
  BY <1>6, <1>3, SelfGrows, FitsGrow, TypedLens DEF Grows
<1>9. Fits(t, r, db, h)
  <2>1. n \in 0 .. Len(h.subs)
    BY <1>3, TypedLens DEF n
  <2> QED
    BY <1>3, <1>7, <1>8, <2>1, FitsExt
<1> HIDE DEF r
<1> QED
  BY <1>1, <1>2, <1>3, <1>9, CallFits

LEMMA CloseExtTyped ==
  ASSUME Typed(db, asaas), TasksFit, NEW t \in Slot, CloseExt(t)
  PROVE  TypeInv'
<1> DEFINE x == Head(Todo(t)).ext
           h == IF asaas.subs[x]
                THEN [asaas EXCEPT !.subs[x] = FALSE, !.post = @ \cup {Message("SUBSCRIPTION_DELETED", x)}]
                ELSE asaas
           p == [task[t] EXCEPT !.todo = Tail(@)]
<1>1. Has(t, "cancelExt") /\ asaas' = h /\ db' = db
  BY DEF CloseExt, CallGateway
<1>0. /\ IsTask(task[t]) /\ Fits(t, task[t], db, asaas) /\ DOMAIN task = Slot
  BY FitTask DEF TasksFit
<1>2. task' = [task EXCEPT ![t] = p]
  BY <1>0 DEF CloseExt
<1>4. /\ Is(Todo(t)[1], "cancelExt") /\ Len(Todo(t)) - 1 \in Nat /\ Todo(t) # <<>> /\ Head(Todo(t)) = Todo(t)[1]
      /\ At(task[t].op, task[t].on, Todo(t)[1], Len(Todo(t)) - 1, Todo(t)[Len(Todo(t))])
      /\ Len(Tail(Todo(t))) = Len(Todo(t)) - 1 /\ Named(Todo(t)[1], db, asaas)
  BY <1>1, HeadIs
<1>3. x \in DOMAIN asaas.subs
  BY <1>4 DEF Named
<1>5. Tail(Todo(t)) # <<>>
  <2>1. Len(Todo(t)) - 1 = 6
    BY <1>4, AtCancelExt
  <2> DEFINE k == Tail(Todo(t))
  <2>2. Len(k) = 6
    BY <1>4, <2>1
  <2> HIDE DEF k
  <2>3. k # <<>>
    BY ONLY <2>2
  <2> QED
    BY <2>3 DEF k
<1>6. Fits(t, p, db, asaas)
  BY <1>0, <1>4, <1>5, FitsTail DEF Todo, Is
<1> HIDE DEF x
<1>7. Typed(db, h) /\ DOMAIN h.subs = DOMAIN asaas.subs /\ Len(h.subs) = Len(asaas.subs)
  <2> DEFINE closed == [asaas EXCEPT !.subs[x] = FALSE, !.post = @ \cup {Message("SUBSCRIPTION_DELETED", x)}]
  <2>0. Typed(db, closed) /\ DOMAIN closed.subs = DOMAIN asaas.subs /\ Len(closed.subs) = Len(asaas.subs)
    BY <1>3, ExtClosed
  <2> HIDE DEF closed
  <2>a. h = IF asaas.subs[x] THEN closed ELSE asaas
    BY DEF closed
  <2> HIDE DEF h
  <2>1. CASE asaas.subs[x]
    BY <2>0, <2>1, <2>a
  <2>2. CASE ~asaas.subs[x]
    BY <2>2, <2>a
  <2> QED
    BY <2>1, <2>2
<1> HIDE DEF p, h
<1>8. Fits(t, p, db, h) /\ Len(asaas.subs) <= Len(h.subs)
  BY <1>6, <1>7, SelfGrows, FitsGrow, TypedLens DEF Grows
<1> QED
  BY <1>1, <1>2, <1>7, <1>8, CallFits

LEMMA OpenBillTyped ==
  ASSUME Typed(db, asaas), TasksFit, NEW t \in Slot, OpenBill(t)
  PROVE  TypeInv'
<1> DEFINE b == Head(Todo(t)).bill
           bill == IF b.of = None THEN [b EXCEPT !.of = task[t].row] ELSE b
           h == [asaas EXCEPT !.bills = Append(@, bill)]
           r == Continue(t, Tail(Todo(t)))
<1>1. Has(t, "charge") /\ asaas' = h /\ db' = db /\ task' = [task EXCEPT ![t] = r]
  BY DEF OpenBill, CallGateway
<1>2. /\ Is(Todo(t)[1], "charge") /\ Len(Todo(t)) - 1 \in Nat /\ Head(Todo(t)) = Todo(t)[1]
      /\ At(task[t].op, task[t].on, Todo(t)[1], Len(Todo(t)) - 1, Todo(t)[Len(Todo(t))])
      /\ Named(Todo(t)[1], db, asaas)
  BY <1>1, HeadIs
<1>3. bill \in BillRow /\ BillTyped(bill, db, asaas)
  <2>1. CASE task[t].op \in Upgrading /\ \E plan \in Plan : b = Bill("upgrade", task[t].on, plan)
    <3>1. PICK plan \in Plan : b = Bill("upgrade", task[t].on, plan)
      BY <2>1
    <3>2. b = [for |-> "upgrade", of |-> task[t].on, plan |-> plan, status |-> "open"]
      BY <3>1 DEF Bill
    <3>3. b.of \in DOMAIN db.subs
      BY <1>2, <3>2 DEF Named
    <3>4. b.of \in Nat /\ b.of # None
      BY <3>3, TypedLens DEF None
    <3>5. bill = b
      BY <3>4
    <3> QED
      BY <3>2, <3>3, <3>4, <3>5 DEF BillRow, BillTyped
  <2>2. CASE task[t].op = "buyAddOn" /\ b = Bill("addon", None, None)
    <3>1. b = [for |-> "addon", of |-> None, plan |-> None, status |-> "open"]
      BY <2>2 DEF Bill
    <3>2. task[t].row \in DOMAIN db.purchases
      BY <1>2, <2>2 DEF TasksFit, Fits, Is, Todo
    <3> HIDE DEF b
    <3>3. bill = [for |-> "addon", of |-> task[t].row, plan |-> None, status |-> "open"]
      <4>1. b.of = None
        BY <3>1
      <4>2. bill = [b EXCEPT !.of = task[t].row]
        BY <4>1
      <4> QED
        BY <3>1, <4>2
    <3>4. task[t].row \in Nat
      BY <3>2, TypedLens
    <3> HIDE DEF bill
    <3> QED
      BY <3>2, <3>3, <3>4 DEF BillRow, BillTyped
  <2> QED
    BY <1>2, <2>1, <2>2, AtCharge
<1> HIDE DEF bill
<1>4. Typed(db, h) /\ h.subs = asaas.subs
  BY <1>3, BillAdded
<1>5. Fits(t, r, db, asaas) /\ Len(asaas.subs) \in Nat
  BY <1>1, ContinueFits, TypedLens
<1> HIDE DEF r, h
<1>6. Fits(t, r, db, h)
  BY <1>4, <1>5, SelfGrows, FitsGrow DEF Grows
<1>7. DOMAIN asaas.subs \subseteq DOMAIN h.subs /\ Len(asaas.subs) <= Len(h.subs)
  BY <1>4, <1>5
<1> QED
  BY <1>1, <1>4, <1>6, <1>7, CallFits

LEMMA StepTyped ==
  ASSUME Typed(db, asaas), TasksFit, NEW t \in Slot, Step(t)
  PROVE  TypeInv'
  BY WriteSubTyped, WriteTenantTyped, WritePurchaseTyped, InsertRowTyped, LinkTyped, WriteLimitTyped, ReadFloorTyped,
     CheckFloorTyped, ActivateTyped, ReadOnboardTyped, InsertCompanyTyped, ReadOthersTyped, OpenExtTyped, CloseExtTyped, OpenBillTyped
  DEF Step

----------------------------------------------------------------------------
(* The gateway, and time: no handler goes on.                              *)

LEMMA OthersFit ==
  ASSUME Typed(db, asaas), TasksFit, task' = task, Typed(db', asaas'), Grows(db, db'), Len(asaas.subs) <= Len(asaas'.subs)
  PROVE  TypeInv'
<1>1. Len(asaas.subs) \in Nat /\ Len(asaas'.subs) \in Nat /\ DOMAIN asaas.subs \subseteq DOMAIN asaas'.subs
  <2>1. /\ Len(asaas.subs) \in Nat /\ DOMAIN asaas.subs = 1 .. Len(asaas.subs)
        /\ Len(asaas'.subs) \in Nat /\ DOMAIN asaas'.subs = 1 .. Len(asaas'.subs)
    BY TypedLens
  <2> QED
    BY <2>1
<1>2. Slot' = Slot
  BY DEF Slot, Cron
<1>3. \A u \in Slot : Fits(u, task[u], db', asaas')
  BY <1>1, FitsGrow DEF TasksFit, Grows
<1>4. TasksFit'
  BY <1>2, <1>3 DEF TasksFit
<1> QED
  BY <1>4 DEF TypeInv

(* A bill b is paid or missed, and the webhooks M say so.                  *)
Rebilled(g, h, b, bills, M) ==
  /\ b \in DOMAIN g.bills /\ M \in SUBSET [event : OfPayment, of : {b}]
  /\ bills \in Seq(BillRow) /\ DOMAIN bills = DOMAIN g.bills
  /\ \A c \in DOMAIN bills : bills[c].for = g.bills[c].for /\ bills[c].of = g.bills[c].of /\ bills[c].plan = g.bills[c].plan
  /\ h = [subs |-> g.subs, bills |-> bills, post |-> g.post \cup M]

LEMMA BillChanged ==
  ASSUME NEW d, NEW g, Typed(d, g), NEW b, NEW M, NEW h, NEW bills, Rebilled(g, h, b, bills, M)
  PROVE  Typed(d, h) /\ h.subs = g.subs
<1>a. /\ M \in SUBSET [event : OfPayment, of : {b}]
      /\ \A c \in DOMAIN bills : bills[c].for = g.bills[c].for /\ bills[c].of = g.bills[c].of /\ bills[c].plan = g.bills[c].plan
  BY DEF Rebilled
<1>6. h = [subs |-> g.subs, bills |-> bills, post |-> g.post \cup M]
  BY DEF Rebilled
<1>4. bills \in Seq(BillRow) /\ DOMAIN bills = DOMAIN g.bills /\ b \in DOMAIN g.bills
  BY DEF Rebilled
<1>7. h.subs = g.subs /\ h.bills = bills /\ h.post = g.post \cup M
  BY ONLY <1>6
<1>8. h.post \subseteq [event : OfPayment \cup OfSubscription, of : Nat]
  <2>1. ASSUME NEW m \in M PROVE m \in [event : OfPayment \cup OfSubscription, of : Nat]
    BY <1>a, <2>1, <1>4, TypedLens
  <2> QED
    BY <2>1, <1>7, TypedLens
<1>9. h \in GatewayRows
  BY <1>4, <1>6, <1>7, <1>8, TypedLens DEF GatewayRows
<1>10. ASSUME NEW m \in h.post PROVE MessageTyped(m, h)
  <2>1. CASE m \in g.post
    BY <2>1, <1>4, <1>7 DEF Typed, MessageTyped
  <2>2. CASE m \in M
    <3>1. m.event \in OfPayment /\ m.of = b
      BY <2>2, <1>a
    <3>2. OfPayment \cap OfSubscription = {}
      BY DEF OfPayment, OfSubscription
    <3> QED
      BY <3>1, <3>2, <1>4, <1>7 DEF MessageTyped
  <2> QED
    BY <2>1, <2>2, <1>7
<1>11. \A c \in DOMAIN h.bills : BillTyped(h.bills[c], d, h)
  <2>1. ASSUME NEW c \in DOMAIN bills PROVE BillTyped(bills[c], d, h)
    <3>1. BillTyped(g.bills[c], d, g) /\ bills[c].for = g.bills[c].for /\ bills[c].of = g.bills[c].of /\ bills[c].plan = g.bills[c].plan
      BY <1>a, <1>4 DEF Typed
    <3> QED
      BY <3>1, <1>7 DEF BillTyped
  <2> QED
    BY <2>1, <1>7
<1>12. Typed(d, h)
  <2>1. Len(g.subs) <= Len(h.subs)
    BY <1>7, TypedLens
  <2> QED
    BY <2>1, <1>4, <1>7, <1>9, <1>10, <1>11, GatewayChanged
<1> QED
  BY <1>7, <1>12

LEMMA GatewayTyped ==
  ASSUME Typed(db, asaas), TasksFit, Gateway
  PROVE  TypeInv'
<1>0. db' = db /\ task' = task
  BY DEF Gateway
<1>a. Len(asaas.subs) \in Nat
  BY TypedLens
<1>1. CASE \E x \in DOMAIN asaas.subs : BillCycle(x)
  <2>1. PICK x \in DOMAIN asaas.subs : asaas' = [asaas EXCEPT !.bills = Append(@, Bill("cycle", x, None))]
    BY <1>1 DEF BillCycle
  <2> DEFINE b == Bill("cycle", x, None)
  <2>2. b \in BillRow /\ BillTyped(b, db, asaas)
    BY TypedLens DEF Bill, BillRow, BillTyped
  <2> HIDE DEF b
  <2>3. asaas' = [asaas EXCEPT !.bills = Append(@, b)]
    BY <2>1 DEF b
  <2>4. Typed(db, asaas') /\ asaas'.subs = asaas.subs
    BY <2>2, <2>3, BillAdded
  <2> QED
    BY <1>0, <1>a, <2>4, SelfGrows, OthersFit
<1>2. CASE \E x \in DOMAIN asaas.subs : EndExt(x)
  <2>1. PICK x \in DOMAIN asaas.subs : EndExt(x)
    BY <1>2
  <2> DEFINE h == [asaas EXCEPT !.subs[x] = FALSE, !.post = @ \cup {Message("SUBSCRIPTION_DELETED", x)}]
  <2>2. asaas' = h
    BY <2>1 DEF EndExt
  <2>3. Typed(db, h) /\ Len(h.subs) = Len(asaas.subs)
    BY ExtClosed
  <2> HIDE DEF h
  <2> QED
    BY <1>0, <1>a, <2>2, <2>3, SelfGrows, OthersFit
<1>3. CASE \E b \in DOMAIN asaas.bills, status \in {"paid", "missed"}, E \in SUBSET OfPayment :
             asaas' = [asaas EXCEPT !.bills[b].status = status, !.post = @ \cup {Message(e, b) : e \in E}]
  <2>1. PICK b \in DOMAIN asaas.bills, status \in {"paid", "missed"}, E \in SUBSET OfPayment :
             asaas' = [asaas EXCEPT !.bills[b].status = status, !.post = @ \cup {Message(e, b) : e \in E}]
    BY <1>3
  <2>m. PICK M : M = {Message(e, b) : e \in E}
    OBVIOUS
  <2>2. M \in SUBSET [event : OfPayment, of : {b}]
    BY <2>m, TypedLens DEF Message
  <2>3. asaas' = [asaas EXCEPT !.bills[b].status = status, !.post = @ \cup M]
    BY <2>1, <2>m
  <2>4. Typed(db, asaas') /\ asaas'.subs = asaas.subs
    <3>0. asaas.bills[b] \in BillRow /\ asaas.bills \in Seq(BillRow)
      BY TypedLens, ElementOfSeq
    <3>1. PICK h : h = asaas'
      OBVIOUS
    <3>a. PICK bill : bill = [asaas.bills[b] EXCEPT !.status = status]
      OBVIOUS
    <3>b. PICK bills : bills = [asaas.bills EXCEPT ![b] = bill]
      OBVIOUS
    <3>2. h = [asaas EXCEPT !.bills = bills, !.post = @ \cup M]
      BY ONLY <2>3, <3>1, <3>a, <3>b, Zenon
    <3>3. h = [subs |-> asaas.subs, bills |-> bills, post |-> asaas.post \cup M]
      BY ONLY Typed(db, asaas), <3>2, BilledFields, Zenon
    <3>5. bill \in BillRow /\ bill.for = asaas.bills[b].for /\ bill.of = asaas.bills[b].of /\ bill.plan = asaas.bills[b].plan
      BY <3>0, <3>a DEF BillRow
    <3>6. /\ bills \in Seq(BillRow) /\ DOMAIN bills = DOMAIN asaas.bills
          /\ bills[b] = bill /\ \A c \in DOMAIN asaas.bills : c # b => bills[c] = asaas.bills[c]
      BY <3>0, <3>5, <3>b, SeqPut
    <3>7. \A c \in DOMAIN bills : /\ bills[c].for = asaas.bills[c].for /\ bills[c].of = asaas.bills[c].of
                                  /\ bills[c].plan = asaas.bills[c].plan
      BY <3>5, <3>6
    <3>4. Typed(db, h) /\ h.subs = asaas.subs
      <4>1. Rebilled(asaas, h, b, bills, M)
        BY <2>2, <3>3, <3>6, <3>7 DEF Rebilled
      <4> QED
        BY <4>1, BillChanged
    <3> QED
      BY <3>1, <3>4
  <2> QED
    BY <1>0, <1>a, <2>4, SelfGrows, OthersFit
<1>4. ASSUME NEW b \in DOMAIN asaas.bills,
             \/ \E events \in {{"PAYMENT_RECEIVED"}, {"PAYMENT_CONFIRMED", "PAYMENT_RECEIVED"}} : PayBill(b, events)
             \/ MissBill(b)
      PROVE  \E status \in {"paid", "missed"}, E \in SUBSET OfPayment :
               asaas' = [asaas EXCEPT !.bills[b].status = status, !.post = @ \cup {Message(e, b) : e \in E}]
  <2>1. CASE \E events \in {{"PAYMENT_RECEIVED"}, {"PAYMENT_CONFIRMED", "PAYMENT_RECEIVED"}} : PayBill(b, events)
    <3>1. PICK events \in {{"PAYMENT_RECEIVED"}, {"PAYMENT_CONFIRMED", "PAYMENT_RECEIVED"}} : PayBill(b, events)
      BY <2>1
    <3>2. events \in SUBSET OfPayment
      BY DEF OfPayment
    <3> QED
      BY <3>1, <3>2 DEF PayBill
  <2>2. CASE MissBill(b)
    <3>1. {"PAYMENT_OVERDUE"} \in SUBSET OfPayment
      BY DEF OfPayment
    <3>2. {Message(e, b) : e \in {"PAYMENT_OVERDUE"}} = {Message("PAYMENT_OVERDUE", b)}
      OBVIOUS
    <3>3. asaas' = [asaas EXCEPT !.bills[b].status = "missed", !.post = @ \cup {Message("PAYMENT_OVERDUE", b)}]
      BY <2>2 DEF MissBill
    <3>4. asaas' = [asaas EXCEPT !.bills[b].status = "missed", !.post = @ \cup {Message(e, b) : e \in {"PAYMENT_OVERDUE"}}]
      BY <3>2, <3>3
    <3> QED
      BY <3>1, <3>4
  <2> QED
    BY <1>4, <2>1, <2>2
<1> QED
  BY <1>1, <1>2, <1>3, <1>4 DEF Gateway

LEMMA RowWritten ==
  ASSUME NEW d, NEW g, Typed(d, g), NEW i \in DOMAIN d.subs, NEW row \in SubRow, SubTyped(row, g)
  PROVE  Typed([d EXCEPT !.subs[i] = row], g) /\ Grows(d, [d EXCEPT !.subs[i] = row])
<1> DEFINE subs == [d.subs EXCEPT ![i] = row]
           e == [d EXCEPT !.subs[i] = row]
<1>0. d = [subs |-> d.subs, tenant |-> d.tenant, companies |-> d.companies, purchases |-> d.purchases]
  BY TypedLens
<1>3. /\ subs \in Seq(SubRow) /\ DOMAIN subs = DOMAIN d.subs
      /\ subs[i] = row /\ \A j \in DOMAIN d.subs : j # i => subs[j] = d.subs[j]
  BY TypedLens, SeqPut
<1>4. e = [subs |-> subs, tenant |-> d.tenant, companies |-> d.companies, purchases |-> d.purchases]
  BY ONLY <1>0
<1> HIDE DEF subs, e
<1>5. e \in Tables
  BY <1>3, <1>4, TypedLens DEF Tables
<1>6. \A j \in DOMAIN e.subs : SubTyped(e.subs[j], g)
  BY <1>3, <1>4 DEF Typed
<1>7. Typed(e, g) /\ Grows(d, e)
  BY <1>3, <1>4, <1>5, <1>6 DEF Typed, BillTyped, Grows
<1> QED
  BY <1>7 DEF e

LEMMA TimeTyped ==
  ASSUME Typed(db, asaas), TasksFit, Time
  PROVE  TypeInv'
<1>0. asaas' = asaas /\ task' = task
  BY DEF Time
<1>a. Len(asaas.subs) <= Len(asaas.subs)
  BY TypedLens
<1>b. db = [subs |-> db.subs, tenant |-> db.tenant, companies |-> db.companies, purchases |-> db.purchases]
  BY TypedLens
<1>1. ASSUME NEW i \in DOMAIN db.subs, NEW row \in SubRow, SubTyped(row, asaas), db' = [db EXCEPT !.subs[i] = row] PROVE TypeInv'
  <2>1. Typed(db', asaas) /\ Grows(db, db')
    BY <1>1, RowWritten
  <2> QED
    BY <1>0, <1>a, <2>1, OthersFit
<1>2. CASE \E i \in DOMAIN db.subs : GraceEnds(i)
  <2>1. PICK i \in DOMAIN db.subs : db.subs[i].overdue = "recent" /\ db' = [db EXCEPT !.subs[i].overdue = "late"]
    BY <1>2 DEF GraceEnds
  <2>2. db.subs[i] \in SubRow /\ SubTyped(db.subs[i], asaas)
    BY TypedLens, ElementOfSeq DEF Typed
  <2>3. PICK row : row = [db.subs[i] EXCEPT !.overdue = "late"]
    OBVIOUS
  <2>4. row \in SubRow /\ SubTyped(row, asaas)
    BY <2>2, <2>3 DEF SubRow, SubTyped
  <2>5. db' = [db EXCEPT !.subs[i] = row]
    BY ONLY <2>1, <2>3, Zenon
  <2> QED
    BY <2>4, <2>5, <1>1
<1>3. CASE \E i \in DOMAIN db.subs : db.subs[i].pending # None /\ ~db.subs[i].due /\ db' = [db EXCEPT !.subs[i].due = TRUE]
  <2>1. PICK i \in DOMAIN db.subs : db.subs[i].pending # None /\ db' = [db EXCEPT !.subs[i].due = TRUE]
    BY <1>3
  <2>2. db.subs[i] \in SubRow /\ SubTyped(db.subs[i], asaas)
    BY TypedLens, ElementOfSeq DEF Typed
  <2>3. PICK row : row = [db.subs[i] EXCEPT !.due = TRUE]
    OBVIOUS
  <2>4. row \in SubRow /\ SubTyped(row, asaas)
    BY <2>1, <2>2, <2>3 DEF SubRow, SubTyped
  <2>5. db' = [db EXCEPT !.subs[i] = row]
    BY ONLY <2>1, <2>3, Zenon
  <2> QED
    BY <2>4, <2>5, <1>1
<1>4. CASE \E p \in PaidAddOns : ~db.purchases[p].due /\ db' = [db EXCEPT !.purchases[p].due = TRUE]
  <2>1. PICK p \in DOMAIN db.purchases : db' = [db EXCEPT !.purchases[p].due = TRUE]
    BY <1>4 DEF PaidAddOns
  <2>2. db.purchases[p] \in PurchaseRow
    BY TypedLens, ElementOfSeq
  <2>3. PICK row : row = [db.purchases[p] EXCEPT !.due = TRUE]
    OBVIOUS
  <2>4. row \in PurchaseRow /\ row.sub = db.purchases[p].sub
    BY <2>2, <2>3 DEF PurchaseRow
  <2>5. db' = [db EXCEPT !.purchases[p] = row]
    BY ONLY <2>1, <2>3, Zenon
  <2>6. Typed(db', asaas)
    BY <2>4, <2>5, PurchaseWritten
  <2>7. Grows(db, db')
    BY ONLY <1>b, <2>5 DEF Grows
  <2> QED
    BY <1>0, <1>a, <2>6, <2>7, OthersFit
<1> QED
  BY <1>2, <1>3, <1>4 DEF Time

LEMMA HaltTyped ==
  ASSUME Typed(db, asaas), NEW t \in Slot, Halt(t)
  PROVE  TypeInv'
  BY DEF Halt, Fail, TypeInv

----------------------------------------------------------------------------
(* What the daily jobs have to do: a block of writes for each row.         *)

LEMMA SmallestFailure ==
  ASSUME NEW F \in SUBSET Nat, F # {}
  PROVE  \E n \in F : \A m \in F : n <= m
<1> DEFINE R == OpToRel(<, Nat)
<1>1. IsWellFoundedOn(R, Nat)
  BY NatLessThanWellFounded
<1>2. PICK n \in F : \A m \in F : ~(<<m, n>> \in R)
  <2> HIDE DEF R
  <2> QED
    BY <1>1, WFMin
<1>3. \A m, k \in Nat : <<m, k>> \in R <=> m < k
  BY DEF OpToRel
<1>4. \A m \in F : ~(m < n)
  <2> HIDE DEF R
  <2> QED
    BY <1>2, <1>3
<1> QED
  BY <1>4

Flattens(blocks, f) == f = [i \in 1 .. Len(blocks) |-> IF i = 1 THEN blocks[i] ELSE f[i - 1] \o blocks[i]]

LEMMA FlattenIsChosen ==
  ASSUME NEW blocks, Len(blocks) # 0
  PROVE  FlattenSeq(blocks) = (CHOOSE f : Flattens(blocks, f))[Len(blocks)]
  BY DEF FlattenSeq, Flattens

(* The blocks are joined one after the other.                              *)
LEMMA FlattenSteps ==
  ASSUME NEW G, NEW blocks, Len(blocks) \in Nat \ {0},
         \A j \in 1 .. Len(blocks) : blocks[j] \in G,
         \A a, b \in G : a \o b \in G
  PROVE  \E g : /\ FlattenSeq(blocks) = g[Len(blocks)]
               /\ \A i \in 1 .. Len(blocks) : g[i] = IF i = 1 THEN blocks[i] ELSE g[i - 1] \o blocks[i]
<1> DEFINE N == Len(blocks)
           Holds(n) == \E f \in [1 .. n -> G] : \A i \in 1 .. n : f[i] = IF i = 1 THEN blocks[i] ELSE f[i - 1] \o blocks[i]
           Failing == {n \in 0 .. N : ~Holds(n)}
<1>0. N \in Nat \ {0} /\ Failing \subseteq Nat
  OBVIOUS
<1>1. ASSUME NEW n \in 0 .. N, n = 0 \/ Holds(n - 1)
      PROVE  Holds(n)
  <2>1. CASE n = 0
    <3>1. 1 .. n = {}
      BY <2>1
    <3>2. [i \in 1 .. n |-> blocks[i]] \in [1 .. n -> G]
      BY <3>1
    <3> QED
      BY <3>1, <3>2
  <2>2. CASE n # 0
    <3>1. PICK f \in [1 .. n - 1 -> G] : \A i \in 1 .. n - 1 : f[i] = IF i = 1 THEN blocks[i] ELSE f[i - 1] \o blocks[i]
      BY <1>1, <2>2
    <3> DEFINE last == IF n = 1 THEN blocks[n] ELSE f[n - 1] \o blocks[n]
               h == [i \in 1 .. n |-> IF i = n THEN last ELSE f[i]]
    <3>2. n \in 1 .. N /\ (n # 1 => n - 1 \in 1 .. n - 1)
      BY <2>2
    <3>3. last \in G
      BY <3>2
    <3> HIDE DEF last
    <3>4. h \in [1 .. n -> G]
      BY <3>3
    <3>5. ASSUME NEW i \in 1 .. n PROVE h[i] = IF i = 1 THEN blocks[i] ELSE h[i - 1] \o blocks[i]
      <4>1. CASE i = n
        <5>1. i # 1 => i - 1 \in 1 .. n /\ i - 1 # n /\ h[i - 1] = f[i - 1]
          BY <4>1, <3>2
        <5> QED
          BY <4>1, <5>1 DEF last
      <4>2. CASE i # n
        <5>1. i \in 1 .. n - 1 /\ (i # 1 => i - 1 \in 1 .. n /\ i - 1 # n /\ h[i - 1] = f[i - 1])
          BY <4>2
        <5> QED
          BY <4>2, <5>1, <3>1
      <4> QED
        BY <4>1, <4>2
    <3> HIDE DEF h
    <3> QED
      BY <3>4, <3>5
  <2> QED
    BY <2>1, <2>2
<1> HIDE DEF Holds
<1>2. Failing = {}
  <2> SUFFICES ASSUME Failing # {} PROVE FALSE
    OBVIOUS
  <2>1. PICK F \in SUBSET Nat : F = Failing
    BY <1>0
  <2>2. PICK n \in F : \A m \in F : n <= m
    BY <2>1, SmallestFailure
  <2>3. n = 0 \/ Holds(n - 1)
    BY <2>1, <2>2
  <2> QED
    BY <1>1, <2>1, <2>2, <2>3
<1>3. Holds(N)
  BY <1>0, <1>2
<1>4. PICK f \in [1 .. N -> G] : \A i \in 1 .. N : f[i] = IF i = 1 THEN blocks[i] ELSE f[i - 1] \o blocks[i]
  BY <1>3 DEF Holds
<1>5. Flattens(blocks, f)
  BY <1>4 DEF Flattens
<1> DEFINE g == CHOOSE h : Flattens(blocks, h)
<1>6. Flattens(blocks, g)
  BY <1>5
<1> HIDE DEF g
<1>7. \A i \in 1 .. N : g[i] = IF i = 1 THEN blocks[i] ELSE g[i - 1] \o blocks[i]
  BY <1>6 DEF Flattens
<1> QED
  BY <1>0, <1>7, FlattenIsChosen DEF g

(* A set of sequences that has the blocks, and the concatenations of its   *)
(* elements, has the sequence they make.                                   *)
LEMMA FlattenIn ==
  ASSUME NEW G, NEW blocks, Len(blocks) \in Nat \ {0},
         \A j \in 1 .. Len(blocks) : blocks[j] \in G,
         \A a, b \in G : a \o b \in G
  PROVE  FlattenSeq(blocks) \in G
<1> DEFINE N == Len(blocks)
<1>0. N \in Nat \ {0}
  OBVIOUS
<1>1. PICK g : FlattenSeq(blocks) = g[N] /\ \A i \in 1 .. N : g[i] = IF i = 1 THEN blocks[i] ELSE g[i - 1] \o blocks[i]
  BY FlattenSteps
<1>2. \A i \in 1 .. N : g[i] = IF i = 1 THEN blocks[i] ELSE g[i - 1] \o blocks[i]
  BY <1>1
<1> DEFINE Outside == {i \in 1 .. N : g[i] \notin G}
<1>3. Outside = {}
  <2> SUFFICES ASSUME Outside # {} PROVE FALSE
    OBVIOUS
  <2>0. 1 .. N \subseteq Nat
    BY <1>0
  <2>1. PICK F \in SUBSET Nat : F = Outside
    BY <2>0
  <2>2. PICK n \in F : \A m \in F : n <= m
    BY <2>1, SmallestFailure
  <2>3. n \in 1 .. N /\ g[n] \notin G
    BY <2>1
  <2>4. CASE n = 1
    BY <2>3, <2>4, <1>2
  <2>5. CASE n # 1
    <3>1. n - 1 \in 1 .. N /\ ~(n <= n - 1)
      BY <2>3, <2>5
    <3>2. g[n - 1] \in G
      BY <3>1, <2>1, <2>2
    <3> QED
      BY <3>1, <3>2, <2>3, <2>5, <1>2
  <2> QED
    BY <2>4, <2>5
<1>4. g[N] \in G
  BY <1>0, <1>3
<1> QED
  BY <1>1, <1>4

(* Each is a list of blocks, unless there is nothing to do.                *)
LEMMA EachIn ==
  ASSUME NEW G, NEW I, IsFiniteSet(I), NEW todo, \A i \in I : todo[i] \in G, \A a, b \in G : a \o b \in G,
         NEW order \in SetToSeqs(I)
  PROVE  Each(order, todo) = <<>> \/ Each(order, todo) \in G
<1> DEFINE n == Cardinality(I)
           blocks == [k \in DOMAIN order |-> todo[order[k]]]
<1>1. n \in Nat
  BY FS_CardinalityType
<1>2. order \in [1 .. n -> I]
  BY DEF SetToSeqs
<1> HIDE DEF n
<1>3. DOMAIN order = 1 .. n /\ \A k \in 1 .. n : blocks[k] \in G
  BY <1>2
<1>4. blocks \in Seq(G) /\ DOMAIN blocks = 1 .. n
  <2>1. blocks \in [1 .. n -> G]
    BY <1>3
  <2> QED
    BY <1>1, <2>1, SeqDef
<1>5. Each(order, todo) = FlattenSeq(blocks)
  BY DEF Each
<1> HIDE DEF blocks
<1>6. Len(blocks) = n
  BY <1>1, <1>4, LenProperties
<1>7. CASE n = 0
  <2>1. blocks = <<>>
    BY <1>4, <1>6, <1>7, EmptySeq
  <2>2. FlattenSeq(blocks) = blocks
    BY <1>6, <1>7 DEF FlattenSeq
  <2> QED
    BY <1>5, <2>1, <2>2
<1>8. CASE n # 0
  <2>1. FlattenSeq(blocks) \in G
    BY <1>1, <1>3, <1>4, <1>6, <1>8, FlattenIn
  <2> QED
    BY <1>5, <2>1
<1> QED
  BY <1>7, <1>8

LEMMA Joined ==
  ASSUME NEW a, NEW b, Listed(a), Listed(b)
  PROVE  /\ Listed(a \o b) /\ Len(a \o b) = Len(a) + Len(b) /\ Len(a) \in Nat /\ Len(b) \in Nat
         /\ DOMAIN a = 1 .. Len(a) /\ DOMAIN b = 1 .. Len(b) /\ DOMAIN (a \o b) = 1 .. Len(a) + Len(b)
         /\ \A k \in 1 .. Len(a) : (a \o b)[k] = a[k]
         /\ \A k \in 1 .. Len(b) : (a \o b)[Len(a) + k] = b[k]
<1> DEFINE S == {a[k] : k \in DOMAIN a} \cup {b[k] : k \in DOMAIN b}
           r == a \o b
<1>1. a \in Seq(S) /\ b \in Seq(S)
  BY DEF Listed
<1> HIDE DEF S
<1>2. /\ r \in Seq(S) /\ Len(r) = Len(a) + Len(b)
      /\ \A i \in 1 .. Len(a) + Len(b) : r[i] = IF i <= Len(a) THEN a[i] ELSE b[i - Len(a)]
  BY <1>1, ConcatProperties
<1> HIDE DEF r
<1>3. Len(a) \in Nat /\ Len(b) \in Nat /\ DOMAIN a = 1 .. Len(a) /\ DOMAIN b = 1 .. Len(b) /\ DOMAIN r = 1 .. Len(r)
  BY <1>1, <1>2, LenProperties
<1>4. Listed(r)
  BY <1>2, ListedIn
<1>5. \A k \in 1 .. Len(a) : r[k] = a[k]
  BY <1>2, <1>3
<1>6. ASSUME NEW k \in 1 .. Len(b) PROVE r[Len(a) + k] = b[k]
  <2>1. Len(a) + k \in 1 .. Len(a) + Len(b) /\ ~(Len(a) + k <= Len(a)) /\ (Len(a) + k) - Len(a) = k
    BY <1>3
  <2> QED
    BY <2>1, <1>2
<1> QED
  BY <1>2, <1>3, <1>4, <1>5, <1>6 DEF r

(* The list s is a program of the operation op, about the row on.          *)
Program(op, on, s, d, g) ==
  /\ Listed(s)
  /\ \A k \in DOMAIN s : At(op, on, s[k], Len(s) - k, s[Len(s)]) /\ Named(s[k], d, g)
  /\ op = Applier => \A k \in DOMAIN s : Is(s[k], "tenant") =>
       \/ Tenant(s[k + 1], s[k].set)
       \/ Is(s[k + 1], "limit") /\ s[k + 1].to = s[k].set.plan
  /\ op = Floorer => \A k \in DOMAIN s : ~Found(s[k])
  /\ op = "buyAddOn" => Is(s[1], "newPurchase")
  /\ op \in Upgrading => Len(s) \notin {3, 4}

LEMMA Started ==
  ASSUME NEW t, NEW op, NEW on, NEW s, NEW d, NEW g, Program(op, on, s, d, g), s # <<>>,
         IF t \in Cron THEN op = t ELSE op \notin Cron, Len(g.subs) \in Nat
  PROVE  Fits(t, Running(op, s, on), d, g)
<1> DEFINE r == Running(op, s, on)
<1>1. r = [op |-> op, todo |-> s, row |-> 0, ext |-> 0, on |-> on, stale |-> FALSE]
  <2>0. PICK i : i = Idle
    OBVIOUS
  <2>1. PICK p : p = [i EXCEPT !.op = op]
    OBVIOUS
  <2>2. PICK q : q = [p EXCEPT !.todo = s]
    OBVIOUS
  <2>3. r = [q EXCEPT !.on = on]
    BY <2>0, <2>1, <2>2, Zenon DEF Running
  <2> HIDE DEF r
  <2>4. i = [op |-> "idle", todo |-> <<>>, row |-> 0, ext |-> 0, on |-> 0, stale |-> FALSE]
    BY <2>0 DEF Idle, None
  <2>5. p = [op |-> op, todo |-> <<>>, row |-> 0, ext |-> 0, on |-> 0, stale |-> FALSE]
    BY ONLY <2>4, <2>1
  <2>6. q = [op |-> op, todo |-> s, row |-> 0, ext |-> 0, on |-> 0, stale |-> FALSE]
    BY ONLY <2>5, <2>2
  <2> QED
    BY ONLY <2>6, <2>3
<1>2. r.op = op /\ r.todo = s /\ r.row = 0 /\ r.ext = 0 /\ r.on = on /\ r.stale = FALSE
      /\ r = [op |-> r.op, todo |-> r.todo, row |-> r.row, ext |-> r.ext, on |-> r.on, stale |-> r.stale]
  BY <1>1
<1> HIDE DEF r
<1>3. IsTask(r)
  <2>1. /\ r = [op |-> r.op, todo |-> r.todo, row |-> r.row, ext |-> r.ext, on |-> r.on, stale |-> r.stale]
        /\ Listed(r.todo) /\ r.row \in Nat /\ r.ext \in Nat /\ r.stale \in BOOLEAN
        /\ r.todo = <<>> => r = Idle
    <3>1. r.todo # <<>> /\ Listed(s) /\ 0 \in Nat /\ FALSE \in BOOLEAN
      BY <1>2 DEF Program
    <3> QED
      BY <1>2, <3>1
  <2>2. /\ \A k \in DOMAIN r.todo : At(r.op, r.on, r.todo[k], Len(r.todo) - k, r.todo[Len(r.todo)])
        /\ r.op = Applier => \A k \in DOMAIN r.todo : Is(r.todo[k], "tenant") =>
             \/ Tenant(r.todo[k + 1], r.todo[k].set)
             \/ Is(r.todo[k + 1], "limit") /\ r.todo[k + 1].to = r.todo[k].set.plan
        /\ r.op = Floorer => \A k \in DOMAIN r.todo : Found(r.todo[k]) => k = 1
    BY <1>2 DEF Program
  <2> QED
    BY <2>1, <2>2 DEF IsTask
<1>4. Fits(t, r, d, g)
  BY <1>2, <1>3 DEF Fits, Program
<1> QED
  BY <1>4 DEF r

LEMMA Launched ==
  ASSUME Typed(db, asaas), TasksFit, NEW t \in Slot, NEW op, NEW todo, NEW on, Launch(t, op, todo, on),
         todo # <<>> => Program(op, on, todo, db, asaas), IF t \in Cron THEN op = t ELSE op \notin Cron,
         asaas'.subs = asaas.subs, Typed(db, asaas')
  PROVE  TypeInv'
<1> DEFINE r == IF todo = <<>> THEN Idle ELSE Running(op, todo, on)
<1>1. db' = db /\ task' = [task EXCEPT ![t] = r]
  BY DEF Launch
<1>2. Len(asaas.subs) \in Nat
  BY TypedLens
<1>3. Fits(t, r, db, asaas)
  BY <1>2, Started, FitsIdle
<1> HIDE DEF r
<1>4. PICK h : h = asaas'
  OBVIOUS
<1>5. h.subs = asaas.subs /\ Typed(db, h)
  BY <1>4
<1>6. Fits(t, r, db, h) /\ DOMAIN asaas.subs \subseteq DOMAIN h.subs /\ Len(asaas.subs) <= Len(h.subs)
  BY <1>2, <1>3, <1>5, SelfGrows, FitsGrow DEF Grows
<1> QED
  BY <1>1, <1>4, <1>5, <1>6, CallFits

LEMMA Asked ==
  ASSUME Typed(db, asaas), TasksFit, NEW t \in Request, NEW op, NEW todo, NEW on, Ask(t, op, todo, on), op \notin Cron,
         todo # <<>> => Program(op, on, todo, db, asaas)
  PROVE  TypeInv'
<1>1. t \in Slot /\ t \notin Cron /\ Launch(t, op, todo, on) /\ asaas' = asaas
  BY RequestAssumption DEF Ask, Slot
<1> QED
  BY <1>1, Launched

LEMMA Received ==
  ASSUME Typed(db, asaas), TasksFit, NEW t \in Request, NEW m, NEW op, NEW todo, NEW on, Receive(t, m, op, todo, on), op \notin Cron,
         todo # <<>> => Program(op, on, todo, db, asaas)
  PROVE  TypeInv'
<1>1. t \in Slot /\ t \notin Cron /\ Launch(t, op, todo, on) /\ asaas' = [asaas EXCEPT !.post = @ \ {m}]
  BY RequestAssumption DEF Receive, Slot
<1>2. asaas = [subs |-> asaas.subs, bills |-> asaas.bills, post |-> asaas.post]
  BY TypedLens
<1>3. PICK post : post = asaas.post \ {m}
  OBVIOUS
<1>4. asaas' = [subs |-> asaas.subs, bills |-> asaas.bills, post |-> post]
  <2>1. asaas' = [asaas EXCEPT !.post = post]
    BY <1>1, <1>3
  <2> QED
    BY ONLY <1>2, <2>1
<1>5. asaas'.subs = asaas.subs /\ asaas'.bills = asaas.bills /\ asaas'.post = post /\ post \subseteq asaas.post
  BY <1>3, <1>4
<1>6. asaas' \in GatewayRows
  BY <1>3, <1>4, <1>5, TypedLens DEF GatewayRows
<1>7. Typed(db, asaas')
  BY <1>5, <1>6 DEF Typed, SubTyped, BillTyped, MessageTyped
<1> QED
  BY <1>1, <1>5, <1>7, Launched

----------------------------------------------------------------------------
(* The programs of the daily jobs.                                         *)

LEMMA SubsFinite == ASSUME Typed(db, asaas), NEW I, I \subseteq DOMAIN db.subs PROVE IsFiniteSet(I)
<1>1. Len(db.subs) \in Int /\ 1 \in Int /\ DOMAIN db.subs = 1 .. Len(db.subs)
  BY TypedLens
<1>2. IsFiniteSet(1 .. Len(db.subs))
  BY <1>1, FS_Interval
<1> QED
  BY <1>1, <1>2, FS_Subset

LEMMA PurchasesFinite == ASSUME Typed(db, asaas), NEW I, I \subseteq DOMAIN db.purchases PROVE IsFiniteSet(I)
<1>1. Len(db.purchases) \in Int /\ 1 \in Int /\ DOMAIN db.purchases = 1 .. Len(db.purchases)
  BY TypedLens
<1>2. IsFiniteSet(1 .. Len(db.purchases))
  BY <1>1, FS_Interval
<1> QED
  BY <1>1, <1>2, FS_Subset


Period(op) == IF op = Floorer THEN 3 ELSE IF op = Applier THEN 4 ELSE 2

LEMMA AtJob ==
  ASSUME NEW op \in Cron, NEW w, NEW e \in Nat, NEW z, At(op, None, w, e, z), NEW m \in Nat, m % Period(op) = 0, NEW y
  PROVE  At(op, None, w, e + m, y)
<1>1. CASE op = "checkOverdueSubscriptions"
  <2>1. AtCheckOverdue(w, e) /\ m % 2 = 0
    BY <1>1 DEF At, Applier, Floorer, Upgrading, Period
  <2>2. (e + m) % 2 = e % 2
    BY <2>1
  <2> QED
    BY <1>1, <2>1, <2>2 DEF At, AtCheckOverdue
<1>2. CASE op = Applier
  <2>1. AtApplyPending(w, e) /\ m % 4 = 0
    BY <1>2 DEF At, Applier, Floorer, Upgrading, Period
  <2>2. (e + m) % 4 = e % 4
    BY <2>1
  <2> QED
    BY <1>2, <2>1, <2>2 DEF At, AtApplyPending
<1>3. CASE op = Floorer
  <2>1. AtExpireAddOns(w, e) /\ m % 3 = 0
    BY <1>3 DEF At, Applier, Floorer, Upgrading, Period
  <2>2. (e + m) % 3 = e % 3
    BY <2>1
  <2> QED
    BY <1>3, <2>1, <2>2 DEF At, AtExpireAddOns
<1> QED
  BY <1>1, <1>2, <1>3 DEF Cron, Applier, Floorer

LEMMA Multiples ==
  ASSUME NEW x \in Nat, NEW y \in Nat, NEW n \in {2, 3, 4}, x % n = 0, y % n = 0
  PROVE  (x + y) % n = 0
<1>1. CASE n = 2
  BY <1>1
<1>2. CASE n = 3
  <2>1. (x + y) % 3 = x % 3
    BY <1>2
  <2> QED
    BY <1>2, <2>1
<1>3. CASE n = 4
  <2>1. (x + y) % 4 = x % 4
    BY <1>3
  <2> QED
    BY <1>3, <2>1
<1> QED
  BY <1>1, <1>2, <1>3

(* Programs of whole blocks make one.                                      *)
Whole(op, s) == Program(op, None, s, db, asaas) /\ Len(s) % Period(op) = 0

LEMMA WholeJoined ==
  ASSUME NEW op \in Cron, NEW a, NEW b, Whole(op, a), Whole(op, b)
  PROVE  Whole(op, a \o b)
<1> DEFINE s == a \o b
<1>1. /\ Listed(s) /\ Len(s) = Len(a) + Len(b) /\ Len(a) \in Nat /\ Len(b) \in Nat
      /\ DOMAIN a = 1 .. Len(a) /\ DOMAIN b = 1 .. Len(b) /\ DOMAIN s = 1 .. Len(a) + Len(b)
      /\ \A k \in 1 .. Len(a) : s[k] = a[k]
      /\ \A k \in 1 .. Len(b) : s[Len(a) + k] = b[k]
  BY Joined DEF Whole, Program
<1> HIDE DEF s
<1>2. Len(a) % Period(op) = 0 /\ Len(b) % Period(op) = 0
  BY DEF Whole
<1>3. ASSUME NEW k \in DOMAIN s PROVE At(op, None, s[k], Len(s) - k, s[Len(s)]) /\ Named(s[k], db, asaas)
  <2>1. CASE k \in 1 .. Len(a)
    <3>1. At(op, None, a[k], Len(a) - k, a[Len(a)]) /\ Named(a[k], db, asaas) /\ Len(a) - k \in Nat
      BY <2>1, <1>1 DEF Whole, Program
    <3>2. At(op, None, a[k], (Len(a) - k) + Len(b), s[Len(s)])
      BY <3>1, <1>1, <1>2, AtJob
    <3>3. (Len(a) - k) + Len(b) = Len(s) - k
      BY <2>1, <1>1
    <3> QED
      BY <3>1, <3>2, <3>3, <2>1, <1>1
  <2>2. CASE k \notin 1 .. Len(a)
    <3>1. PICK j \in 1 .. Len(b) : k = Len(a) + j
      <4>1. k - Len(a) \in 1 .. Len(b) /\ k = Len(a) + (k - Len(a))
        BY <2>2, <1>1
      <4> QED
        BY <4>1
    <3>2. At(op, None, b[j], Len(b) - j, b[Len(b)]) /\ Named(b[j], db, asaas) /\ Len(b) - j \in Nat
      BY <1>1 DEF Whole, Program
    <3>3. At(op, None, b[j], (Len(b) - j) + 0, s[Len(s)])
      <4>1. 0 \in Nat /\ 0 % Period(op) = 0
        BY DEF Period
      <4> QED
        BY <3>2, <4>1, AtJob
    <3>4. (Len(b) - j) + 0 = Len(s) - k
      BY <3>1, <1>1
    <3> QED
      BY <3>1, <3>2, <3>3, <3>4, <1>1
  <2> QED
    BY <2>1, <2>2
<1>4. ASSUME op = Applier, NEW k \in DOMAIN s, Is(s[k], "tenant")
      PROVE  \/ Tenant(s[k + 1], s[k].set)
             \/ Is(s[k + 1], "limit") /\ s[k + 1].to = s[k].set.plan
  <2>1. CASE k \in 1 .. Len(a)
    <3>1. At(op, None, a[k], Len(a) - k, a[Len(a)]) /\ Len(a) - k \in Nat /\ s[k] = a[k]
      BY <2>1, <1>1 DEF Whole, Program
    <3>2. Len(a) - k >= 1
      BY <1>4, <3>1, AtLater
    <3>3. k + 1 \in 1 .. Len(a) /\ s[k + 1] = a[k + 1]
      BY <2>1, <3>2, <1>1
    <3> QED
      BY <3>1, <3>3, <2>1, <1>1, <1>4 DEF Whole, Program
  <2>2. CASE k \notin 1 .. Len(a)
    <3>1. PICK j \in 1 .. Len(b) : k = Len(a) + j
      <4>1. k - Len(a) \in 1 .. Len(b) /\ k = Len(a) + (k - Len(a))
        BY <2>2, <1>1
      <4> QED
        BY <4>1
    <3>2. At(op, None, b[j], Len(b) - j, b[Len(b)]) /\ Len(b) - j \in Nat /\ s[k] = b[j]
      BY <3>1, <1>1 DEF Whole, Program
    <3>3. Len(b) - j >= 1
      BY <1>4, <3>2, AtLater
    <3>4. j + 1 \in 1 .. Len(b) /\ Len(a) + (j + 1) = k + 1
      BY <3>1, <3>3, <1>1
    <3>5. s[k + 1] = b[j + 1]
      BY <3>4, <1>1
    <3> QED
      BY <3>2, <3>5, <1>1, <1>4 DEF Whole, Program
  <2> QED
    BY <2>1, <2>2
<1>5. ASSUME op = Floorer, NEW k \in DOMAIN s PROVE ~Found(s[k])
  <2>1. CASE k \in 1 .. Len(a)
    BY <2>1, <1>1, <1>5 DEF Whole, Program
  <2>2. CASE k \notin 1 .. Len(a)
    <3>1. PICK j \in 1 .. Len(b) : k = Len(a) + j
      <4>1. k - Len(a) \in 1 .. Len(b) /\ k = Len(a) + (k - Len(a))
        BY <2>2, <1>1
      <4> QED
        BY <4>1
    <3> QED
      BY <3>1, <1>1, <1>5 DEF Whole, Program
  <2> QED
    BY <2>1, <2>2
<1>6. Len(s) % Period(op) = 0
  <2>1. Period(op) \in {2, 3, 4}
    BY DEF Period
  <2>2. (Len(a) + Len(b)) % Period(op) = 0
    BY <1>1, <1>2, <2>1, Multiples
  <2> QED
    BY <1>1, <2>2
<1>7. op # "buyAddOn" /\ op \notin Upgrading
  BY DEF Cron, Upgrading
<1>8. Whole(op, s)
  BY <1>1, <1>3, <1>4, <1>5, <1>6, <1>7 DEF Whole, Program
<1> QED
  BY <1>8 DEF s

(* The blocks of a job, in any order.                                      *)
LEMMA JobTyped ==
  ASSUME Typed(db, asaas), TasksFit, NEW op \in Cron, NEW I, IsFiniteSet(I), NEW blocks, NEW W,
         \A i \in I : blocks[i] \in Seq(W) /\ Whole(op, blocks[i]),
         NEW order \in SetToSeqs(I), Job(op, Each(order, blocks))
  PROVE  TypeInv'
<1> DEFINE G == {s \in Seq(W) : Whole(op, s)}
           todo == Each(order, blocks)
<1>1. \A i \in I : blocks[i] \in G
  OBVIOUS
<1>2. ASSUME NEW a \in G, NEW b \in G PROVE a \o b \in G
  <2>1. a \o b \in Seq(W)
    BY ConcatProperties
  <2> QED
    BY <2>1, WholeJoined
<1> HIDE DEF G
<1>3. todo = <<>> \/ todo \in G
  BY <1>1, <1>2, EachIn
<1>4. todo # <<>> => Program(op, None, todo, db, asaas)
  BY <1>3 DEF G, Whole
<1> HIDE DEF todo
<1>5. Launch(op, op, todo, None) /\ asaas' = asaas /\ op \in Slot
  BY DEF Job, Slot, todo
<1> QED
  BY <1>4, <1>5, Launched

(* Writes of an operation, each where it belongs.                          *)
Fitting(op, on, s, d, g) ==
  /\ Listed(s) /\ s # <<>>
  /\ \A k \in DOMAIN s : At(op, on, s[k], Len(s) - k, s[Len(s)]) /\ Named(s[k], d, g)

LEMMA FittingProgram ==
  ASSUME NEW op, op \notin Cron, NEW on, NEW s, NEW d, NEW g, Fitting(op, on, s, d, g),
         op = "buyAddOn" => Is(s[1], "newPurchase"), op \in Upgrading => Len(s) \notin {3, 4}
  PROVE  Program(op, on, s, d, g)
  BY DEF Program, Fitting, Cron, Applier, Floorer

LEMMA One ==
  ASSUME NEW op, NEW on, NEW a, NEW d, NEW g, At(op, on, a, 0, a), Named(a, d, g)
  PROVE  Fitting(op, on, <<a>>, d, g) /\ Len(<<a>>) = 1 /\ <<a>>[1] = a /\ Listed(<<a>>)
<1>1. <<a>> \in Seq({a}) /\ Len(<<a>>) = 1 /\ <<a>>[1] = a /\ DOMAIN <<a>> = {1} /\ <<a>> # <<>>
  OBVIOUS
<1>2. Listed(<<a>>)
  BY <1>1, ListedIn
<1> QED
  BY <1>1, <1>2 DEF Fitting

LEMMA Pair ==
  ASSUME NEW a, NEW b
  PROVE  /\ Listed(<<a, b>>) /\ Len(<<a, b>>) = 2 /\ <<a, b>>[1] = a /\ <<a, b>>[2] = b
         /\ DOMAIN <<a, b>> = 1 .. 2 /\ <<a, b>> # <<>>
<1>1. <<a, b>> \in Seq({a, b})
  OBVIOUS
<1>2. Listed(<<a, b>>)
  BY <1>1, ListedIn
<1> QED
  BY <1>2

LEMMA Triple ==
  ASSUME NEW a, NEW b, NEW c
  PROVE  /\ Listed(<<a, b, c>>) /\ Len(<<a, b, c>>) = 3 /\ <<a, b, c>>[1] = a /\ <<a, b, c>>[2] = b /\ <<a, b, c>>[3] = c
         /\ DOMAIN <<a, b, c>> = 1 .. 3 /\ <<a, b, c>> # <<>>
<1>1. <<a, b, c>> \in Seq({a, b, c})
  OBVIOUS
<1>2. Listed(<<a, b, c>>)
  BY <1>1, ListedIn
<1> QED
  BY <1>2

LEMMA Four ==
  ASSUME NEW a, NEW b, NEW c, NEW e, NEW s, s = <<a, b, c, e>>
  PROVE  /\ Listed(s) /\ Len(s) = 4 /\ s[1] = a /\ s[2] = b /\ s[3] = c /\ s[4] = e
         /\ DOMAIN s = 1 .. 4 /\ s # <<>>
<1>1. s \in Seq({a, b, c, e})
  OBVIOUS
<1>2. Listed(s)
  BY <1>1, ListedIn
<1> QED
  BY <1>2

LEMMA Two ==
  ASSUME NEW op, NEW on, NEW a, NEW b, NEW d, NEW g, At(op, on, a, 1, b), At(op, on, b, 0, b), Named(a, d, g), Named(b, d, g)
  PROVE  Fitting(op, on, <<a, b>>, d, g)
<1> DEFINE s == <<a, b>>
<1>1. /\ Listed(s) /\ Len(s) = 2 /\ s[1] = a /\ s[2] = b /\ DOMAIN s = 1 .. 2 /\ s # <<>>
  BY Pair
<1> HIDE DEF s
<1>2. Fitting(op, on, s, d, g)
  BY <1>1 DEF Fitting
<1> QED
  BY <1>2 DEF s

LEMMA Three ==
  ASSUME NEW op, NEW on, NEW a, NEW b, NEW c, NEW d, NEW g, At(op, on, a, 2, c), At(op, on, b, 1, c), At(op, on, c, 0, c),
         Named(a, d, g), Named(b, d, g), Named(c, d, g)
  PROVE  Fitting(op, on, <<a, b, c>>, d, g)
<1> DEFINE s == <<a, b, c>>
<1>1. Listed(s) /\ Len(s) = 3 /\ s[1] = a /\ s[2] = b /\ s[3] = c /\ DOMAIN s = 1 .. 3 /\ s # <<>>
  BY Triple
<1> HIDE DEF s
<1>2. Fitting(op, on, s, d, g)
  BY <1>1 DEF Fitting
<1> QED
  BY <1>2 DEF s

(* A list before one that fits.                                            *)
Leading(op, on, a, n, z, d, g) ==
  Listed(a) /\ \A k \in DOMAIN a : At(op, on, a[k], Len(a) - k + n, z) /\ Named(a[k], d, g)

(* A list that fits, of n writes and with z the last.                      *)
Ending(op, on, s, n, z, d, g) == Fitting(op, on, s, d, g) /\ Len(s) = n /\ s[n] = z

First(a, s) == s[1] = a
Opens(a, s) == a # <<>> => s[1] = a[1]

LEMMA Prefixed ==
  ASSUME NEW op, NEW on, NEW a, NEW b, NEW d, NEW g, NEW n, NEW z, NEW r, Leading(op, on, a, n, z, d, g),
         Ending(op, on, b, n, z, d, g), r = a \o b
  PROVE  Ending(op, on, r, Len(a) + n, z, d, g) /\ Opens(a, r)
<1> DEFINE s == a \o b
<1>0. Listed(a) /\ Listed(b)
  BY DEF Fitting, Leading, Ending
<1>1. /\ Listed(s) /\ Len(s) = Len(a) + Len(b) /\ Len(a) \in Nat /\ Len(b) \in Nat
      /\ DOMAIN a = 1 .. Len(a) /\ DOMAIN b = 1 .. Len(b) /\ DOMAIN s = 1 .. Len(a) + Len(b)
      /\ \A k \in 1 .. Len(a) : s[k] = a[k]
      /\ \A k \in 1 .. Len(b) : s[Len(a) + k] = b[k]
  BY <1>0, Joined
<1>2. Len(b) >= 1
  <2>1. Len(b) # 0
    BY EmptySeq DEF Fitting, Listed, Ending
  <2> QED
    BY <2>1, <1>1
<1>3. a # <<>> => 1 \in 1 .. Len(a)
  <2>1. a # <<>> => Len(a) # 0
    BY EmptySeq DEF Listed, Leading
  <2> QED
    BY <2>1, <1>1
<1> HIDE DEF s
<1>4. s[Len(s)] = b[Len(b)]
  BY <1>1, <1>2
<1>5. ASSUME NEW k \in DOMAIN s PROVE At(op, on, s[k], Len(s) - k, s[Len(s)]) /\ Named(s[k], d, g)
  <2>1. CASE k \in 1 .. Len(a)
    <3>1. Len(a) - k + Len(b) = Len(s) - k /\ s[k] = a[k]
      BY <2>1, <1>1
    <3> QED
      BY <3>1, <2>1, <1>1, <1>4 DEF Leading, Ending
  <2>2. CASE k \notin 1 .. Len(a)
    <3>1. PICK j \in 1 .. Len(b) : k = Len(a) + j
      <4>1. k - Len(a) \in 1 .. Len(b) /\ k = Len(a) + (k - Len(a))
        BY <2>2, <1>1
      <4> QED
        BY <4>1
    <3>2. Len(b) - j = Len(s) - k /\ s[k] = b[j]
      BY <3>1, <1>1
    <3> QED
      BY <3>2, <1>1, <1>4 DEF Fitting, Ending
  <2> QED
    BY <2>1, <2>2
<1>6. s # <<>>
  <2>1. Len(s) # 0
    BY <1>1, <1>2
  <2> QED
    BY <2>1
<1>7. Fitting(op, on, s, d, g)
  BY <1>1, <1>5, <1>6 DEF Fitting
<1>8. r = s
  BY DEF s
<1> QED
  BY <1>1, <1>3, <1>4, <1>7, <1>8 DEF Ending, Opens

(* One write before them.                                                  *)
LEMMA Led ==
  ASSUME NEW op, NEW on, NEW a, NEW s, NEW d, NEW g, NEW n \in Nat, NEW z, NEW r, Ending(op, on, s, n, z, d, g),
         At(op, on, a, n, z), Named(a, d, g), r = <<a>> \o s
  PROVE  Ending(op, on, r, n + 1, z, d, g) /\ First(a, r)
<1>1. PICK q : q = <<a>>
  OBVIOUS
<1>2. q \in Seq({a}) /\ Len(q) = 1 /\ q[1] = a /\ DOMAIN q = {1} /\ q # <<>>
  BY <1>1
<1>3. Listed(q)
  BY <1>2, ListedIn
<1>4. Len(q) - 1 + n = n /\ Len(q) + n = n + 1
  BY <1>2
<1>5. Leading(op, on, q, n, z, d, g)
  BY <1>2, <1>3, <1>4 DEF Leading
<1>6. r = q \o s
  BY <1>1
<1>7. Ending(op, on, r, Len(q) + n, z, d, g) /\ Opens(q, r)
  BY <1>5, <1>6, Prefixed, Zenon
<1> QED
  BY <1>2, <1>4, <1>7 DEF Opens, First

----------------------------------------------------------------------------
(* The programs of the requests.                                           *)

LEMMA SubscribeTyped ==
  ASSUME Typed(db, asaas), TasksFit, NEW t \in Request, Subscribe(t)
  PROVE  TypeInv'
<1> DEFINE a == CreateExtOrThrow
           b == AddSub("PENDING", db.tenant.plan)
           c == SetTenant([status |-> "PENDING_PAYMENT"])
           op == "subscribe"
<1>0. db.tenant.plan \in Plan
  BY TypedLens DEF TenantRow
<1>1. a.kind = "createExt" /\ b.kind = "newSub" /\ b.row = Subscription("PENDING", db.tenant.plan, None)
      /\ c.kind = "tenant" /\ c.set = [status |-> "PENDING_PAYMENT"]
  BY DEF CreateExtOrThrow, AddSub, SetTenant
<1>2. Ask(t, op, <<a, b, c>>, None)
  BY DEF Subscribe
<1> HIDE DEF a, b, c
<1>3. At(op, None, a, 2, c) /\ At(op, None, b, 1, c) /\ At(op, None, c, 0, c)
  BY <1>0, <1>1 DEF At, AtSubscribe, Is, Tenant
<1>4. Named(a, db, asaas) /\ Named(b, db, asaas) /\ Named(c, db, asaas)
  BY <1>1 DEF Named, Is
<1>5. Fitting(op, None, <<a, b, c>>, db, asaas)
  BY <1>3, <1>4, Three
<1>6. op \notin Cron /\ op # "buyAddOn" /\ op \notin Upgrading
  BY DEF Cron, Upgrading
<1>7. Program(op, None, <<a, b, c>>, db, asaas)
  BY <1>5, <1>6, FittingProgram
<1> HIDE DEF op
<1> QED
  BY <1>2, <1>6, <1>7, Asked

LEMMA LatestIn ==
  ASSUME Typed(db, asaas), NEW I, I \subseteq DOMAIN db.subs, I # {}
  PROVE  Latest(I) \in I
<1>1. Len(db.subs) \in Nat /\ I \subseteq 1 .. Len(db.subs)
  BY TypedLens
<1> DEFINE F == {n \in Nat : \E i \in I : n = Len(db.subs) - i}
<1>2. \A i \in I : Len(db.subs) - i \in Nat
  BY <1>1
<1>3. PICK G \in SUBSET Nat : G = F
  OBVIOUS
<1>4. G # {}
  BY <1>2, <1>3
<1>5. PICK n \in G : \A m \in G : n <= m
  BY <1>4, SmallestFailure
<1>6. PICK i \in I : n = Len(db.subs) - i
  BY <1>3, <1>5
<1>7. ASSUME NEW j \in I PROVE j <= i
  <2>1. Len(db.subs) - j \in G
    BY <1>2, <1>3
  <2>2. n <= Len(db.subs) - j
    BY <2>1, <1>5
  <2> QED
    BY <2>2, <1>1, <1>6
<1> QED
  BY <1>7 DEF Latest

LEMMA CurrentSubs == Current \subseteq DOMAIN db.subs /\ ActiveSubs \subseteq DOMAIN db.subs
  BY DEF Current, ActiveSubs

(* One write, of a row of the subscriptions.                               *)
LEMMA OneSub ==
  ASSUME NEW op, NEW on, NEW i \in DOMAIN db.subs, NEW set, At(op, on, SetSub(i, set), 0, SetSub(i, set)),
         "ext" \in DOMAIN set => set.ext \in DOMAIN asaas.subs,
         op \notin Cron, op # "buyAddOn", op \notin Upgrading
  PROVE  Program(op, on, <<SetSub(i, set)>>, db, asaas)
<1> DEFINE a == SetSub(i, set)
<1>1. a.kind = "sub" /\ a.i = i /\ a.set = set
  BY DEF SetSub
<1> HIDE DEF a
<1>2. Named(a, db, asaas)
  BY <1>1 DEF Named, Is
<1>3. Fitting(op, on, <<a>>, db, asaas)
  BY <1>2, One DEF a
<1>4. Program(op, on, <<a>>, db, asaas)
  BY <1>3, FittingProgram
<1> QED
  BY <1>4 DEF a

LEMMA DowngradeTyped ==
  ASSUME Typed(db, asaas), TasksFit, NEW t \in Request, NEW plan \in Plan, Downgrade(t, plan)
  PROVE  TypeInv'
<1> DEFINE i == Latest(Current)
           set == [pending |-> plan, due |-> FALSE]
           op == "downgrade"
<1>1. i \in DOMAIN db.subs
  BY LatestIn, CurrentSubs DEF Downgrade
<1>2. Ask(t, op, <<SetSub(i, set)>>, i)
  BY DEF Downgrade
<1> HIDE DEF i
<1>3. At(op, i, SetSub(i, set), 0, SetSub(i, set))
  BY DEF At, AtDowngrade, SubOf, Is, SetSub
<1>4. "ext" \notin DOMAIN set
  OBVIOUS
<1>5. op \notin Cron /\ op # "buyAddOn" /\ op \notin Upgrading
  BY DEF Cron, Upgrading
<1> HIDE DEF op, set
<1>6. Program(op, i, <<SetSub(i, set)>>, db, asaas)
  BY <1>1, <1>3, <1>4, <1>5, OneSub
<1> QED
  BY <1>2, <1>5, <1>6, Asked

LEMMA CancelDowngradeTyped ==
  ASSUME Typed(db, asaas), TasksFit, NEW t \in Request, NEW i \in DOMAIN db.subs, CancelDowngrade(t, i)
  PROVE  TypeInv'
<1> DEFINE set == [pending |-> None, due |-> FALSE]
           op == "cancelDowngrade"
<1>2. Ask(t, op, <<SetSub(i, set)>>, i)
  BY DEF CancelDowngrade
<1>3. At(op, i, SetSub(i, set), 0, SetSub(i, set))
  BY DEF At, AtCancelDowngrade, SubOf, Is, SetSub
<1>4. "ext" \notin DOMAIN set
  OBVIOUS
<1>5. op \notin Cron /\ op # "buyAddOn" /\ op \notin Upgrading
  BY DEF Cron, Upgrading
<1> HIDE DEF op, set
<1>6. Program(op, i, <<SetSub(i, set)>>, db, asaas)
  BY <1>3, <1>4, <1>5, OneSub
<1> QED
  BY <1>2, <1>5, <1>6, Asked

LEMMA BuyAddOnTyped ==
  ASSUME Typed(db, asaas), TasksFit, NEW t \in Request, NEW i \in DOMAIN db.subs, NEW free \in BOOLEAN, BuyAddOn(t, i, free)
  PROVE  TypeInv'
<1> DEFINE a == AddPurchase(i)
           b == SetPurchase(None, [status |-> "PAID"])
           c == Credit(AddOn, 1)
           e == Charge("addon", None, None)
           op == "buyAddOn"
           s == IF free THEN <<b, c>> ELSE <<e>>
<1>1. /\ a.kind = "newPurchase" /\ a.row = Purchase(i) /\ a.row.sub = i
      /\ b.kind = "purchase" /\ b.i = None /\ b.set = [status |-> "PAID"]
      /\ c.kind = "credit" /\ c.by = AddOn
      /\ e.kind = "charge" /\ e.bill = Bill("addon", None, None) /\ e.bill.for = "addon"
  BY DEF AddPurchase, Purchase, SetPurchase, Credit, Charge, Bill
<1>2. PICK r : r = <<a>> \o s
  OBVIOUS
<1>o. Ask(t, op, r, i)
  BY <1>2 DEF BuyAddOn
<1> HIDE DEF a, b, c, e
<1>3. Named(a, db, asaas) /\ Named(b, db, asaas) /\ Named(c, db, asaas) /\ Named(e, db, asaas)
  BY <1>1 DEF Named, Is
<1>4. At(op, i, b, 1, c) /\ At(op, i, c, 0, c) /\ At(op, i, e, 0, e) /\ At(op, i, a, 2, c) /\ At(op, i, a, 1, e)
  BY <1>1 DEF At, AtBuyAddOn, Is
<1>5. Fitting(op, i, s, db, asaas) /\ \/ Len(s) = 2 /\ s[Len(s)] = c
                                      \/ Len(s) = 1 /\ s[Len(s)] = e
  <2>1. CASE free
    <3>1. Fitting(op, i, <<b, c>>, db, asaas) /\ Len(<<b, c>>) = 2 /\ <<b, c>>[2] = c
      BY <1>3, <1>4, Two, Pair
    <3> QED
      BY <2>1, <3>1
  <2>2. CASE ~free
    <3>1. Fitting(op, i, <<e>>, db, asaas) /\ Len(<<e>>) = 1 /\ <<e>>[1] = e
      BY <1>3, <1>4, One
    <3> QED
      BY <2>2, <3>1
  <2> QED
    BY <2>1, <2>2
<1> HIDE DEF s
<1>7. Fitting(op, i, r, db, asaas) /\ r[1] = a
  <2>1. CASE Len(s) = 2 /\ s[2] = c
    <3>1. Ending(op, i, s, 2, c, db, asaas) /\ 2 \in Nat
      BY <2>1, <1>5 DEF Ending
    <3>2. Ending(op, i, r, 2 + 1, c, db, asaas) /\ First(a, r)
      BY <3>1, <1>2, <1>3, <1>4, Led, Zenon
    <3> QED
      BY <3>2 DEF Ending, First
  <2>2. CASE Len(s) = 1 /\ s[1] = e
    <3>1. Ending(op, i, s, 1, e, db, asaas) /\ 1 \in Nat
      BY <2>2, <1>5 DEF Ending
    <3>2. Ending(op, i, r, 1 + 1, e, db, asaas) /\ First(a, r)
      BY <3>1, <1>2, <1>3, <1>4, Led, Zenon
    <3> QED
      BY <3>2 DEF Ending, First
  <2> QED
    BY <1>5, <2>1, <2>2
<1>8. op \notin Cron /\ op \notin Upgrading
  BY DEF Cron, Upgrading
<1>9. Is(r[1], "newPurchase")
  BY <1>1, <1>7 DEF Is
<1>10. Program(op, i, r, db, asaas)
  BY <1>7, <1>8, <1>9, FittingProgram
<1> HIDE DEF op
<1> QED
  BY <1>o, <1>8, <1>10, Asked

LEMMA LeadingEmpty == ASSUME NEW op, NEW on, NEW n, NEW z, NEW d, NEW g PROVE Leading(op, on, <<>>, n, z, d, g) /\ Len(<<>>) = 0
<1>1. <<>> \in Seq({}) /\ DOMAIN <<>> = {} /\ Len(<<>>) = 0
  OBVIOUS
<1>2. Listed(<<>>)
  BY <1>1, ListedIn
<1> QED
  BY <1>1, <1>2 DEF Leading

LEMMA LeadingJoined ==
  ASSUME NEW op, NEW on, NEW n \in Nat, NEW z, NEW d, NEW g, NEW a, NEW b, NEW r, Leading(op, on, a, Len(b) + n, z, d, g),
         Leading(op, on, b, n, z, d, g), r = a \o b
  PROVE  Leading(op, on, r, n, z, d, g)
<1> DEFINE s == a \o b
<1>0. Listed(a) /\ Listed(b)
  BY DEF Leading
<1>1. /\ Listed(s) /\ Len(s) = Len(a) + Len(b) /\ Len(a) \in Nat /\ Len(b) \in Nat
      /\ DOMAIN a = 1 .. Len(a) /\ DOMAIN b = 1 .. Len(b) /\ DOMAIN s = 1 .. Len(a) + Len(b)
      /\ \A k \in 1 .. Len(a) : s[k] = a[k]
      /\ \A k \in 1 .. Len(b) : s[Len(a) + k] = b[k]
  BY <1>0, Joined
<1> HIDE DEF s
<1>2. ASSUME NEW k \in DOMAIN s PROVE At(op, on, s[k], Len(s) - k + n, z) /\ Named(s[k], d, g)
  <2>1. CASE k \in 1 .. Len(a)
    <3>1. Len(a) - k + (Len(b) + n) = Len(s) - k + n /\ s[k] = a[k]
      BY <2>1, <1>1
    <3> QED
      BY <3>1, <2>1, <1>1 DEF Leading
  <2>2. CASE k \notin 1 .. Len(a)
    <3>1. PICK j \in 1 .. Len(b) : k = Len(a) + j
      <4>1. k - Len(a) \in 1 .. Len(b) /\ k = Len(a) + (k - Len(a))
        BY <2>2, <1>1
      <4> QED
        BY <4>1
    <3>2. Len(b) - j + n = Len(s) - k + n /\ s[k] = b[j]
      BY <3>1, <1>1
    <3> QED
      BY <3>2, <1>1 DEF Leading
  <2> QED
    BY <2>1, <2>2
<1>3. r = s
  BY DEF s
<1> QED
  BY <1>1, <1>2, <1>3 DEF Leading

(* The two writes that move a plan.                                        *)
LEMMA Moves ==
  ASSUME NEW op, NEW on, NEW plan, NEW n \in Nat, NEW z, NEW d, NEW g,
         At(op, on, SetTenant([plan |-> plan]), 1 + n, z), At(op, on, SetLimit(plan), n, z)
  PROVE  Leading(op, on, MovePlan(plan), n, z, d, g) /\ Len(MovePlan(plan)) = 2
<1>1. PICK a : a = SetTenant([plan |-> plan])
  OBVIOUS
<1>2. PICK b : b = SetLimit(plan)
  OBVIOUS
<1>3. PICK s : s = <<a, b>>
  OBVIOUS
<1>4. MovePlan(plan) = s
  BY <1>1, <1>2, <1>3 DEF MovePlan
<1>5. Listed(s) /\ Len(s) = 2 /\ s[1] = a /\ s[2] = b /\ DOMAIN s = 1 .. 2
  BY <1>3, Pair
<1>6. a.kind = "tenant" /\ b.kind = "limit"
  BY <1>1, <1>2 DEF SetTenant, SetLimit
<1>7. Named(a, d, g) /\ Named(b, d, g)
  BY <1>6 DEF Named, Is
<1>8. 2 - 1 + n = 1 + n /\ 2 - 2 + n = n
  OBVIOUS
<1>9. At(op, on, a, 1 + n, z) /\ At(op, on, b, n, z)
  BY <1>1, <1>2
<1>10. ASSUME NEW k \in DOMAIN s PROVE At(op, on, s[k], Len(s) - k + n, z) /\ Named(s[k], d, g)
  <2>1. CASE k = 1
    BY <2>1, <1>5, <1>7, <1>8, <1>9
  <2>2. CASE k = 2
    BY <2>2, <1>5, <1>7, <1>8, <1>9
  <2> QED
    BY <2>1, <2>2, <1>5
<1> QED
  BY <1>4, <1>5, <1>10 DEF Leading

LEMMA MovesLast ==
  ASSUME NEW op, NEW on, NEW plan, NEW d, NEW g,
         At(op, on, SetTenant([plan |-> plan]), 1, SetLimit(plan)), At(op, on, SetLimit(plan), 0, SetLimit(plan))
  PROVE  Ending(op, on, MovePlan(plan), 2, SetLimit(plan), d, g)
<1> DEFINE a == SetTenant([plan |-> plan])
           b == SetLimit(plan)
<1>1. a.kind = "tenant" /\ b.kind = "limit"
  BY DEF SetTenant, SetLimit
<1>2. MovePlan(plan) = <<a, b>>
  BY DEF MovePlan
<1> HIDE DEF a, b
<1>3. Named(a, d, g) /\ Named(b, d, g)
  BY <1>1 DEF Named, Is
<1>4. Fitting(op, on, <<a, b>>, d, g) /\ Len(<<a, b>>) = 2 /\ <<a, b>>[2] = b
  BY <1>3, Two, Pair DEF a, b
<1> QED
  BY <1>2, <1>4 DEF Ending, b

LEMMA ApplyUpgradeFits ==
  ASSUME Typed(db, asaas), NEW op \in Upgrading, NEW i \in DOMAIN db.subs, NEW plan \in Plan
  PROVE  \E n \in {6, 7} : Ending(op, i, ApplyUpgrade(i, plan), n, SetLimit(plan), db, asaas)
<1>1. PICK z : z = SetLimit(plan)
  OBVIOUS
<1>2. z.kind = "limit" /\ z.to = plan
  BY <1>1 DEF SetLimit
<1>3. ASSUME NEW w, NEW e, AtUpgrade(i, w, e, z) PROVE At(op, i, w, e, z)
  BY <1>3 DEF At
<1>4. Ending(op, i, MovePlan(plan), 2, z, db, asaas)
  <2>1. AtUpgrade(i, SetTenant([plan |-> plan]), 1, z) /\ AtUpgrade(i, z, 0, z)
    BY <1>2 DEF AtUpgrade, Is, Tenant, SetTenant
  <2> QED
    BY <2>1, <1>1, <1>3, MovesLast
<1>5. PICK a : a = SetSub(i, [status |-> "CANCELLED", pending |-> None, due |-> FALSE])
  OBVIOUS
<1>6. PICK b : b = AddSub("ACTIVE", plan)
  OBVIOUS
<1>7. PICK c : c = CreateExt
  OBVIOUS
<1>8. PICK e : e = LinkNew
  OBVIOUS
<1>9. /\ a.kind = "sub" /\ a.i = i /\ a.set = [status |-> "CANCELLED", pending |-> None, due |-> FALSE]
      /\ b.kind = "newSub" /\ b.row = Subscription("ACTIVE", plan, None)
      /\ c.kind = "createExt" /\ e.kind = "link"
  BY <1>5, <1>6, <1>7, <1>8 DEF SetSub, AddSub, CreateExt, LinkNew
<1>10. At(op, i, a, 5, z) /\ At(op, i, b, 4, z) /\ At(op, i, c, 3, z) /\ At(op, i, e, 2, z)
  <2>1. AtUpgrade(i, a, 5, z)
    BY <1>2, <1>9 DEF AtUpgrade, Is, SubOf
  <2>2. AtUpgrade(i, b, 4, z)
    BY <1>2, <1>9 DEF AtUpgrade, Is
  <2>3. AtUpgrade(i, c, 3, z)
    BY <1>2, <1>9 DEF AtUpgrade, Is
  <2>4. AtUpgrade(i, e, 2, z)
    BY <1>2, <1>9 DEF AtUpgrade, Is
  <2> QED
    BY <2>1, <2>2, <2>3, <2>4, <1>3
<1>11. Named(a, db, asaas) /\ Named(b, db, asaas) /\ Named(c, db, asaas) /\ Named(e, db, asaas)
  <2>1. "ext" \notin DOMAIN a.set
    BY <1>9
  <2> QED
    BY <2>1, <1>9 DEF Named, Is
<1>12. PICK f : f = <<a, b, c, e>>
  OBVIOUS
<1>13. Listed(f) /\ Len(f) = 4 /\ f[1] = a /\ f[2] = b /\ f[3] = c /\ f[4] = e /\ DOMAIN f = 1 .. 4
  BY <1>12, Four
<1>14. Leading(op, i, f, 2, z, db, asaas)
  <2>1. ASSUME NEW k \in DOMAIN f PROVE At(op, i, f[k], Len(f) - k + 2, z) /\ Named(f[k], db, asaas)
    <3>1. 4 - 1 + 2 = 5 /\ 4 - 2 + 2 = 4 /\ 4 - 3 + 2 = 3 /\ 4 - 4 + 2 = 2
      OBVIOUS
    <3>2. k \in {1, 2, 3, 4}
      BY <1>13
    <3> QED
      BY <3>1, <3>2, <1>10, <1>11, <1>13
  <2> QED
    BY <2>1, <1>13 DEF Leading
<1>15. PICK opt : opt = IF db.subs[i].ext = None THEN <<>> ELSE <<CancelExt(db.subs[i].ext)>>
  OBVIOUS
<1>16. PICK h : h = opt \o f
  OBVIOUS
<1>17. ApplyUpgrade(i, plan) = h \o MovePlan(plan)
  BY <1>5, <1>6, <1>7, <1>8, <1>12, <1>15, <1>16, Zenon DEF ApplyUpgrade
<1>18. Leading(op, i, opt, Len(f) + 2, z, db, asaas) /\ Len(opt) \in {0, 1}
  <2>1. CASE db.subs[i].ext = None
    BY <2>1, <1>15, LeadingEmpty
  <2>2. CASE db.subs[i].ext # None
    <3>1. PICK w : w = CancelExt(db.subs[i].ext)
      OBVIOUS
    <3>2. w.kind = "cancelExt" /\ w.ext = db.subs[i].ext
      BY <3>1 DEF CancelExt
    <3>3. w.ext \in DOMAIN asaas.subs
      <4>1. db.subs[i].ext \in 0 .. Len(asaas.subs) /\ DOMAIN asaas.subs = 1 .. Len(asaas.subs) /\ Len(asaas.subs) \in Nat
        BY TypedLens DEF Typed, SubTyped
      <4> QED
        BY <4>1, <2>2, <3>2 DEF None
    <3>4. Named(w, db, asaas)
      BY <3>2, <3>3 DEF Named, Is
    <3>5. At(op, i, w, 6, z)
      <4>1. AtUpgrade(i, w, 6, z)
        BY <1>2, <3>2 DEF AtUpgrade, Is
      <4> QED
        BY <4>1, <1>3
    <3>6. opt = <<w>>
      BY <1>15, <2>2, <3>1
    <3>7. <<w>> \in Seq({w}) /\ Len(<<w>>) = 1 /\ <<w>>[1] = w /\ DOMAIN <<w>> = {1}
      OBVIOUS
    <3>8. Len(opt) = 1 /\ opt[1] = w /\ DOMAIN opt = {1} /\ Listed(opt)
      BY <3>6, <3>7, ListedIn
    <3>9. Len(opt) - 1 + (Len(f) + 2) = 6
      BY <3>8, <1>13
    <3> QED
      BY <3>4, <3>5, <3>8, <3>9 DEF Leading
  <2> QED
    BY <2>1, <2>2
<1>19. Leading(op, i, h, 2, z, db, asaas)
  <2>1. 2 \in Nat
    OBVIOUS
  <2> QED
    BY <2>1, <1>14, <1>16, <1>18, LeadingJoined, Zenon
<1>20. Len(h) = Len(opt) + Len(f)
  <2>1. Listed(opt) /\ Listed(f)
    BY <1>14, <1>18 DEF Leading
  <2> QED
    BY <2>1, <1>16, Joined
<1>u. PICK u : u = ApplyUpgrade(i, plan)
  OBVIOUS
<1>v. PICK v : v = MovePlan(plan)
  OBVIOUS
<1>w. u = h \o v
  BY <1>17, <1>u, <1>v
<1>x. Ending(op, i, v, 2, z, db, asaas)
  BY <1>4, <1>v
<1>y. Ending(op, i, u, Len(h) + 2, z, db, asaas)
  BY <1>w, <1>x, <1>19, Prefixed, Zenon
<1>21. Len(h) + 2 \in {6, 7}
  <2>1. PICK n \in {0, 1} : Len(opt) = n
    BY <1>18
  <2>2. Len(h) = n + 4
    BY <2>1, <1>13, <1>20
  <2> QED
    BY <2>1, <2>2
<1> QED
  BY <1>1, <1>u, <1>y, <1>21

LEMMA UpgradeTyped ==
  ASSUME Typed(db, asaas), TasksFit, NEW t \in Request, NEW plan \in Plan, NEW covered \in Covered, Upgrade(t, plan, covered)
  PROVE  TypeInv'
<1>0. PICK i : i = Latest(Current)
  OBVIOUS
<1>1. i \in DOMAIN db.subs
  BY <1>0, LatestIn, CurrentSubs DEF Upgrade
<1>2. PICK op : op = "upgrade"
  OBVIOUS
<1>3. op \in Upgrading /\ op \notin Cron /\ op # "buyAddOn"
  BY <1>2 DEF Upgrading, Cron
<1>4. PICK a : a = SetSub(i, [pending |-> plan, due |-> TRUE])
  OBVIOUS
<1>5. PICK c : c = Charge("upgrade", i, plan)
  OBVIOUS
<1>6. PICK s : s = IF covered THEN ApplyUpgrade(i, plan) ELSE <<c>>
  OBVIOUS
<1>7. PICK r : r = <<a>> \o s
  OBVIOUS
<1>8. Ask(t, op, r, i)
  BY <1>0, <1>2, <1>4, <1>5, <1>6, <1>7, Zenon DEF Upgrade
<1>9. /\ a.kind = "sub" /\ a.i = i /\ a.set = [pending |-> plan, due |-> TRUE] /\ "ext" \notin DOMAIN a.set
      /\ c.kind = "charge" /\ c.bill = Bill("upgrade", i, plan) /\ c.bill.of = i
  BY <1>4, <1>5 DEF SetSub, Charge, Bill
<1>10. Named(a, db, asaas) /\ Named(c, db, asaas)
  BY <1>1, <1>9 DEF Named, Is
<1>11. Program(op, i, r, db, asaas)
  <2>1. CASE covered
    <3>1. PICK n \in {6, 7} : Ending(op, i, s, n, SetLimit(plan), db, asaas)
      BY <2>1, <1>1, <1>3, <1>6, ApplyUpgradeFits
    <3>2. At(op, i, a, n, SetLimit(plan))
      <4>1. Is(SetLimit(plan), "limit") /\ SetLimit(plan).to = plan
        BY DEF Is, SetLimit
      <4>2. Pends(i, a)
        BY <1>9 DEF Pends, SubOf, Is
      <4> QED
        BY <4>1, <4>2, <3>1, <1>3 DEF At, AtUpgrade
    <3>3. n \in Nat
      BY <3>1
    <3>4. Ending(op, i, r, n + 1, SetLimit(plan), db, asaas)
      BY <3>1, <3>2, <3>3, <1>7, <1>10, Led, Zenon
    <3>5. Len(r) \notin {3, 4} /\ Fitting(op, i, r, db, asaas)
      BY <3>1, <3>4 DEF Ending
    <3> QED
      BY <3>5, <1>3, FittingProgram
  <2>2. CASE ~covered
    <3>1. At(op, i, c, 0, c) /\ At(op, i, a, 1, c)
      BY <1>3, <1>9 DEF At, AtUpgrade, Is, Pends, SubOf
    <3>2. Ending(op, i, s, 1, c, db, asaas)
      BY <2>2, <3>1, <1>6, <1>10, One DEF Ending
    <3>3. 1 \in Nat
      OBVIOUS
    <3>4. Ending(op, i, r, 1 + 1, c, db, asaas)
      BY <3>1, <3>2, <3>3, <1>7, <1>10, Led, Zenon
    <3>5. Len(r) \notin {3, 4} /\ Fitting(op, i, r, db, asaas)
      BY <3>4 DEF Ending
    <3> QED
      BY <3>5, <1>3, FittingProgram
  <2> QED
    BY <2>1, <2>2
<1> QED
  BY <1>3, <1>8, <1>11, Asked

LEMMA UpgradePaidTyped ==
  ASSUME Typed(db, asaas), TasksFit, NEW t \in Request, NEW m \in asaas.post, UpgradePaid(t, m)
  PROVE  TypeInv'
<1>0. PICK i : i = BillOf(m).of
  OBVIOUS
<1>1. PICK plan : plan = BillOf(m).plan
  OBVIOUS
<1>2. i \in DOMAIN db.subs /\ plan \in Plan
  <2>1. m.event \in OfPayment /\ BillOf(m).for = "upgrade"
    BY DEF UpgradePaid, Paid, OfPayment
  <2>2. m.of \in DOMAIN asaas.bills
    BY <2>1 DEF Typed, MessageTyped
  <2> QED
    BY <2>1, <2>2, <1>0, <1>1 DEF Typed, BillTyped, BillOf
<1>3. PICK op : op = "upgradePaid"
  OBVIOUS
<1>4. op \in Upgrading /\ op \notin Cron /\ op # "buyAddOn"
  BY <1>3 DEF Upgrading, Cron
<1>5. PICK r : r = ApplyUpgrade(i, plan)
  OBVIOUS
<1>6. Receive(t, m, op, r, i)
  BY <1>0, <1>1, <1>3, <1>5, Zenon DEF UpgradePaid
<1>7. PICK n \in {6, 7} : Ending(op, i, r, n, SetLimit(plan), db, asaas)
  BY <1>2, <1>4, <1>5, ApplyUpgradeFits
<1>8. Len(r) \notin {3, 4} /\ Fitting(op, i, r, db, asaas)
  BY <1>7 DEF Ending
<1>9. Program(op, i, r, db, asaas)
  BY <1>4, <1>8, FittingProgram
<1> QED
  BY <1>4, <1>6, <1>9, Received

LEMMA ConfirmFits ==
  ASSUME Typed(db, asaas), NEW p \in DOMAIN db.purchases
  PROVE  Program("addOnPaid", p, Confirm(p), db, asaas)
<1>0. p # None
  BY TypedLens DEF None
<1> DEFINE a == SetPurchase(p, [status |-> "PAID"])
           b == Credit(AddOn, 1)
           op == "addOnPaid"
<1>1. a.kind = "purchase" /\ a.i = p /\ a.set = [status |-> "PAID"] /\ b.kind = "credit" /\ b.by = AddOn
  BY DEF SetPurchase, Credit
<1>2. Confirm(p) = <<a, b>>
  BY DEF Confirm
<1> HIDE DEF a, b
<1>3. Named(a, db, asaas) /\ Named(b, db, asaas)
  BY <1>1 DEF Named, Is
<1>4. At(op, p, a, 1, b) /\ At(op, p, b, 0, b)
  BY <1>0, <1>1 DEF At, AtAddOnPaid, Is
<1>5. Fitting(op, p, <<a, b>>, db, asaas)
  BY <1>3, <1>4, Two
<1>6. op \notin Cron /\ op # "buyAddOn" /\ op \notin Upgrading
  BY DEF Cron, Upgrading
<1> HIDE DEF op
<1>7. Program(op, p, <<a, b>>, db, asaas)
  BY <1>5, <1>6, FittingProgram
<1> QED
  BY <1>2, <1>7 DEF op

LEMMA OldestIn ==
  ASSUME Typed(db, asaas), NEW P, P \subseteq DOMAIN db.purchases, P # {}
  PROVE  Oldest(P) \in P
<1>1. P \in SUBSET Nat
  BY TypedLens
<1>2. PICK p \in P : \A q \in P : p <= q
  BY <1>1, SmallestFailure
<1> QED
  BY <1>2 DEF Oldest

LEMMA AddOnPaidTyped ==
  ASSUME Typed(db, asaas), TasksFit, NEW t \in Request, NEW m \in asaas.post, AddOnPaid(t, m)
  PROVE  TypeInv'
<1>0. PICK op : op = "addOnPaid"
  OBVIOUS
<1>1. op \notin Cron
  BY <1>0 DEF Cron
<1>2. ASSUME NEW p \in DOMAIN db.purchases, Receive(t, m, op, Confirm(p), p)
      PROVE  TypeInv'
  BY <1>0, <1>1, <1>2, ConfirmFits, Received
<1>3. ASSUME Receive(t, m, op, <<>>, None)
      PROVE  TypeInv'
  BY <1>1, <1>3, Received
<1>4. PICK named : named = BillOf(m).of
  OBVIOUS
<1>5. named \in DOMAIN db.purchases
  <2>1. m.event \in OfPayment /\ BillOf(m).for = "addon"
    BY DEF AddOnPaid, Paid, OfPayment
  <2>2. m.of \in DOMAIN asaas.bills
    BY <2>1 DEF Typed, MessageTyped
  <2> QED
    BY <2>1, <2>2, <1>4 DEF Typed, BillTyped, BillOf
<1>6. \/ Receive(t, m, op, Confirm(named), named)
      \/ Receive(t, m, op, <<>>, None)
      \/ \E i \in ActiveSubs : PendingOf(i) # {} /\ Receive(t, m, op, Confirm(Oldest(PendingOf(i))), Oldest(PendingOf(i)))
  BY <1>0, <1>4, Zenon DEF AddOnPaid
<1>7. ASSUME NEW i \in ActiveSubs, PendingOf(i) # {}, Receive(t, m, op, Confirm(Oldest(PendingOf(i))), Oldest(PendingOf(i)))
      PROVE  TypeInv'
  <2>1. PendingOf(i) \subseteq DOMAIN db.purchases
    BY DEF PendingOf
  <2>2. Oldest(PendingOf(i)) \in DOMAIN db.purchases
    BY <2>1, <1>7, OldestIn
  <2> QED
    BY <2>2, <1>2, <1>7
<1> QED
  BY <1>2, <1>3, <1>5, <1>6, <1>7

LEMMA CycleOverdueTyped ==
  ASSUME Typed(db, asaas), TasksFit, NEW t \in Request, NEW m \in asaas.post, CycleOverdue(t, m)
  PROVE  TypeInv'
<1>0. PICK op : op = "cycleOverdue"
  OBVIOUS
<1>1. op \notin Cron /\ op # "buyAddOn" /\ op \notin Upgrading
  BY <1>0 DEF Cron, Upgrading
<1>2. ASSUME Receive(t, m, op, <<>>, None)
      PROVE  TypeInv'
  BY <1>1, <1>2, Received
<1>3. ASSUME NEW i \in DOMAIN db.subs, NEW since \in {"recent", "late"},
             Receive(t, m, op, <<SetSub(i, [status |-> "PAST_DUE", overdue |-> since])>>, i)
      PROVE  TypeInv'
  <2> DEFINE set == [status |-> "PAST_DUE", overdue |-> since]
  <2>1. At(op, i, SetSub(i, set), 0, SetSub(i, set))
    BY <1>0 DEF At, AtCycleOverdue, SubOf, Is, SetSub
  <2>2. "ext" \notin DOMAIN set
    OBVIOUS
  <2>3. Receive(t, m, op, <<SetSub(i, set)>>, i)
    BY <1>3
  <2> HIDE DEF set
  <2>4. Program(op, i, <<SetSub(i, set)>>, db, asaas)
    BY <2>1, <2>2, <1>1, OneSub
  <2> QED
    BY <2>3, <2>4, <1>1, Received
<1>4. CASE \E i \in Linked(BillOf(m).of) :
             LET since == db.subs[i].overdue
             IN Receive(t, m, op,
                  <<SetSub(i, [status |-> "PAST_DUE", overdue |-> IF since = "no" THEN "recent" ELSE since])>>, i)
  <2>1. PICK i \in Linked(BillOf(m).of) : Receive(t, m, op,
          <<SetSub(i, [status |-> "PAST_DUE", overdue |-> IF db.subs[i].overdue = "no" THEN "recent" ELSE db.subs[i].overdue])>>, i)
    BY <1>4
  <2>2. i \in DOMAIN db.subs
    BY DEF Linked
  <2>3. PICK since : since = IF db.subs[i].overdue = "no" THEN "recent" ELSE db.subs[i].overdue
    OBVIOUS
  <2>4. since \in {"recent", "late"}
    <3>1. db.subs[i] \in SubRow
      BY <2>2, TypedLens, ElementOfSeq
    <3> QED
      BY <3>1, <2>3 DEF SubRow
  <2>5. Receive(t, m, op, <<SetSub(i, [status |-> "PAST_DUE", overdue |-> since])>>, i)
    BY <2>1, <2>3, Zenon
  <2> QED
    BY <2>2, <2>4, <2>5, <1>3
<1> QED
  BY <1>0, <1>2, <1>4 DEF CycleOverdue

LEMMA ExtCreatedTyped ==
  ASSUME Typed(db, asaas), TasksFit, NEW t \in Request, NEW m \in asaas.post, ExtCreated(t, m)
  PROVE  TypeInv'
<1>0. PICK op : op = "extCreated"
  OBVIOUS
<1>1. op \notin Cron /\ op # "buyAddOn" /\ op \notin Upgrading
  BY <1>0 DEF Cron, Upgrading
<1> DEFINE unlinked == {i \in DOMAIN db.subs : db.subs[i].ext = None}
           i == Latest(unlinked)
           set == [ext |-> m.of]
<1>2. Receive(t, m, op, IF unlinked = {} THEN <<>> ELSE <<SetSub(i, set)>>, None) /\ m.event = "SUBSCRIPTION_CREATED"
  BY <1>0 DEF ExtCreated
<1>3. unlinked # {} => i \in DOMAIN db.subs
  <2>1. unlinked \subseteq DOMAIN db.subs
    OBVIOUS
  <2> HIDE DEF unlinked
  <2> QED
    BY <2>1, LatestIn
<1>4. m.of \in DOMAIN asaas.subs
  BY <1>2 DEF Typed, MessageTyped, OfSubscription
<1>5. ASSUME NEW j \in DOMAIN db.subs PROVE Program(op, None, <<SetSub(j, set)>>, db, asaas)
  <2>1. set = [ext |-> set.ext] /\ set.ext \in DOMAIN asaas.subs
    BY <1>4
  <2> HIDE DEF set
  <2>2. At(op, None, SetSub(j, set), 0, SetSub(j, set))
    BY <1>0, <2>1 DEF At, AtExtCreated, Is, SetSub
  <2> QED
    BY <1>1, <2>1, <2>2, OneSub
<1> HIDE DEF unlinked, i, set
<1>6. CASE unlinked = {}
  BY <1>1, <1>2, <1>6, Received
<1>7. CASE unlinked # {}
  <2>1. Receive(t, m, op, <<SetSub(i, set)>>, None)
    BY <1>2, <1>7
  <2> QED
    BY <2>1, <1>1, <1>3, <1>5, <1>7, Received
<1> QED
  BY <1>6, <1>7

LEMMA ExtDeletedTyped ==
  ASSUME Typed(db, asaas), TasksFit, NEW t \in Request, NEW m \in asaas.post, ExtDeleted(t, m)
  PROVE  TypeInv'
<1>0. PICK op : op = "extDeleted"
  OBVIOUS
<1>1. op \notin Cron /\ op # "buyAddOn" /\ op \notin Upgrading
  BY <1>0 DEF Cron, Upgrading
<1>2. CASE Receive(t, m, op, <<>>, None)
  BY <1>1, <1>2, Received
<1>3. ASSUME NEW i \in Linked(m.of), Receive(t, m, op, <<SetSub(i, [status |-> "CANCELLED"]), SuspendAlone(i)>>, i)
      PROVE  TypeInv'
  <2> DEFINE a == SetSub(i, [status |-> "CANCELLED"])
             b == SuspendAlone(i)
  <2>1. a.kind = "sub" /\ a.i = i /\ a.set = [status |-> "CANCELLED"] /\ "ext" \notin DOMAIN a.set
        /\ b.kind = "suspendAlone" /\ b.i = i
    BY DEF SetSub, SuspendAlone
  <2>2. Receive(t, m, op, <<a, b>>, i)
    BY <1>3
  <2> HIDE DEF a, b
  <2>3. i \in DOMAIN db.subs
    BY DEF Linked
  <2>4. Named(a, db, asaas) /\ Named(b, db, asaas)
    BY <2>1, <2>3 DEF Named, Is
  <2>5. At(op, i, a, 1, b) /\ At(op, i, b, 0, b)
    BY <2>1, <1>0 DEF At, AtExtDeleted, Is, SubOf
  <2>6. Fitting(op, i, <<a, b>>, db, asaas)
    BY <2>4, <2>5, Two
  <2>7. Program(op, i, <<a, b>>, db, asaas)
    BY <2>6, <1>1, FittingProgram
  <2> QED
    BY <2>2, <2>7, <1>1, Received
<1> QED
  BY <1>0, <1>2, <1>3 DEF ExtDeleted

(* The writes of a payment of a month: three that activate the tenant, two *)
(* that move its plan, and the last one, z.                                *)
LEMMA CycleFits ==
  ASSUME Typed(db, asaas), NEW i \in DOMAIN db.subs, NEW z, z.kind = "sub", z.i = i, Renews(z), "ext" \notin DOMAIN z.set,
         NEW A, NEW B, A = <<>> \/ A = <<ActivateFirst, SetTenant([status |-> "ACTIVE"]), Onboard>>,
         IF Moving(z) THEN \E plan \in Plan : B = MovePlan(plan) /\ z.set.plan = plan ELSE B = <<>>,
         NEW r, r = (A \o B) \o <<z>>
  PROVE  Program("cyclePaid", i, r, db, asaas)
<1>0. PICK op : op = "cyclePaid"
  OBVIOUS
<1>1. op \notin Cron /\ op # "buyAddOn" /\ op \notin Upgrading
  BY <1>0 DEF Cron, Upgrading
<1>2. ASSUME NEW w, NEW e, AtCyclePaid(i, w, e, z) PROVE At(op, i, w, e, z)
  BY <1>0, <1>2 DEF At
<1>3. PICK y : y = <<z>>
  OBVIOUS
<1>4. Ending(op, i, y, 1, z, db, asaas)
  <2>1. Named(z, db, asaas)
    BY DEF Named, Is
  <2>2. AtCyclePaid(i, z, 0, z)
    BY DEF AtCyclePaid, Is
  <2>3. At(op, i, z, 0, z)
    BY <2>2, <1>2
  <2> QED
    BY <2>1, <2>3, <1>3, One DEF Ending
<1>5. PICK c \in {0, 2} : c = IF Moving(z) THEN 2 ELSE 0
  OBVIOUS
<1>6. Leading(op, i, B, 1, z, db, asaas) /\ Len(B) = c
  <2>1. CASE Moving(z)
    <3>1. PICK plan \in Plan : B = MovePlan(plan) /\ z.set.plan = plan
      BY <2>1
    <3>2. AtCyclePaid(i, SetTenant([plan |-> plan]), 2, z)
      <4>1. Is(SetTenant([plan |-> plan]), "tenant") /\ SetTenant([plan |-> plan]).set = [plan |-> plan]
        BY DEF SetTenant, Is
      <4> QED
        BY <4>1, <3>1, <2>1 DEF AtCyclePaid, Is, Tenant
    <3>3. AtCyclePaid(i, SetLimit(plan), 1, z)
      <4>1. Is(SetLimit(plan), "limit") /\ SetLimit(plan).to = plan
        BY DEF SetLimit, Is
      <4> QED
        BY <4>1, <3>1, <2>1 DEF AtCyclePaid, Is
    <3>4. At(op, i, SetTenant([plan |-> plan]), 1 + 1, z) /\ At(op, i, SetLimit(plan), 1, z) /\ 1 \in Nat
      BY <3>2, <3>3, <1>2
    <3>5. Leading(op, i, MovePlan(plan), 1, z, db, asaas) /\ Len(MovePlan(plan)) = 2
      BY <3>4, Moves
    <3> QED
      BY <3>1, <3>5, <2>1, <1>5
  <2>2. CASE ~Moving(z)
    BY <2>2, <1>5, LeadingEmpty
  <2> QED
    BY <2>1, <2>2
<1>7. Leading(op, i, A, c + 1, z, db, asaas)
  <2>1. CASE A = <<>>
    BY <2>1, LeadingEmpty
  <2>2. CASE A = <<ActivateFirst, SetTenant([status |-> "ACTIVE"]), Onboard>>
    <3>1. PICK a : a = ActivateFirst
      OBVIOUS
    <3>2. PICK b : b = SetTenant([status |-> "ACTIVE"])
      OBVIOUS
    <3>3. PICK d : d = Onboard
      OBVIOUS
    <3>4. a.kind = "activate" /\ b.kind = "tenant" /\ b.set = [status |-> "ACTIVE"] /\ d.kind = "onboard"
      BY <3>1, <3>2, <3>3 DEF ActivateFirst, SetTenant, Onboard
    <3>5. A = <<a, b, d>>
      BY <2>2, <3>1, <3>2, <3>3
    <3>6. Listed(A) /\ Len(A) = 3 /\ A[1] = a /\ A[2] = b /\ A[3] = d /\ DOMAIN A = 1 .. 3
      BY <3>5, Triple
    <3>7. AtCyclePaid(i, a, c + 3, z) /\ AtCyclePaid(i, b, c + 2, z) /\ AtCyclePaid(i, d, c + 1, z)
      <4>1. CASE Moving(z)
        <5>1. c = 2
          BY <4>1, <1>5
        <5> QED
          BY <4>1, <5>1, <3>4 DEF AtCyclePaid, Is, Tenant
      <4>2. CASE ~Moving(z)
        <5>1. c = 0
          BY <4>2, <1>5
        <5> QED
          BY <4>2, <5>1, <3>4 DEF AtCyclePaid, Is, Tenant
      <4> QED
        BY <4>1, <4>2
    <3>8. At(op, i, a, c + 3, z) /\ At(op, i, b, c + 2, z) /\ At(op, i, d, c + 1, z)
      BY <3>7, <1>2
    <3>9. Named(a, db, asaas) /\ Named(b, db, asaas) /\ Named(d, db, asaas)
      BY <3>4 DEF Named, Is
    <3>10. 3 - 1 + (c + 1) = c + 3 /\ 3 - 2 + (c + 1) = c + 2 /\ 3 - 3 + (c + 1) = c + 1
      BY <1>5
    <3>11. ASSUME NEW k \in DOMAIN A PROVE At(op, i, A[k], Len(A) - k + (c + 1), z) /\ Named(A[k], db, asaas)
      <4>1. k \in {1, 2, 3}
        BY <3>6
      <4> QED
        BY <4>1, <3>6, <3>8, <3>9, <3>10
    <3> QED
      BY <3>6, <3>11 DEF Leading
  <2> QED
    BY <2>1, <2>2
<1>8. PICK h : h = A \o B
  OBVIOUS
<1>9. Leading(op, i, h, 1, z, db, asaas)
  <2>1. 1 \in Nat /\ Leading(op, i, A, Len(B) + 1, z, db, asaas)
    BY <1>6, <1>7
  <2> QED
    BY <2>1, <1>6, <1>8, LeadingJoined, Zenon
<1>10. r = h \o y
  BY <1>3, <1>8
<1>11. Ending(op, i, r, Len(h) + 1, z, db, asaas)
  BY <1>4, <1>9, <1>10, Prefixed, Zenon
<1>12. Fitting(op, i, r, db, asaas)
  BY <1>11 DEF Ending
<1> QED
  BY <1>0, <1>1, <1>12, FittingProgram

LEMMA CyclePaidTyped ==
  ASSUME Typed(db, asaas), TasksFit, NEW t \in Request, NEW m \in asaas.post, CyclePaid(t, m)
  PROVE  TypeInv'
<1>0. PICK op : op = "cyclePaid"
  OBVIOUS
<1>1. op \notin Cron
  BY <1>0 DEF Cron
<1>2. CASE Receive(t, m, op, <<>>, None)
  BY <1>1, <1>2, Received
<1>3. ASSUME NEW i \in DOMAIN db.subs, NEW moves, moves = (db.subs[i].pending # None), NEW plan,
             plan = IF moves THEN db.subs[i].pending ELSE db.subs[i].plan,
             NEW A, A = (IF db.tenant.status = "ACTIVE" THEN <<>>
                         ELSE <<ActivateFirst, SetTenant([status |-> "ACTIVE"]), Onboard>>),
             NEW B, B = (IF moves THEN MovePlan(plan) ELSE <<>>),
             NEW set, set = (IF moves THEN [status |-> "ACTIVE", overdue |-> "no", plan |-> plan, pending |-> None, due |-> FALSE]
                             ELSE [status |-> "ACTIVE", overdue |-> "no"]),
             NEW r, r = (A \o B) \o <<SetSub(i, set)>>, Receive(t, m, op, r, i)
      PROVE  TypeInv'
  <2>1. PICK z : z = SetSub(i, set)
    OBVIOUS
  <2>2. z.kind = "sub" /\ z.i = i /\ z.set = set
    BY <2>1 DEF SetSub
  <2>3. db.subs[i].pending \in Plan \cup {None}
    <3>1. db.subs[i] \in SubRow
      BY TypedLens, ElementOfSeq
    <3> QED
      BY <3>1 DEF SubRow
  <2>4. moves => plan \in Plan
    BY <2>3, <1>3
  <2>5. /\ Renews(z) /\ "ext" \notin DOMAIN z.set
        /\ IF Moving(z) THEN \E p \in Plan : B = MovePlan(p) /\ z.set.plan = p ELSE B = <<>>
    <3>1. CASE moves
      <4>1. set = [status |-> "ACTIVE", overdue |-> "no", plan |-> plan, pending |-> None, due |-> FALSE] /\ B = MovePlan(plan)
        BY <3>1, <1>3
      <4>2. Renews(z)
        BY <3>1, <4>1, <2>2, <2>4 DEF Renews, Sub, Is
      <4>3. DOMAIN z.set = {"status", "overdue", "plan", "pending", "due"} /\ z.set.plan = plan
        BY <4>1, <2>2
      <4> QED
        BY <4>1, <4>2, <4>3, <3>1, <2>4 DEF Moving
    <3>2. CASE ~moves
      <4>1. set = [status |-> "ACTIVE", overdue |-> "no"] /\ B = <<>>
        BY <3>2, <1>3
      <4>2. Renews(z)
        BY <4>1, <2>2 DEF Renews, Sub, Is
      <4>3. DOMAIN z.set = {"status", "overdue"}
        BY <4>1, <2>2
      <4> QED
        BY <4>1, <4>2, <4>3 DEF Moving
    <3> QED
      BY <3>1, <3>2, <1>3
  <2>6. A = <<>> \/ A = <<ActivateFirst, SetTenant([status |-> "ACTIVE"]), Onboard>>
    BY <1>3
  <2>7. r = (A \o B) \o <<z>>
    BY <2>1, <1>3
  <2>8. Program("cyclePaid", i, r, db, asaas)
    BY <2>2, <2>5, <2>6, <2>7, CycleFits, Zenon
  <2> QED
    BY <2>8, <1>0, <1>1, <1>3, Received
<1>4. CASE \E i \in Linked(BillOf(m).of) :
          LET s == db.subs[i]
              moves == s.pending # None
              plan == IF moves THEN s.pending ELSE s.plan
          IN Receive(t, m, "cyclePaid",
                  (IF db.tenant.status = "ACTIVE" THEN <<>>
                   ELSE <<ActivateFirst, SetTenant([status |-> "ACTIVE"]), Onboard>>)
               \o (IF moves THEN MovePlan(plan) ELSE <<>>)
               \o <<SetSub(i, IF moves THEN [status |-> "ACTIVE", overdue |-> "no",
                                            plan |-> plan, pending |-> None, due |-> FALSE]
                              ELSE [status |-> "ACTIVE", overdue |-> "no"])>>, i)
  <2>1. PICK i \in Linked(BillOf(m).of) :
          LET s == db.subs[i]
              moves == s.pending # None
              plan == IF moves THEN s.pending ELSE s.plan
          IN Receive(t, m, "cyclePaid",
                  (IF db.tenant.status = "ACTIVE" THEN <<>>
                   ELSE <<ActivateFirst, SetTenant([status |-> "ACTIVE"]), Onboard>>)
               \o (IF moves THEN MovePlan(plan) ELSE <<>>)
               \o <<SetSub(i, IF moves THEN [status |-> "ACTIVE", overdue |-> "no",
                                            plan |-> plan, pending |-> None, due |-> FALSE]
                              ELSE [status |-> "ACTIVE", overdue |-> "no"])>>, i)
    BY <1>4
  <2>2. i \in DOMAIN db.subs
    BY DEF Linked
  <2>3. PICK moves \in BOOLEAN : moves = (db.subs[i].pending # None)
    OBVIOUS
  <2>4. PICK plan : plan = IF moves THEN db.subs[i].pending ELSE db.subs[i].plan
    OBVIOUS
  <2>5. PICK A : A = (IF db.tenant.status = "ACTIVE" THEN <<>>
                      ELSE <<ActivateFirst, SetTenant([status |-> "ACTIVE"]), Onboard>>)
    OBVIOUS
  <2>6. PICK B : B = (IF moves THEN MovePlan(plan) ELSE <<>>)
    OBVIOUS
  <2>7. PICK set : set = (IF moves THEN [status |-> "ACTIVE", overdue |-> "no", plan |-> plan, pending |-> None, due |-> FALSE]
                          ELSE [status |-> "ACTIVE", overdue |-> "no"])
    OBVIOUS
  <2>8. PICK r : r = (A \o B) \o <<SetSub(i, set)>>
    OBVIOUS
  <2>9. Receive(t, m, op, r, i)
    <3>1. CASE moves
      BY <3>1, <2>1, <2>3, <2>4, <2>5, <2>6, <2>7, <2>8, <1>0, Zenon
    <3>2. CASE ~moves
      BY <3>2, <2>1, <2>3, <2>4, <2>5, <2>6, <2>7, <2>8, <1>0, Zenon
    <3> QED
      BY <3>1, <3>2
  <2> QED
    BY <2>2, <2>3, <2>4, <2>5, <2>6, <2>7, <2>8, <2>9, <1>3
<1> QED
  BY <1>0, <1>2, <1>4 DEF CyclePaid

----------------------------------------------------------------------------
(* The daily jobs.                                                         *)

LEMMA BlocksTyped ==
  ASSUME Typed(db, asaas), TasksFit, NEW op \in Cron, NEW I, IsFiniteSet(I), NEW blocks,
         \A i \in I : Whole(op, blocks[i]), NEW order \in SetToSeqs(I), Job(op, Each(order, blocks))
  PROVE  TypeInv'
<1> DEFINE W == UNION {{blocks[i][k] : k \in DOMAIN blocks[i]} : i \in I}
<1>1. ASSUME NEW i \in I PROVE blocks[i] \in Seq(W)
  <2>1. PICK s : s = blocks[i]
    OBVIOUS
  <2> DEFINE S == {s[k] : k \in DOMAIN s}
  <2>2. s \in Seq(S)
    BY <2>1 DEF Whole, Program, Listed
  <2>3. S \subseteq W
    BY <2>1
  <2> HIDE DEF S, W
  <2>4. s \in Seq(W)
    BY <2>2, <2>3
  <2> QED
    BY <2>1, <2>4
<1> HIDE DEF W
<1> QED
  BY <1>1, JobTyped

LEMMA CheckOverdueTyped ==
  ASSUME Typed(db, asaas), TasksFit, CheckOverdue
  PROVE  TypeInv'
<1>0. PICK op : op = "checkOverdueSubscriptions"
  OBVIOUS
<1>1. op \in Cron /\ op \notin {Applier, Floorer}
  BY <1>0 DEF Cron, Applier, Floorer
<1> DEFINE blocks == [i \in Late |-> <<SetTenant([status |-> "BLOCKED"]), SetSub(i, [status |-> "SUSPENDED"])>>]
<1>2. PICK order \in SetToSeqs(Late) : Job(op, Each(order, blocks))
  BY <1>0 DEF CheckOverdue
<1>3. Late \subseteq DOMAIN db.subs
  BY DEF Late
<1>4. ASSUME NEW i \in Late PROVE Whole(op, blocks[i])
  <2>1. PICK a : a = SetTenant([status |-> "BLOCKED"])
    OBVIOUS
  <2>2. PICK b : b = SetSub(i, [status |-> "SUSPENDED"])
    OBVIOUS
  <2>3. /\ a.kind = "tenant" /\ a.set = [status |-> "BLOCKED"]
        /\ b.kind = "sub" /\ b.i = i /\ b.set = [status |-> "SUSPENDED"] /\ "ext" \notin DOMAIN b.set
    BY <2>1, <2>2 DEF SetTenant, SetSub
  <2>4. PICK s : s = <<a, b>>
    OBVIOUS
  <2>5. blocks[i] = s
    BY <2>1, <2>2, <2>4
  <2>6. Named(a, db, asaas) /\ Named(b, db, asaas)
    BY <2>3, <1>3 DEF Named, Is
  <2>7. At(op, None, a, 1, b) /\ At(op, None, b, 0, b)
    BY <2>3, <1>0 DEF At, AtCheckOverdue, Is, Tenant, Sub
  <2>8. Fitting(op, None, s, db, asaas) /\ Len(s) = 2
    BY <2>4, <2>6, <2>7, Two, Pair
  <2>9. Program(op, None, s, db, asaas)
    BY <2>8, <1>0, <1>1 DEF Program, Fitting, Upgrading
  <2>10. Period(op) = 2
    BY <1>1 DEF Period
  <2>11. Whole(op, s)
    BY <2>8, <2>9, <2>10 DEF Whole
  <2> QED
    BY <2>5, <2>11
<1> HIDE DEF blocks
<1>5. IsFiniteSet(Late)
  BY <1>3, SubsFinite
<1> QED
  BY <1>1, <1>2, <1>4, <1>5, BlocksTyped

LEMMA ApplyPendingTyped ==
  ASSUME Typed(db, asaas), TasksFit, ApplyPending
  PROVE  TypeInv'
<1>0. PICK op : op = Applier
  OBVIOUS
<1>1. op \in Cron /\ op # Floorer
  BY <1>0 DEF Cron, Applier, Floorer
<1> DEFINE block(i) == <<SetSub(i, [plan |-> db.subs[i].pending, pending |-> None, due |-> FALSE]),
                         SetTenant([plan |-> db.subs[i].pending])>> \o MovePlan(db.subs[i].pending)
           blocks == [i \in PlansDue |-> block(i)]
<1>2. PICK order \in SetToSeqs(PlansDue) : Job(op, Each(order, blocks))
  BY <1>0 DEF ApplyPending, Applier
<1>3. PlansDue \subseteq DOMAIN db.subs
  BY CurrentSubs DEF PlansDue
<1>4. ASSUME NEW i \in PlansDue PROVE Whole(op, blocks[i])
  <2>0. PICK plan : plan = db.subs[i].pending
    OBVIOUS
  <2>p. plan \in Plan
    <3>1. db.subs[i] \in SubRow /\ plan # None
      BY <1>3, <2>0, TypedLens, ElementOfSeq DEF PlansDue
    <3> QED
      BY <3>1, <2>0 DEF SubRow
  <2>1. PICK a : a = SetSub(i, [plan |-> plan, pending |-> None, due |-> FALSE])
    OBVIOUS
  <2>2. PICK b : b = SetTenant([plan |-> plan])
    OBVIOUS
  <2>3. PICK e : e = SetLimit(plan)
    OBVIOUS
  <2>4. /\ a.kind = "sub" /\ a.i = i /\ a.set = [plan |-> plan, pending |-> None, due |-> FALSE] /\ "ext" \notin DOMAIN a.set
        /\ b.kind = "tenant" /\ b.set = [plan |-> plan] /\ b.set.plan = plan
        /\ e.kind = "limit" /\ e.to = plan
    BY <2>1, <2>2, <2>3 DEF SetTenant, SetSub, SetLimit
  <2>5. PICK x : x = <<a, b>>
    OBVIOUS
  <2>6. PICK y : y = <<b, e>>
    OBVIOUS
  <2>7. PICK s : s = x \o y
    OBVIOUS
  <2>8. blocks[i] = s
    BY <2>0, <2>1, <2>2, <2>3, <2>5, <2>6, <2>7 DEF MovePlan
  <2>9. Listed(x) /\ Len(x) = 2 /\ x[1] = a /\ x[2] = b
    BY <2>5, Pair
  <2>10. Listed(y) /\ Len(y) = 2 /\ y[1] = b /\ y[2] = e
    BY <2>6, Pair
  <2>11. Listed(s) /\ Len(s) = 4 /\ s[1] = a /\ s[2] = b /\ s[3] = b /\ s[4] = e /\ DOMAIN s = 1 .. 4
    <3>1. /\ Listed(x \o y) /\ Len(x \o y) = Len(x) + Len(y) /\ DOMAIN (x \o y) = 1 .. Len(x) + Len(y)
          /\ \A k \in 1 .. Len(x) : (x \o y)[k] = x[k]
          /\ \A k \in 1 .. Len(y) : (x \o y)[Len(x) + k] = y[k]
      <4>1. Listed(x) /\ Listed(y)
        BY <2>9, <2>10
      <4> QED
        BY <4>1, Joined
    <3>2. /\ Listed(s) /\ Len(s) = Len(x) + Len(y) /\ DOMAIN s = 1 .. Len(x) + Len(y)
          /\ \A k \in 1 .. Len(x) : s[k] = x[k]
          /\ \A k \in 1 .. Len(y) : s[Len(x) + k] = y[k]
      BY <3>1, <2>7
    <3>3. s[1] = a /\ s[2] = b /\ s[2 + 1] = b /\ s[2 + 2] = e
      BY <3>2, <2>9, <2>10
    <3> QED
      BY <3>2, <3>3, <2>9, <2>10
  <2>12. Named(a, db, asaas) /\ Named(b, db, asaas) /\ Named(e, db, asaas)
    BY <2>4, <1>3 DEF Named, Is
  <2>13. At(op, None, a, 3, e) /\ At(op, None, b, 2, e) /\ At(op, None, b, 1, e) /\ At(op, None, e, 0, e)
    <3>1. 3 % 4 = 3 /\ 2 % 4 = 2 /\ 1 % 4 = 1 /\ 0 % 4 = 0
      OBVIOUS
    <3>2. AtApplyPending(a, 3)
      BY <3>1, <2>4, <2>p DEF AtApplyPending, Is, Sub
    <3>3. AtApplyPending(b, 2) /\ AtApplyPending(b, 1)
      BY <3>1, <2>4, <2>p DEF AtApplyPending, Is, Tenant
    <3>4. AtApplyPending(e, 0)
      BY <3>1, <2>4, <2>p DEF AtApplyPending, Is
    <3> QED
      BY <3>2, <3>3, <3>4, <1>0 DEF At
  <2>14. Program(op, None, s, db, asaas)
    <3>1. ASSUME NEW k \in DOMAIN s PROVE At(op, None, s[k], Len(s) - k, s[Len(s)]) /\ Named(s[k], db, asaas)
      <4>1. k \in {1, 2, 3, 4} /\ 4 - 1 = 3 /\ 4 - 2 = 2 /\ 4 - 3 = 1 /\ 4 - 4 = 0
        BY <2>11
      <4> QED
        BY <4>1, <2>11, <2>12, <2>13
    <3>2. ASSUME NEW k \in DOMAIN s, Is(s[k], "tenant")
          PROVE  \/ Tenant(s[k + 1], s[k].set)
                 \/ Is(s[k + 1], "limit") /\ s[k + 1].to = s[k].set.plan
      <4>1. k \in {1, 2, 3, 4} /\ 2 + 1 = 3 /\ 3 + 1 = 4
        BY <2>11
      <4>2. CASE k = 2
        BY <4>1, <4>2, <2>4, <2>11 DEF Tenant, Is
      <4>3. CASE k = 3
        BY <4>1, <4>3, <2>4, <2>11 DEF Tenant, Is
      <4>4. k \notin {1, 4}
        BY <3>2, <2>4, <2>11 DEF Is
      <4> QED
        BY <4>1, <4>2, <4>3, <4>4
    <3>3. op # "buyAddOn" /\ op \notin Upgrading
      BY <1>0 DEF Applier, Upgrading
    <3> QED
      BY <3>1, <3>2, <3>3, <2>11, <1>1 DEF Program
  <2>15. Len(s) % Period(op) = 0
    <3>1. Period(op) = 4
      BY <1>0, <1>1 DEF Period
    <3> QED
      BY <3>1, <2>11
  <2>16. Whole(op, s)
    BY <2>14, <2>15 DEF Whole
  <2> QED
    BY <2>8, <2>16
<1> HIDE DEF blocks
<1>5. IsFiniteSet(PlansDue)
  BY <1>3, SubsFinite
<1> QED
  BY <1>1, <1>2, <1>4, <1>5, BlocksTyped

LEMMA ExpireAddOnsTyped ==
  ASSUME Typed(db, asaas), TasksFit, ExpireAddOns
  PROVE  TypeInv'
<1>0. PICK op : op = Floorer
  OBVIOUS
<1>1. op \in Cron /\ op # Applier
  BY <1>0 DEF Cron, Applier, Floorer
<1> DEFINE blocks == [p \in AddOnsDue |-> <<Credit(-AddOn, 2), Floor, SetPurchase(p, [status |-> "EXPIRED"])>>]
<1>2. PICK order \in SetToSeqs(AddOnsDue) : Job(op, Each(order, blocks))
  BY <1>0 DEF ExpireAddOns, Floorer
<1>3. AddOnsDue \subseteq DOMAIN db.purchases
  BY DEF AddOnsDue, PaidAddOns
<1>4. ASSUME NEW p \in AddOnsDue PROVE Whole(op, blocks[p])
  <2>1. PICK a : a = Credit(-AddOn, 2)
    OBVIOUS
  <2>2. PICK b : b = Floor
    OBVIOUS
  <2>3. PICK c : c = SetPurchase(p, [status |-> "EXPIRED"])
    OBVIOUS
  <2>4. /\ a.kind = "credit" /\ a.by = -AddOn /\ b.kind = "floor"
        /\ c.kind = "purchase" /\ c.i = p /\ c.set = [status |-> "EXPIRED"]
    BY <2>1, <2>2, <2>3 DEF Credit, Floor, SetPurchase
  <2>5. p # None
    BY <1>3, TypedLens DEF None
  <2>6. PICK s : s = <<a, b, c>>
    OBVIOUS
  <2>7. blocks[p] = s
    BY <2>1, <2>2, <2>3, <2>6
  <2>8. Named(a, db, asaas) /\ Named(b, db, asaas) /\ Named(c, db, asaas)
    BY <2>4, <1>3 DEF Named, Is
  <2>9. At(op, None, a, 2, c) /\ At(op, None, b, 1, c) /\ At(op, None, c, 0, c)
    BY <2>4, <2>5, <1>0 DEF At, AtExpireAddOns, Is
  <2>10. Listed(s) /\ Len(s) = 3 /\ s[1] = a /\ s[2] = b /\ s[3] = c /\ DOMAIN s = 1 .. 3
    BY <2>6, Triple
  <2>11. Fitting(op, None, s, db, asaas)
    BY <2>6, <2>8, <2>9, Three
  <2>12. \A k \in DOMAIN s : ~Found(s[k])
    <3>1. \A k \in DOMAIN s : k \in {1, 2, 3}
      BY <2>10
    <3> QED
      BY <3>1, <2>4, <2>10 DEF Found, Is
  <2>13. op # "buyAddOn" /\ op \notin Upgrading
    BY <1>0 DEF Floorer, Upgrading
  <2>14. Program(op, None, s, db, asaas)
    BY <2>11, <2>12, <2>13, <1>1 DEF Program, Fitting
  <2>15. Len(s) % Period(op) = 0
    <3>1. Period(op) = 3
      BY <1>0 DEF Period
    <3> QED
      BY <3>1, <2>10
  <2>16. Whole(op, s)
    BY <2>14, <2>15 DEF Whole
  <2> QED
    BY <2>7, <2>16
<1> HIDE DEF blocks
<1>5. IsFiniteSet(AddOnsDue)
  BY <1>3, PurchasesFinite
<1> QED
  BY <1>1, <1>2, <1>4, <1>5, BlocksTyped

----------------------------------------------------------------------------
LEMMA HandleTyped ==
  ASSUME Typed(db, asaas), TasksFit, NEW t \in Request, Handle(t)
  PROVE  TypeInv'
  BY SubscribeTyped, DowngradeTyped, UpgradeTyped, CancelDowngradeTyped, BuyAddOnTyped, UpgradePaidTyped, AddOnPaidTyped,
     CyclePaidTyped, CycleOverdueTyped, ExtCreatedTyped, ExtDeletedTyped
  DEF Handle

LEMMA InitTyped == Init => TypeInv
<1> SUFFICES ASSUME Init PROVE TypeInv
  OBVIOUS
<1>1. PICK s \in FirstStates : db = s.db /\ asaas = s.asaas
  BY DEF Init
<1>2. Typed(db, asaas)
  BY <1>1, FirstStatesAssumption DEF Sound
<1>3. Len(asaas.subs) \in Nat
  BY <1>2, TypedLens
<1>4. DOMAIN task = Slot /\ \A t \in Slot : task[t] = Idle
  BY DEF Init
<1>5. TasksFit
  BY <1>3, <1>4, FitsIdle DEF TasksFit
<1> QED
  BY <1>2, <1>5 DEF TypeInv

LEMMA NextTyped == TypeInv /\ [Next]_billingVars => TypeInv'
<1> SUFFICES ASSUME TypeInv, [Next]_billingVars PROVE TypeInv'
  OBVIOUS
<1>0. Typed(db, asaas) /\ (slips = {} => TasksFit)
  BY DEF TypeInv
<1>1. CASE UNCHANGED billingVars
  <2>1. db' = db /\ asaas' = asaas /\ task' = task /\ slips' = slips
    BY <1>1 DEF billingVars, vars
  <2>2. Typed(db, asaas)'
    BY <2>1, <1>0
  <2>3. Slot' = Slot
    BY DEF Slot, Cron
  <2>4. TasksFit => TasksFit'
    BY <2>1, <2>3 DEF TasksFit
  <2> QED
    BY <2>1, <2>2, <2>4, <1>0 DEF TypeInv
<1>2. ASSUME NEW t \in Request, Go(Handle(t)) PROVE TypeInv'
  BY <1>0, <1>2, HandleTyped DEF Go
<1>3. ASSUME Go(CheckOverdue) PROVE TypeInv'
  BY <1>0, <1>3, CheckOverdueTyped DEF Go
<1>4. ASSUME Go(ApplyPending) PROVE TypeInv'
  BY <1>0, <1>4, ApplyPendingTyped DEF Go
<1>5. ASSUME Go(ExpireAddOns) PROVE TypeInv'
  BY <1>0, <1>5, ExpireAddOnsTyped DEF Go
<1>6. ASSUME NEW t \in Slot, Go(Step(t)) PROVE TypeInv'
  BY <1>0, <1>6, StepTyped DEF Go
<1>7. ASSUME NEW t \in Slot, Halt(t) PROVE TypeInv'
  BY <1>0, <1>7, HaltTyped
<1>8. ASSUME Go(Gateway) PROVE TypeInv'
  BY <1>0, <1>8, GatewayTyped DEF Go
<1>9. ASSUME Go(Time) PROVE TypeInv'
  BY <1>0, <1>9, TimeTyped DEF Go
<1> QED
  BY <1>1, <1>2, <1>3, <1>4, <1>5, <1>6, <1>7, <1>8, <1>9 DEF Next

(* Every row keeps its type, and refers to rows that exist, whatever the   *)
(* handlers of asaas.service.ts, the jobs, the gateway and the days do in  *)
(* between their single writes.                                            *)
THEOREM BillingTyped == Spec => []BillingTypeOK
<1>1. TypeInv => BillingTypeOK
  BY DEF TypeInv, BillingTypeOK
<1> QED
  BY <1>1, InitTyped, NextTyped, PTL DEF Spec
=============================================================================
