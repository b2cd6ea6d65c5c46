------------------------- MODULE ServiceOrderProofs -------------------------
(***************************************************************************)
(* Proofs about ServiceOrder, for every number of technicians, links and   *)
(* requests and every set of handlers.  The invariant IInv says what each  *)
(* request in flight still knows; every handler starts a request that      *)
(* satisfies it (DeskPlans, PortalPlans, MoneyPlans), and every commit     *)
(* keeps it for the others (CommitKeeps).  What holds of one request at a  *)
(* time has an invariant of its own on top of it, AloneInv.                *)
(***************************************************************************)
EXTENDS ServiceOrder, SequenceTheorems, TLAPS

----------------------------------------------------------------------------
(* Sequences *)

(* A sequence over some set is a sequence over its own elements.           *)
LEMMA SeqIntro ==
  ASSUME NEW T, NEW s \in Seq(T)
  PROVE  IsSeq(s)
<1> DEFINE R == {s[k] : k \in DOMAIN s}
<1>1. Len(s) \in Nat /\ DOMAIN s = 1 .. Len(s) /\ s = [i \in 1 .. Len(s) |-> s[i]]
  OBVIOUS
<1>2. s \in [1 .. Len(s) -> R]
  BY <1>1
<1>3. s \in Seq(R)
  BY <1>1, <1>2, SeqDef
<1> QED
  BY <1>3 DEF IsSeq

(* What is left of a request's transactions after the first.               *)
LEMMA SeqHeadTail ==
  ASSUME NEW s, IsSeq(s), s # <<>>
  PROVE  /\ 1 \in DOMAIN s /\ Head(s) = s[1]
         /\ IsSeq(Tail(s))
         /\ \A k \in DOMAIN Tail(s) : k # 0 /\ k + 1 # 1 /\ k + 1 \in DOMAIN s /\ Tail(s)[k] = s[k + 1]
<1>1. PICK T : s \in Seq(T)
  BY DEF IsSeq
<1>2. 1 \in DOMAIN s /\ Head(s) = s[1]
  BY <1>1
<1>3. \A k \in DOMAIN Tail(s) : k # 0 /\ k + 1 # 1 /\ k + 1 \in DOMAIN s /\ Tail(s)[k] = s[k + 1]
  BY <1>1
<1>4. Tail(s) \in Seq(T)
  BY <1>1, HeadTailProperties
<1>5. IsSeq(Tail(s))
  BY <1>4, SeqIntro
<1> QED
  BY <1>2, <1>3, <1>5

(* The first transaction replaced.                                         *)
LEMMA SeqCons ==
  ASSUME NEW s, IsSeq(s), NEW y
  PROVE  /\ IsSeq(<<y>> \o s)
         /\ 1 \in DOMAIN (<<y>> \o s) /\ (<<y>> \o s)[1] = y
         /\ \A k \in DOMAIN (<<y>> \o s) :
              k # 1 => k - 1 \in DOMAIN s /\ (<<y>> \o s)[k] = s[k - 1] /\ k = (k - 1) + 1
<1> DEFINE c == <<y>> \o s
<1>1. PICK T : s \in Seq(T)
  BY DEF IsSeq
<1>2. s \in Seq(T \cup {y}) /\ <<y>> \in Seq(T \cup {y})
  BY <1>1
<1>3. c \in Seq(T \cup {y})
  BY <1>2
<1>4. Len(c) = 1 + Len(s)
  BY <1>2
<1>5. \A k \in 1 .. Len(c) : c[k] = IF k = 1 THEN y ELSE s[k - 1]
  BY <1>2, <1>4
<1>6. IsSeq(c)
  BY <1>3, SeqIntro
<1>7. Len(s) \in Nat /\ DOMAIN s = 1 .. Len(s) /\ DOMAIN c = 1 .. (1 + Len(s))
  BY <1>1, <1>3, <1>4
<1> QED
  BY <1>4, <1>5, <1>6, <1>7

LEMMA SeqConcat ==
  ASSUME NEW s, NEW t, IsSeq(s), IsSeq(t)
  PROVE  /\ IsSeq(s \o t)
         /\ DOMAIN s \subseteq DOMAIN (s \o t)
         /\ \A k \in DOMAIN s : (s \o t)[k] = s[k]
         /\ \A k \in DOMAIN (s \o t) :
              k \notin DOMAIN s => /\ k - Len(s) \in DOMAIN t
                                   /\ (s \o t)[k] = t[k - Len(s)]
<1>1. PICK T : s \in Seq(T)
  BY DEF IsSeq
<1>2. PICK U : t \in Seq(U)
  BY DEF IsSeq
<1>3. s \in Seq(T \cup U) /\ t \in Seq(T \cup U)
  BY <1>1, <1>2
<1>4. s \o t \in Seq(T \cup U)
  BY <1>3
<1>5. IsSeq(s \o t)
  BY <1>4, SeqIntro
<1>6. /\ Len(s) \in Nat /\ DOMAIN s = 1 .. Len(s)
      /\ Len(t) \in Nat /\ DOMAIN t = 1 .. Len(t)
      /\ DOMAIN (s \o t) = 1 .. (Len(s) + Len(t))
  BY <1>3, <1>4
<1>7. \A k \in 1 .. (Len(s) + Len(t)) :
        (s \o t)[k] = IF k <= Len(s) THEN s[k] ELSE t[k - Len(s)]
  BY <1>3
<1> QED
  BY <1>5, <1>6, <1>7

LEMMA SeqOne ==
  ASSUME NEW y
  PROVE  IsSeq(<<y>>) /\ DOMAIN <<y>> = {1} /\ <<y>>[1] = y
BY DEF IsSeq

LEMMA SeqTwo ==
  ASSUME NEW y, NEW z
  PROVE  IsSeq(<<y, z>>) /\ DOMAIN <<y, z>> = {1, 2} /\ <<y, z>>[1] = y /\ <<y, z>>[2] = z
BY DEF IsSeq

LEMMA SeqJoin ==
  ASSUME NEW y, NEW z
  PROVE  <<y>> \o <<>> = <<y>> /\ <<>> \o <<y>> = <<y>> /\ <<y>> \o <<z>> = <<y, z>>
<1>1. <<y>> \in Seq({y, z}) /\ <<z>> \in Seq({y, z}) /\ <<>> \in Seq({y, z})
  OBVIOUS
<1>2. <<y>> \o <<>> = <<y>> /\ <<>> \o <<y>> = <<y>>
  BY <1>1, ConcatEmptySeq
<1> DEFINE c == <<y>> \o <<z>>
<1>3. c \in Seq({y, z}) /\ Len(c) = 2 /\ c[1] = y /\ c[2] = z
  BY <1>1, ConcatProperties
<1>4. <<y, z>> \in Seq({y, z}) /\ Len(<<y, z>>) = 2
  OBVIOUS
<1>5. c = <<y, z>>
  <2> HIDE DEF c
  <2> QED
    BY <1>3, <1>4, SeqEqual
<1> QED
  BY <1>2, <1>5

----------------------------------------------------------------------------
(* The inductive invariant *)

Assigns(x) == "assigned" \in DOMAIN x.set
Accepts(x) == "acceptedAt" \in DOMAIN x.set /\ x.set["acceptedAt"] = "set"

(* What is known of x, the k-th transaction that handler op has still to   *)
(* run, when the tables in stale have been overwritten since its snapshot. *)
Sound(op, x, k, stale) ==
  /\ Assigns(x) /\ x.set["assigned"] = NoTech =>
       "acceptedAt" \in DOMAIN x.set /\ x.set["acceptedAt"] = "null"
  /\ Accepts(x) /\ ~Assigns(x) =>
       k = 1 /\ x.serial /\ ("row" \notin stale => os.assigned # NoTech)
  /\ x.otp # NoTech =>
       k = 1 /\ x.serial /\ x.set # Nothing /\ ("row" \notin stale => otps[x.otp] > 0)
  /\ op \in AcceptHandlers =>
       k = 1 /\ x.serial /\ (Assigns(x) /\ "row" \notin stale => os.assigned = NoTech)

InFlight ==
  \A r \in Request : \A k \in DOMAIN req[r].todo :
    Sound(req[r].op, req[r].todo[k], k, req[r].stale)

IInv == TypeOK /\ AcceptedHasTech /\ InFlight

(* A request that starts: a list of sound transactions.                    *)
Planned(r) ==
  \E op \in Handlers : \E todo :
    /\ Begin(r, op, todo)
    /\ IsSeq(todo)
    /\ \A k \in DOMAIN todo : IsTx(todo[k]) /\ Sound(op, todo[k], k, {})

LEMMA PlanOne ==
  ASSUME NEW r, NEW op, NEW x, Begin(r, op, <<x>>), IsTx(x), Sound(op, x, 1, {})
  PROVE  Planned(r)
<1>1. op \in Handlers
  BY DEF Begin
<1>2. \A k \in DOMAIN <<x>> : IsTx(<<x>>[k]) /\ Sound(op, <<x>>[k], k, {})
  BY SeqOne
<1> QED
  BY <1>1, <1>2, SeqOne DEF Planned

LEMMA PlanTwo ==
  ASSUME NEW r, NEW op, NEW x, NEW y, Begin(r, op, <<x, y>>),
         IsTx(x), Sound(op, x, 1, {}), IsTx(y), Sound(op, y, 2, {})
  PROVE  Planned(r)
<1>1. op \in Handlers
  BY DEF Begin
<1>2. \A k \in DOMAIN <<x, y>> : IsTx(<<x, y>>[k]) /\ Sound(op, <<x, y>>[k], k, {})
  BY SeqTwo
<1> QED
  BY <1>1, <1>2, SeqTwo DEF Planned

----------------------------------------------------------------------------
(* Every handler starts a sound request *)

LEMMA TxIsTx == IsTx(Tx)
<1>1. IsPatchOf(Column, Nothing)
  BY DEF IsPatchOf, Nothing
<1> QED
  BY <1>1 DEF Tx, IsTx, EntryColumn, Nothing

(* A plain update of the order is sound if it accepts only together with a *)
(* technician and frees the technician only together with the acceptance.  *)
LEMMA UpdateSound ==
  ASSUME NEW op, op \notin AcceptHandlers, NEW k, NEW p, IsPatchOf(Column, p),
         "assigned" \in DOMAIN p /\ p["assigned"] = NoTech =>
           "acceptedAt" \in DOMAIN p /\ p["acceptedAt"] = "null",
         "acceptedAt" \in DOMAIN p /\ p["acceptedAt"] = "set" => "assigned" \in DOMAIN p
  PROVE  IsTx(Update(p)) /\ Sound(op, Update(p), k, {})
<1>1. IsTx(Update(p))
  BY TxIsTx DEF Tx, IsTx, Update
<1>2. Update(p).set = p /\ Update(p).otp = NoTech
  BY DEF Tx, Update
<1> QED
  BY <1>1, <1>2 DEF Sound, Assigns, Accepts

LEMMA DeskPlans ==
  ASSUME TypeOK, NEW r \in Request, DeskNext(r)
  PROVE  Planned(r)
<1> USE DEF DeskNext
<1>0. \A op \in DeskHandlers : op \notin AcceptHandlers
  BY DEF DeskHandlers, AcceptHandlers
<1>1. ASSUME NEW status \in Status, UpdateStatus(r, status)
      PROVE  Planned(r)
  <2> DEFINE p == IF status \in {"CONCLUIDA", "APROVADA"} /\ os.completedAt = "null"
                    THEN [status |-> status, completedAt |-> "set"]
                    ELSE [status |-> status]
  <2>1. IsPatchOf(Column, p) /\ "assigned" \notin DOMAIN p /\ "acceptedAt" \notin DOMAIN p
    BY DEF IsPatchOf, Column, Timestamp
  <2>2. Begin(r, "updateStatus", <<Update(p)>>)
    BY <1>1 DEF UpdateStatus
  <2> HIDE DEF p
  <2>3. IsTx(Update(p)) /\ Sound("updateStatus", Update(p), 1, {})
    BY <2>1, <1>0, UpdateSound DEF DeskHandlers
  <2> QED
    BY <2>2, <2>3, PlanOne
<1>2. ASSUME NEW t \in Tech, Assign(r, t)
      PROVE  Planned(r)
  <2> DEFINE p == [assigned |-> t, acceptedAt |-> "set", status |-> "ATRIBUIDA"]
  <2>1. IsPatchOf(Column, p) /\ "assigned" \in DOMAIN p /\ p["assigned"] # NoTech
    BY NoTechAssumption DEF IsPatchOf, Column, Timestamp, Status
  <2>2. Begin(r, "assign", <<Update(p)>>)
    BY <1>2 DEF Assign
  <2> HIDE DEF p
  <2>3. IsTx(Update(p)) /\ Sound("assign", Update(p), 1, {})
    BY <2>1, <1>0, UpdateSound DEF DeskHandlers
  <2> QED
    BY <2>2, <2>3, PlanOne
<1>3. ASSUME NEW t \in Tech, Reassign(r, t)
      PROVE  Planned(r)
  <2> DEFINE p == [assigned |-> t, status |-> "ABERTA", acceptedAt |-> "null",
                   enRouteAt |-> "null", arrivedAt |-> "null", completedAt |-> "null"]
             x == [Tx EXCEPT !.revoke = Offer, !.set = p]
  <2>1. IsPatchOf(Column, p) /\ "assigned" \in DOMAIN p /\ p["assigned"] # NoTech
        /\ p["acceptedAt"] = "null"
    BY NoTechAssumption DEF IsPatchOf, Column, Timestamp, Status
  <2>2. Begin(r, "reassign", <<x>>)
    BY <1>3 DEF Reassign
  <2> HIDE DEF p
  <2>3. IsTx(x) /\ x.set = p /\ x.otp = NoTech
    BY <2>1, TxIsTx DEF Tx, IsTx
  <2>4. Sound("reassign", x, 1, {})
    BY <2>1, <2>3, <1>0 DEF Sound, Assigns, Accepts, DeskHandlers
  <2> QED
    BY <2>2, <2>3, <2>4, PlanOne
<1>4. ASSUME Cancel(r)
      PROVE  Planned(r)
  <2> DEFINE p == [status |-> "CANCELADA"]
             x == [Update(p) EXCEPT !.read = "open"]
  <2>1. IsPatchOf(Column, p) /\ "assigned" \notin DOMAIN p /\ "acceptedAt" \notin DOMAIN p
    BY DEF IsPatchOf, Column, Status
  <2>2. Begin(r, "cancel", <<x>>)
    BY <1>4 DEF Cancel
  <2> HIDE DEF p
  <2>3. IsTx(x) /\ x.set = p /\ x.otp = NoTech
    BY <2>1, TxIsTx DEF Tx, IsTx, Update
  <2>4. Sound("cancel", x, 1, {})
    BY <2>1, <2>3, <1>0 DEF Sound, Assigns, Accepts, DeskHandlers
  <2> QED
    BY <2>2, <2>3, <2>4, PlanOne
<1>5. ASSUME Remove(r)
      PROVE  Planned(r)
  <2> DEFINE p == [deletedAt |-> "set"]
  <2>1. IsPatchOf(Column, p) /\ "assigned" \notin DOMAIN p /\ "acceptedAt" \notin DOMAIN p
    BY DEF IsPatchOf, Column, Timestamp
  <2>2. Begin(r, "remove", <<Update(p)>>)
    BY <1>5 DEF Remove
  <2> HIDE DEF p
  <2>3. IsTx(Update(p)) /\ Sound("remove", Update(p), 1, {})
    BY <2>1, <1>0, UpdateSound DEF DeskHandlers
  <2> QED
    BY <2>2, <2>3, PlanOne
<1>6. ASSUME NEW t \in Tech \cup {NoTech}, NEW alone \in BOOLEAN, DispatchNotifications(r, t, alone)
      PROVE  Planned(r)
  <2> DEFINE p == [directed |-> t]
             d == [assigned |-> t, status |-> "ATRIBUIDA", acceptedAt |-> "set"]
  <2>1. IsPatchOf(Column, p) /\ "assigned" \notin DOMAIN p /\ "acceptedAt" \notin DOMAIN p
    BY DEF IsPatchOf, Column
  <2>2. IsPatchOf(Column, d) /\ "assigned" \in DOMAIN d /\ d["assigned"] = t
    BY DEF IsPatchOf, Column, Timestamp, Status
  <2>3. \/ Begin(r, "dispatchNotifications", <<Update(p)>>)
        \/ t # NoTech /\ Begin(r, "dispatchNotifications", <<Update(p), Update(d)>>)
    <3>1. CASE alone /\ os.assigned = NoTech
      <4>1. t # NoTech
        BY <1>6, <3>1 DEF DispatchNotifications
      <4>2. Begin(r, "dispatchNotifications", <<Update(p)>> \o <<Update(d)>>)
        BY <1>6, <3>1 DEF DispatchNotifications
      <4> HIDE DEF p, d
      <4> QED
        BY <4>1, <4>2, SeqJoin
    <3>2. CASE ~(alone /\ os.assigned = NoTech)
      <4>1. Begin(r, "dispatchNotifications", <<Update(p)>> \o <<>>)
        BY <1>6, <3>2 DEF DispatchNotifications
      <4> HIDE DEF p, d
      <4> QED
        BY <4>1, SeqJoin
    <3> QED
      BY <3>1, <3>2
  <2> HIDE DEF p, d
  <2>4. IsTx(Update(p)) /\ Sound("dispatchNotifications", Update(p), 1, {})
    BY <2>1, <1>0, UpdateSound DEF DeskHandlers
  <2>5. t # NoTech => IsTx(Update(d)) /\ Sound("dispatchNotifications", Update(d), 2, {})
    BY <2>2, <1>0, UpdateSound DEF DeskHandlers
  <2> QED
    BY <2>3, <2>4, <2>5, PlanOne, PlanTwo
<1> QED
  BY <1>1, <1>2, <1>3, <1>4, <1>5, <1>6

(* An acceptance is sound: its snapshot is the row it read.                *)
LEMMA AcceptSound ==
  ASSUME NEW op \in AcceptHandlers, NEW x, IsTx(x), x.serial,
         x.set = Nothing => x.otp = NoTech,
         x.otp # NoTech => otps[x.otp] > 0,
         Assigns(x) => os.assigned = NoTech /\ x.set["assigned"] # NoTech,
         Accepts(x) /\ ~Assigns(x) => os.assigned # NoTech
  PROVE  Sound(op, x, 1, {})
BY DEF Sound

LEMMA PortalPlans ==
  ASSUME TypeOK, NEW r \in Request, PortalNext(r)
  PROVE  Planned(r)
<1> USE DEF PortalNext
<1>1. ASSUME NEW o \in Offer, AcceptDirect(r, o)
      PROVE  Planned(r)
  <2> DEFINE links == {l \in Offer : offers[l] # "none"}
             X(p) == [Tx EXCEPT !.set = p, !.serial = TRUE, !.revoke = links]
             a == [acceptedAt |-> "set", status |-> "ATRIBUIDA"]
             d == [assigned |-> os.directed, acceptedAt |-> "set", status |-> "ATRIBUIDA"]
  <2>1. \/ os.assigned # NoTech /\ Begin(r, "acceptDirect", <<X(a)>>)
        \/ os.assigned = NoTech /\ os.directed # NoTech /\ Begin(r, "acceptDirect", <<X(d)>>)
        \/ os.assigned # NoTech /\ Begin(r, "acceptDirect", <<X(Nothing)>>)
    BY <1>1 DEF AcceptDirect
  <2>2. os.directed \in Tech \cup {NoTech}
    BY DEF TypeOK, IsRowOf, Column
  <2>3. /\ IsPatchOf(Column, a) /\ "assigned" \notin DOMAIN a
        /\ IsPatchOf(Column, d) /\ "assigned" \in DOMAIN d /\ d["assigned"] = os.directed
        /\ IsPatchOf(Column, Nothing) /\ DOMAIN Nothing = {}
    BY <2>2 DEF IsPatchOf, Column, Timestamp, Status, Nothing
  <2>4. "acceptDirect" \in AcceptHandlers /\ links \in SUBSET Offer
    BY DEF AcceptHandlers
  <2> HIDE DEF a, d, links
  <2>5. ASSUME NEW p, IsPatchOf(Column, p)
        PROVE  IsTx(X(p)) /\ X(p).set = p /\ X(p).serial /\ X(p).otp = NoTech
    BY <2>4, <2>5, TxIsTx DEF Tx, IsTx
  <2> HIDE DEF X
  <2>6. os.assigned # NoTech => IsTx(X(a)) /\ Sound("acceptDirect", X(a), 1, {})
    BY <2>3, <2>4, <2>5, AcceptSound DEF Assigns
  <2>7. os.assigned = NoTech /\ os.directed # NoTech => IsTx(X(d)) /\ Sound("acceptDirect", X(d), 1, {})
    BY <2>3, <2>4, <2>5, AcceptSound DEF Assigns
  <2>8. IsTx(X(Nothing)) /\ Sound("acceptDirect", X(Nothing), 1, {})
    BY <2>3, <2>4, <2>5, AcceptSound DEF Assigns, Accepts
  <2> QED
    BY <2>1, <2>6, <2>7, <2>8, PlanOne
<1>2. ASSUME NEW o \in Offer, NEW t \in Tech, AcceptWithOtp(r, o, t)
      PROVE  Planned(r)
  <2> DEFINE links == {l \in Offer : offers[l] # "none"}
             p == [assigned |-> t, acceptedAt |-> "set", status |-> "ATRIBUIDA"]
             x == [Tx EXCEPT !.set = p, !.otp = t, !.serial = TRUE, !.revoke = links]
  <2>1. IsPatchOf(Column, p) /\ p["assigned"] # NoTech /\ "assigned" \in DOMAIN p
    BY NoTechAssumption DEF IsPatchOf, Column, Timestamp, Status
  <2>2. Begin(r, "acceptWithOtp", <<x>>) /\ os.assigned = NoTech /\ otps[t] > 0
    BY <1>2 DEF AcceptWithOtp
  <2>3. "acceptWithOtp" \in AcceptHandlers /\ links \in SUBSET Offer
    BY DEF AcceptHandlers
  <2>4. p # Nothing
    BY <2>1 DEF Nothing
  <2> HIDE DEF p, links
  <2>5. IsTx(x) /\ x.set = p /\ x.serial /\ x.otp = t
    BY <2>1, <2>3, TxIsTx DEF Tx, IsTx
  <2> HIDE DEF x
  <2>6. Sound("acceptWithOtp", x, 1, {})
    BY <2>1, <2>2, <2>3, <2>4, <2>5, AcceptSound DEF Assigns
  <2> QED
    BY <2>2, <2>5, <2>6, PlanOne
<1>3. ASSUME NEW o \in Offer, MarkEnRoute(r, o)
      PROVE  Planned(r)
  <2> DEFINE p == IF os.status = "ATRIBUIDA" THEN [enRouteAt |-> "set", status |-> "A_CAMINHO"]
                                               ELSE [enRouteAt |-> "set"]
  <2>1. IsPatchOf(Column, p) /\ "assigned" \notin DOMAIN p /\ "acceptedAt" \notin DOMAIN p
    BY DEF IsPatchOf, Column, Timestamp, Status
  <2>2. Begin(r, "markEnRoute", <<Update(p)>>)
    BY <1>3 DEF MarkEnRoute
  <2> HIDE DEF p
  <2>3. IsTx(Update(p)) /\ Sound("markEnRoute", Update(p), 1, {})
    BY <2>1, UpdateSound DEF AcceptHandlers
  <2> QED
    BY <2>2, <2>3, PlanOne
<1>4. ASSUME NEW o \in Offer, NEW autoStart \in BOOLEAN, MarkArrived(r, o, autoStart)
      PROVE  Planned(r)
  <2> DEFINE p == IF autoStart /\ os.status \in {"ATRIBUIDA", "A_CAMINHO"}
                    THEN [arrivedAt |-> "set", status |-> "EM_EXECUCAO"]
                    ELSE [arrivedAt |-> "set"]
  <2>1. IsPatchOf(Column, p) /\ "assigned" \notin DOMAIN p /\ "acceptedAt" \notin DOMAIN p
    BY DEF IsPatchOf, Column, Timestamp, Status
  <2>2. Begin(r, "markArrived", <<Update(p)>>)
    BY <1>4 DEF MarkArrived
  <2> HIDE DEF p
  <2>3. IsTx(Update(p)) /\ Sound("markArrived", Update(p), 1, {})
    BY <2>1, UpdateSound DEF AcceptHandlers
  <2> QED
    BY <2>2, <2>3, PlanOne
<1>5. ASSUME NEW o \in Offer, NEW onDecline \in OnDecline, DeclineAfterAccept(r, o, onDecline)
      PROVE  Planned(r)
  <2> DEFINE Back(status) == [status |-> status, assigned |-> NoTech, acceptedAt |-> "null"]
             c == [status |-> "CANCELADA"]
  <2>1. \A status \in Status : /\ IsPatchOf(Column, Back(status))
                               /\ Back(status)["acceptedAt"] = "null"
                               /\ {"assigned", "acceptedAt"} \subseteq DOMAIN Back(status)
    BY DEF IsPatchOf, Column, Timestamp
  <2>2. /\ IsPatchOf(Column, c) /\ "assigned" \notin DOMAIN c /\ "acceptedAt" \notin DOMAIN c
        /\ IsPatchOf(Column, Nothing) /\ DOMAIN Nothing = {}
    BY DEF IsPatchOf, Column, Status, Nothing
  <2>3. \/ Begin(r, "declineAfterAccept", <<Update(Back("OFERTADA"))>>)
        \/ Begin(r, "declineAfterAccept", <<Update(Back("ABERTA"))>>)
        \/ Begin(r, "declineAfterAccept", <<Update(c)>>)
        \/ Begin(r, "declineAfterAccept", <<Update(Nothing)>>)
    BY <1>5 DEF DeclineAfterAccept, OnDecline
  <2> HIDE DEF Back, c
  <2>4. \A status \in Status : /\ IsTx(Update(Back(status)))
                               /\ Sound("declineAfterAccept", Update(Back(status)), 1, {})
    BY <2>1, UpdateSound DEF AcceptHandlers
  <2>5. /\ IsTx(Update(c)) /\ Sound("declineAfterAccept", Update(c), 1, {})
        /\ IsTx(Update(Nothing)) /\ Sound("declineAfterAccept", Update(Nothing), 1, {})
    BY <2>2, UpdateSound DEF AcceptHandlers
  <2> QED
    BY <2>3, <2>4, <2>5, PlanOne DEF Status
<1> QED
  BY <1>1, <1>2, <1>3, <1>4, <1>5

(* A transaction that leaves technician and acceptance alone is sound.     *)
LEMMA PlainSound ==
  ASSUME NEW op, op \notin AcceptHandlers, NEW k, NEW x, x.otp = NoTech,
         "assigned" \notin DOMAIN x.set, "acceptedAt" \notin DOMAIN x.set
  PROVE  Sound(op, x, k, {})
BY DEF Sound, Assigns, Accepts

LEMMA MoneyPlans ==
  ASSUME TypeOK, NEW r \in Request, MoneyNext(r)
  PROVE  Planned(r)
<1> USE DEF MoneyNext
<1>0. /\ IsPatchOf(Column, Nothing)
      /\ "assigned" \notin DOMAIN Nothing /\ "acceptedAt" \notin DOMAIN Nothing
      /\ \A op \in MoneyHandlers : op \notin AcceptHandlers
      /\ \A types \in SUBSET EntryType : Payable(types, os.assigned) \subseteq EntryType
  BY DEF IsPatchOf, Nothing, MoneyHandlers, AcceptHandlers, Payable
<1>1. ASSUME NEW types \in SUBSET EntryType, EarlyFinancialLaunch(r, types)
      PROVE  Planned(r)
  <2> DEFINE x == [Tx EXCEPT !.ask = types, !.make = Payable(types, os.assigned),
                             !.born = "PAID", !.read = "refuse"]
  <2>1. Begin(r, "earlyFinancialLaunch", <<x>>)
    BY <1>1 DEF EarlyFinancialLaunch
  <2>2. IsTx(x) /\ x.set = Nothing /\ x.otp = NoTech
    BY <1>0, TxIsTx DEF Tx, IsTx, EntryColumn
  <2> HIDE DEF x
  <2> QED
    BY <2>1, <2>2, <1>0, PlainSound, PlanOne DEF MoneyHandlers
<1>2. ASSUME Finalize(r)
      PROVE  Planned(r)
  <2> DEFINE d == [assigned |-> os.directed]
             p == [status |-> "CONCLUIDA", completedAt |-> "set"]
             x == [Tx EXCEPT !.set = p, !.make = EntryType, !.ledger = TRUE, !.read = "skip"]
  <2>1. /\ IsPatchOf(Column, p)
        /\ "assigned" \notin DOMAIN p /\ "acceptedAt" \notin DOMAIN p
    BY DEF IsPatchOf, Column, Timestamp, Status
  <2>2. /\ IsPatchOf(Column, d) /\ d["assigned"] = os.directed
        /\ "assigned" \in DOMAIN d /\ "acceptedAt" \notin DOMAIN d
    BY DEF TypeOK, IsRowOf, IsPatchOf, Column
  <2>3. \/ Begin(r, "finalize", <<>> \o <<x>>)
        \/ os.directed # NoTech /\ Begin(r, "finalize", <<Update(d)>> \o <<x>>)
    BY <1>2 DEF Finalize
  <2> HIDE DEF d, p
  <2>4. IsTx(x) /\ x.set = p /\ x.otp = NoTech
    BY <2>1, TxIsTx DEF Tx, IsTx
  <2> HIDE DEF x
  <2>5. \A k \in {1, 2} : Sound("finalize", x, k, {})
    BY <2>1, <2>4, <1>0, PlainSound DEF MoneyHandlers
  <2>6. os.directed # NoTech => IsTx(Update(d)) /\ Sound("finalize", Update(d), 1, {})
    BY <2>2, <1>0, UpdateSound DEF MoneyHandlers
  <2>7. \/ Begin(r, "finalize", <<x>>)
        \/ os.directed # NoTech /\ Begin(r, "finalize", <<Update(d), x>>)
    BY <2>3, SeqJoin
  <2> QED
    BY <2>4, <2>5, <2>6, <2>7, PlanOne, PlanTwo
<1>3. ASSUME NEW types \in SUBSET EntryType, ApproveAndFinalize(r, types)
      PROVE  Planned(r)
  <2> DEFINE p == [status |-> "APROVADA", completedAt |-> "set"]
             x == [Tx EXCEPT !.set = p, !.make = Payable(types, os.assigned),
                             !.ledger = TRUE, !.read = "skip"]
  <2>1. /\ IsPatchOf(Column, p)
        /\ "assigned" \notin DOMAIN p /\ "acceptedAt" \notin DOMAIN p
    BY DEF IsPatchOf, Column, Timestamp, Status
  <2>2. Begin(r, "approveAndFinalize", <<x>>)
    BY <1>3 DEF ApproveAndFinalize
  <2> HIDE DEF p
  <2>3. IsTx(x) /\ x.set = p /\ x.otp = NoTech
    BY <2>1, <1>0, TxIsTx DEF Tx, IsTx
  <2> HIDE DEF x
  <2> QED
    BY <2>1, <2>2, <2>3, <1>0, PlainSound, PlanOne DEF MoneyHandlers
<1>4. ASSUME Confirm(r)
      PROVE  Planned(r)
  <2> DEFINE x == [Tx EXCEPT !.make = {"PAYABLE"}, !.born = "CONFIRMED", !.ledger = TRUE]
  <2>1. Begin(r, "confirm", <<x>>)
    BY <1>4 DEF Confirm
  <2>2. IsTx(x) /\ x.set = Nothing /\ x.otp = NoTech
    BY TxIsTx DEF Tx, IsTx, EntryColumn, EntryType
  <2> HIDE DEF x
  <2> QED
    BY <2>1, <2>2, <1>0, PlainSound, PlanOne DEF MoneyHandlers
<1>5. ASSUME NEW i \in DOMAIN entries, NEW to \in DOMAIN HandlerOf, ChangeEntryStatus(r, i, to)
      PROVE  Planned(r)
  <2> DEFINE e == [status |-> IF to = "REVERSED" THEN "PENDING" ELSE to]
             x == [Tx EXCEPT !.touch = [j \in {i} |-> e]]
  <2>1. Begin(r, HandlerOf[to], <<x>>)
    BY <1>5 DEF ChangeEntryStatus
  <2>2. HandlerOf[to] \in MoneyHandlers
    BY DEF HandlerOf, MoneyHandlers
  <2>3. IsPatchOf(EntryColumn, e) /\ DOMAIN e \subseteq {"status", "deletedAt"}
    BY DEF IsPatchOf, EntryColumn, HandlerOf
  <2> HIDE DEF e
  <2>4. IsTx(x) /\ x.set = Nothing /\ x.otp = NoTech
    BY <2>3, TxIsTx DEF Tx, IsTx
  <2> HIDE DEF x
  <2> QED
    BY <2>1, <2>2, <2>4, <1>0, PlainSound, PlanOne
<1>6. ASSUME NEW i \in DOMAIN entries, DeleteEntry(r, i)
      PROVE  Planned(r)
  <2> DEFINE e == [deletedAt |-> "set"]
             x == [Tx EXCEPT !.touch = [j \in {i} |-> e]]
  <2>1. Begin(r, "deleteEntry", <<x>>)
    BY <1>6 DEF DeleteEntry
  <2>2. IsPatchOf(EntryColumn, e) /\ DOMAIN e \subseteq {"status", "deletedAt"}
    BY DEF IsPatchOf, EntryColumn, Timestamp
  <2> HIDE DEF e
  <2>3. IsTx(x) /\ x.set = Nothing /\ x.otp = NoTech
    BY <2>2, TxIsTx DEF Tx, IsTx
  <2> HIDE DEF x
  <2> QED
    BY <2>1, <2>3, <1>0, PlainSound, PlanOne DEF MoneyHandlers
<1> QED
  BY <1>1, <1>2, <1>3, <1>4, <1>5, <1>6

----------------------------------------------------------------------------
(* Every step keeps the invariant *)

(* What a step that only touches one request's list must show.             *)
LEMMA RequestKeeps ==
  ASSUME IInv, NEW r \in Request, NEW n, IsRequest(n),
         req' = [req EXCEPT ![r] = n], UNCHANGED <<os, offers, otps, ledger, entries>>,
         \A k \in DOMAIN n.todo : Sound(n.op, n.todo[k], k, n.stale)
  PROVE  IInv'
<1>1. \A q \in Request : req'[q] = IF q = r THEN n ELSE req[q]
  BY DEF IInv, TypeOK
<1>2. TypeOK' /\ AcceptedHasTech'
  BY <1>1 DEF IInv, TypeOK, AcceptedHasTech
<1>3. InFlight'
  <2> SUFFICES ASSUME NEW q \in Request, NEW k \in DOMAIN req'[q].todo
               PROVE  Sound(req[q].op, req[q].todo[k], k, req[q].stale)'
    BY DEF InFlight
  <2>1. Sound(req'[q].op, req'[q].todo[k], k, req'[q].stale)
    BY <1>1 DEF IInv, InFlight
  <2> QED
    BY <2>1 DEF Sound
<1> QED
  BY <1>2, <1>3 DEF IInv

LEMMA BeginKeeps ==
  ASSUME IInv, NEW r \in Request, Planned(r)
  PROVE  IInv'
<1>1. PICK op \in Handlers : \E todo :
        /\ Begin(r, op, todo)
        /\ IsSeq(todo)
        /\ \A k \in DOMAIN todo : IsTx(todo[k]) /\ Sound(op, todo[k], k, {})
  BY DEF Planned
<1>2. PICK todo :
        /\ Begin(r, op, todo)
        /\ IsSeq(todo)
        /\ \A k \in DOMAIN todo : IsTx(todo[k]) /\ Sound(op, todo[k], k, {})
  BY <1>1
<1> DEFINE n == [op |-> op, todo |-> todo, stale |-> {}]
<1>3. /\ req' = [req EXCEPT ![r] = n]
      /\ UNCHANGED <<os, offers, otps, ledger, entries>>
  BY <1>2 DEF Begin
<1>4. n.op = op /\ n.todo = todo /\ n.stale = {}
  OBVIOUS
<1>5. IsRequest(n)
  BY <1>2 DEF IsRequest, Idle
<1> HIDE DEF n
<1> QED
  BY <1>2, <1>3, <1>4, <1>5, RequestKeeps

LEMMA LinkKeeps ==
  ASSUME IInv, LinkNext
  PROVE  IInv'
<1>1. /\ os' = os /\ req' = req /\ ledger' = ledger /\ entries' = entries
      /\ \A t \in Tech : otps'[t] >= otps[t]
      /\ otps' \in [Tech -> 0 .. MaxOtp]
      /\ offers' \in [Offer -> {"none", "active", "expired", "revoked"}]
  <2> USE DEF LinkNext, IInv, TypeOK
  <2>1. ASSUME NEW o \in Offer, CreateOffer(o) \/ ExpireOffer(o)
        PROVE  <1>1
    BY <2>1 DEF CreateOffer, ExpireOffer
  <2>2. ASSUME NEW o \in Offer, NEW t \in Tech, RequestOtp(o, t)
        PROVE  <1>1
    BY <2>2, BoundAssumption DEF RequestOtp
  <2> QED
    BY <2>1, <2>2
<1>2. TypeOK' /\ AcceptedHasTech'
  BY <1>1 DEF IInv, TypeOK, AcceptedHasTech
<1>3. InFlight'
  <2> SUFFICES ASSUME NEW q \in Request, NEW k \in DOMAIN req[q].todo
               PROVE  Sound(req[q].op, req[q].todo[k], k, req[q].stale)'
    BY <1>1 DEF InFlight
  <2>1. Sound(req[q].op, req[q].todo[k], k, req[q].stale) /\ IsTx(req[q].todo[k])
    BY DEF IInv, InFlight, TypeOK, IsRequest
  <2>2. req[q].todo[k].otp # NoTech => otps'[req[q].todo[k].otp] >= otps[req[q].todo[k].otp]
    BY <1>1, <2>1 DEF IsTx
  <2>3. \A t \in Tech : otps[t] \in Int /\ otps'[t] \in Int
    BY <1>1 DEF IInv, TypeOK
  <2> QED
    BY <1>1, <2>1, <2>2, <2>3 DEF Sound, IsTx
<1> QED
  BY <1>2, <1>3 DEF IInv

LEMMA GiveUpKeeps ==
  ASSUME IInv, NEW r \in Request, GiveUp(r)
  PROVE  IInv'
<1>1. IsRequest(Idle) /\ DOMAIN Idle.todo = {}
  BY DEF IsRequest, Idle, IsSeq
<1> QED
  BY <1>1, RequestKeeps DEF GiveUp

(* The second read only fills in a transaction's entries.                  *)
LEMMA ReadKeeps ==
  ASSUME IInv, NEW r \in Request, ReadEntries(r)
  PROVE  IInv'
<1> DEFINE q == req[r]
           x == Head(q.todo)
<1>1. /\ IsRequest(q) /\ IsSeq(q.todo) /\ q.todo # <<>>
      /\ x = q.todo[1] /\ 1 \in DOMAIN q.todo /\ IsSeq(Tail(q.todo))
  BY SeqHeadTail DEF IInv, TypeOK, IsRequest, ReadEntries, Busy
<1>2. IsTx(x) /\ Sound(q.op, x, 1, q.stale)
  BY <1>1 DEF IInv, InFlight, IsRequest
<1>3. ASSUME NEW y, IsTx(y), y.set = x.set, y.otp = x.otp, y.serial = x.serial,
             req' = [req EXCEPT ![r].todo = <<y>> \o Tail(@)],
             UNCHANGED <<os, offers, otps, ledger, entries>>
      PROVE  IInv'
  <2> DEFINE c == <<y>> \o Tail(q.todo)
             n == [q EXCEPT !.todo = c]
  <2>1. /\ IsSeq(c)
        /\ c[1] = y
        /\ \A k \in DOMAIN c : k # 1 => k \in DOMAIN q.todo /\ c[k] = q.todo[k]
    <3> DEFINE t == Tail(q.todo)
    <3>1. /\ IsSeq(c) /\ c[1] = y
          /\ \A k \in DOMAIN c : k # 1 => k - 1 \in DOMAIN t /\ c[k] = t[k - 1] /\ k = (k - 1) + 1
      BY <1>1, SeqCons
    <3>2. \A k \in DOMAIN t : k + 1 \in DOMAIN q.todo /\ t[k] = q.todo[k + 1]
      BY <1>1, SeqHeadTail
    <3> HIDE DEF c, q, t
    <3> QED
      BY <3>1, <3>2
  <2>2. Sound(q.op, y, 1, q.stale)
    BY <1>2, <1>3 DEF Sound, Assigns, Accepts
  <2>3. req' = [req EXCEPT ![r] = n]
    BY <1>3
  <2> HIDE DEF c
  <2>4. n.todo = c /\ n.op = q.op /\ n.stale = q.stale /\ DOMAIN n = DOMAIN q
    BY <1>1 DEF IsRequest, Idle
  <2>5. \A k \in DOMAIN c : IsTx(c[k]) /\ Sound(q.op, c[k], k, q.stale)
    BY <1>1, <1>3, <2>1, <2>2 DEF IInv, InFlight, IsRequest
  <2>6. IsRequest(n)
    BY <1>1, <2>1, <2>4, <2>5 DEF IsRequest
  <2> HIDE DEF n
  <2> QED
    BY <1>3, <2>3, <2>4, <2>5, <2>6, RequestKeeps
<1>4. ASSUME NEW y, y \in {[x EXCEPT !.make = @ \ Existing], x,
                          [x EXCEPT !.touch = [i \in Open |-> [status |-> "CANCELLED"]]]},
             req' = [req EXCEPT ![r].todo = <<[y EXCEPT !.read = "none"]>> \o Tail(@)],
             UNCHANGED <<os, offers, otps, ledger, entries>>
      PROVE  IInv'
  <2>1. IsTx(y) /\ y.set = x.set /\ y.otp = x.otp /\ y.serial = x.serial
    <3>1. CASE y = [x EXCEPT !.make = @ \ Existing]
      BY <3>1, <1>2 DEF IsTx, Tx
    <3>2. CASE y = x
      BY <3>2, <1>2
    <3>3. CASE y = [x EXCEPT !.touch = [i \in Open |-> [status |-> "CANCELLED"]]]
      <4> DEFINE e == [status |-> "CANCELLED"]
      <4>1. IsPatchOf(EntryColumn, e) /\ DOMAIN e \subseteq {"status", "deletedAt"}
        BY DEF IsPatchOf, EntryColumn
      <4> HIDE DEF e
      <4>2. y = [x EXCEPT !.touch = [i \in Open |-> e]]
        BY <3>3 DEF e
      <4> QED
        BY <4>1, <4>2, <1>2 DEF IsTx, Tx
    <3> QED
      BY <1>4, <3>1, <3>2, <3>3
  <2> DEFINE z == [y EXCEPT !.read = "none"]
  <2>2. IsTx(z) /\ z.set = x.set /\ z.otp = x.otp /\ z.serial = x.serial
    BY <2>1 DEF IsTx, Tx
  <2> HIDE DEF z
  <2> QED
    BY <1>3, <1>4, <2>2 DEF z
<1>5. CASE GiveUp(r)
  BY <1>5, GiveUpKeeps
<1> QED
  BY <1>4, <1>5 DEF ReadEntries, Pending

(* The entries a transaction creates: rows, all of one origin, one of each *)
(* type at most.                                                           *)
LEMMA CreatedRows ==
  ASSUME NEW x, IsTx(x)
  PROVE  /\ IsSeq(Created(x))
         /\ \A i \in DOMAIN Created(x) :
              /\ IsRowOf(EntryColumn, Created(x)[i])
              /\ Created(x)[i].origin = IF x.ledger THEN "settlement" ELSE "launch"
              /\ Created(x)[i].type \in x.make
         /\ \A i, j \in DOMAIN Created(x) : Created(x)[i].type = Created(x)[j].type => i = j
<1> DEFINE Row(t) == [type |-> t, status |-> x.born, deletedAt |-> "null",
                      origin |-> IF x.ledger THEN "settlement" ELSE "launch"]
           R == Row("RECEIVABLE")
           P == Row("PAYABLE")
<1>1. \A t \in EntryType :
        /\ IsRowOf(EntryColumn, Row(t)) /\ Row(t).type = t
        /\ Row(t).origin = IF x.ledger THEN "settlement" ELSE "launch"
  BY DEF IsRowOf, EntryColumn, Timestamp, IsTx
<1>2. \/ Created(x) = <<>> \o <<>>
      \/ Created(x) = <<R>> \o <<>> /\ "RECEIVABLE" \in x.make
      \/ Created(x) = <<>> \o <<P>> /\ "PAYABLE" \in x.make
      \/ Created(x) = <<R>> \o <<P>> /\ {"RECEIVABLE", "PAYABLE"} \subseteq x.make
  BY DEF Created
<1> HIDE DEF Row
<1>3. \/ Created(x) = <<>>
      \/ Created(x) = <<R>> /\ "RECEIVABLE" \in x.make
      \/ Created(x) = <<P>> /\ "PAYABLE" \in x.make
      \/ Created(x) = <<R, P>> /\ {"RECEIVABLE", "PAYABLE"} \subseteq x.make
  <2>1. <<>> \o <<>> = <<>>
    BY ConcatEmptySeq, EmptySeq
  <2> HIDE DEF R, P
  <2> QED
    BY <1>2, <2>1, SeqJoin
<1>4. /\ IsRowOf(EntryColumn, R) /\ R.type = "RECEIVABLE"
      /\ IsRowOf(EntryColumn, P) /\ P.type = "PAYABLE"
      /\ R.origin = IF x.ledger THEN "settlement" ELSE "launch"
      /\ P.origin = IF x.ledger THEN "settlement" ELSE "launch"
  BY <1>1 DEF EntryType
<1> HIDE DEF R, P
<1>5. IsSeq(<<>>) /\ DOMAIN <<>> = {}
  BY DEF IsSeq
<1>6. CASE Created(x) = <<>>
  BY <1>5, <1>6
<1>7. CASE Created(x) = <<R>> /\ "RECEIVABLE" \in x.make
  BY <1>4, <1>7, SeqOne
<1>8. CASE Created(x) = <<P>> /\ "PAYABLE" \in x.make
  BY <1>4, <1>8, SeqOne
<1>9. CASE Created(x) = <<R, P>> /\ {"RECEIVABLE", "PAYABLE"} \subseteq x.make
  BY <1>4, <1>9, SeqTwo
<1> QED
  BY <1>3, <1>6, <1>7, <1>8, <1>9

LEMMA PatchedRow ==
  ASSUME NEW C, NEW row, IsRowOf(C, row), NEW p, IsPatchOf(C, p)
  PROVE  IsRowOf(C, Patched(row, p))
BY DEF IsRowOf, IsPatchOf, Patched

(* What a commit does to the entries: those there keep position, type and  *)
(* origin, the new ones come after them.                                   *)
LEMMA EntriesAfter ==
  ASSUME TypeOK, NEW r \in Request, NEW x, IsTx(x), Apply(r, x)
  PROVE  /\ IsSeq(entries')
         /\ \A i \in DOMAIN entries' : IsRowOf(EntryColumn, entries'[i])
         /\ DOMAIN entries \subseteq DOMAIN entries'
         /\ \A i \in DOMAIN entries : /\ entries'[i].type = entries[i].type
                                      /\ entries'[i].origin = entries[i].origin
                                      /\ entries'[i] = IF i \in DOMAIN x.touch
                                                         THEN Patched(entries[i], x.touch[i])
                                                         ELSE entries[i]
         /\ \A i \in DOMAIN entries' \ DOMAIN entries :
              /\ i - Len(entries) \in DOMAIN Created(x)
              /\ entries'[i] = Created(x)[i - Len(entries)]
<1> DEFINE After(i) == IF i \in DOMAIN x.touch THEN Patched(entries[i], x.touch[i]) ELSE entries[i]
           e == [i \in DOMAIN entries |-> After(i)]
<1>1. entries' = e \o Created(x)
  BY DEF Apply
<1>2. \A i \in DOMAIN entries : /\ IsRowOf(EntryColumn, After(i))
                               /\ After(i).type = entries[i].type
                               /\ After(i).origin = entries[i].origin
  <2> SUFFICES ASSUME NEW i \in DOMAIN entries
               PROVE  /\ IsRowOf(EntryColumn, After(i))
                      /\ After(i).type = entries[i].type
                      /\ After(i).origin = entries[i].origin
    OBVIOUS
  <2>1. IsRowOf(EntryColumn, entries[i])
    BY DEF TypeOK
  <2>2. CASE i \in DOMAIN x.touch
    <3>1. IsPatchOf(EntryColumn, x.touch[i]) /\ DOMAIN x.touch[i] \subseteq {"status", "deletedAt"}
      BY <2>2 DEF IsTx
    <3>2. {"type", "origin"} \subseteq DOMAIN entries[i]
      BY <2>1 DEF IsRowOf, EntryColumn
    <3> QED
      BY <2>1, <2>2, <3>1, <3>2, PatchedRow DEF Patched
  <2> QED
    BY <2>1, <2>2
<1>a. \A i : After(i) = IF i \in DOMAIN x.touch THEN Patched(entries[i], x.touch[i]) ELSE entries[i]
  OBVIOUS
<1> HIDE DEF After
<1>3. IsSeq(e) /\ Len(e) = Len(entries)
  <2>1. PICK T : entries \in Seq(T)
    BY DEF TypeOK, IsSeq
  <2>2. Len(entries) \in Nat /\ DOMAIN entries = 1 .. Len(entries)
    BY <2>1
  <2>3. e \in Seq({After(i) : i \in DOMAIN entries})
    BY <2>2, SeqDef
  <2>4. DOMAIN e = 1 .. Len(entries)
    BY <2>2
  <2> HIDE DEF e
  <2>5. Len(e) = Len(entries)
    BY <2>2, <2>3, <2>4
  <2>6. IsSeq(e)
    BY <2>3, SeqIntro
  <2> QED
    BY <2>5, <2>6
<1>4. DOMAIN e = DOMAIN entries /\ \A i \in DOMAIN entries : e[i] = After(i)
  OBVIOUS
<1> HIDE DEF e
<1>5. /\ IsSeq(e \o Created(x))
      /\ DOMAIN e \subseteq DOMAIN (e \o Created(x))
      /\ \A k \in DOMAIN e : (e \o Created(x))[k] = e[k]
      /\ \A k \in DOMAIN (e \o Created(x)) :
           k \notin DOMAIN e => /\ k - Len(e) \in DOMAIN Created(x)
                               /\ (e \o Created(x))[k] = Created(x)[k - Len(e)]
  BY <1>3, CreatedRows, SeqConcat
<1>6. \A k \in DOMAIN Created(x) : IsRowOf(EntryColumn, Created(x)[k])
  BY CreatedRows
<1> QED
  BY <1>1, <1>2, <1>a, <1>3, <1>4, <1>5, <1>6

LEMMA CommitKeeps ==
  ASSUME IInv, NEW r \in Request, Commit(r)
  PROVE  IInv'
<1> DEFINE x == Pending(r)
           todo == req[r].todo
<1>1. /\ IsRequest(req[r]) /\ IsSeq(todo) /\ todo # <<>>
      /\ 1 \in DOMAIN todo /\ x = todo[1] /\ IsSeq(Tail(todo))
      /\ \A k \in DOMAIN Tail(todo) : k + 1 # 1 /\ k + 1 \in DOMAIN todo /\ Tail(todo)[k] = todo[k + 1]
  BY SeqHeadTail DEF IInv, TypeOK, IsRequest, Commit, Busy, Pending
<1>2. IsTx(x) /\ Sound(req[r].op, x, 1, req[r].stale)
  BY <1>1 DEF IInv, InFlight, IsRequest
<1>3. CASE GiveUp(r)
  BY <1>3, GiveUpKeeps
<1>4. CASE ~Fails(r, x) /\ Apply(r, x)
  <2> HIDE DEF x
  <2>1. x.serial /\ x.set # Nothing => "row" \notin req[r].stale
    BY <1>4 DEF Fails
  <2>2. /\ os' = Patched(os, x.set)
        /\ otps' = IF x.otp = NoTech THEN otps ELSE [otps EXCEPT ![x.otp] = @ - 1]
    BY <1>4 DEF Apply
  <2>3. \A q \in Request :
          req'[q] = IF q = r
                      THEN IF Tail(todo) = <<>> THEN Idle ELSE [req[r] EXCEPT !.todo = Tail(todo)]
                      ELSE IF InSerial(req[q])
                             THEN [req[q] EXCEPT !.stale = @ \cup Overwritten(x)] ELSE req[q]
    BY <1>4 DEF Apply
  <2>4. AcceptedHasTech'
    <3>1. IsRowOf(Column, os) /\ IsPatchOf(Column, x.set)
      BY <1>2 DEF IInv, TypeOK, IsTx
    <3>2. {"assigned", "acceptedAt"} \subseteq DOMAIN os
      BY <3>1 DEF IsRowOf, Column
    <3>3. /\ os'.assigned = IF Assigns(x) THEN x.set["assigned"] ELSE os.assigned
          /\ os'.acceptedAt = IF "acceptedAt" \in DOMAIN x.set THEN x.set["acceptedAt"] ELSE os.acceptedAt
      BY <2>2, <3>2 DEF Patched, Assigns
    <3>4. Accepts(x) => x.set # Nothing
      BY DEF Accepts, Nothing
    <3> QED
      BY <1>2, <2>1, <3>3, <3>4 DEF Sound, Accepts, IInv, AcceptedHasTech
  <2>5. otps' \in [Tech -> 0 .. MaxOtp]
    <3>1. x.otp # NoTech => x.otp \in Tech /\ otps[x.otp] > 0
      BY <1>2, <2>1 DEF Sound, IsTx
    <3> QED
      BY <2>2, <3>1, BoundAssumption DEF IInv, TypeOK
  <2>6. ASSUME NEW q \in Request
        PROVE  IsRequest(req'[q])
    <3>1. IsRequest(req[q])
      BY DEF IInv, TypeOK
    <3>2. CASE q = r
      <4>1. CASE Tail(todo) = <<>>
        <5>1. IsRequest(Idle)
          BY DEF IsRequest, Idle, IsSeq
        <5> QED
          BY <2>3, <3>2, <4>1, <5>1
      <4>2. CASE Tail(todo) # <<>>
        <5>1. req'[r] = [req[r] EXCEPT !.todo = Tail(todo)]
          BY <2>3, <4>2
        <5> HIDE DEF todo
        <5>2. /\ DOMAIN req'[r] = DOMAIN req[r] /\ req'[r].op = req[r].op
              /\ req'[r].stale = req[r].stale /\ req'[r].todo = Tail(todo)
          BY <1>1, <5>1 DEF IsRequest, Idle
        <5>3. \A k \in DOMAIN Tail(todo) : IsTx(Tail(todo)[k])
          BY <1>1 DEF IsRequest, todo
        <5> QED
          BY <1>1, <3>2, <5>2, <5>3 DEF IsRequest
      <4> QED
        BY <4>1, <4>2
    <3>3. CASE q # r
      <4>1. Overwritten(x) \subseteq {"row", "offers"}
        BY DEF Overwritten
      <4>2. DOMAIN req[q] = {"op", "todo", "stale"}
        BY <3>1 DEF IsRequest, Idle
      <4>3. CASE InSerial(req[q])
        <5>1. req'[q] = [req[q] EXCEPT !.stale = @ \cup Overwritten(x)]
          BY <2>3, <3>3, <4>3
        <5>2. /\ DOMAIN req'[q] = DOMAIN req[q] /\ req'[q].op = req[q].op
              /\ req'[q].todo = req[q].todo /\ req'[q].stale = req[q].stale \cup Overwritten(x)
          BY <4>2, <5>1
        <5> QED
          BY <3>1, <4>1, <5>2 DEF IsRequest
      <4>4. CASE ~InSerial(req[q])
        BY <2>3, <3>1, <3>3, <4>4
      <4> QED
        BY <4>3, <4>4
    <3> QED
      BY <3>2, <3>3
  <2>7. TypeOK'
    <3>1. IsRowOf(Column, os')
      BY <1>2, <2>2, PatchedRow DEF IInv, TypeOK, IsTx
    <3>2. offers' \in [Offer -> {"none", "active", "expired", "revoked"}]
      BY <1>4 DEF Apply, IInv, TypeOK
    <3>3. ledger' \in BOOLEAN
      BY <1>4 DEF Apply
    <3>4. IsSeq(entries') /\ \A i \in DOMAIN entries' : IsRowOf(EntryColumn, entries'[i])
      BY <1>2, <1>4, EntriesAfter DEF IInv
    <3>5. DOMAIN req' = Request
      BY <1>4 DEF Apply
    <3> QED
      BY <2>5, <2>6, <3>1, <3>2, <3>3, <3>4, <3>5 DEF TypeOK
  <2>8. InFlight'
    <3> SUFFICES ASSUME NEW q \in Request, NEW k \in DOMAIN req'[q].todo
                 PROVE  Sound(req[q].op, req[q].todo[k], k, req[q].stale)'
      BY DEF InFlight
    <3>1. CASE q = r
      <4>1. Tail(todo) # <<>>
        <5>1. DOMAIN Idle.todo = {}
          BY DEF Idle
        <5> HIDE DEF todo
        <5> QED
          BY <2>3, <3>1, <5>1
      <4>2. /\ req'[r] = [req[r] EXCEPT !.todo = Tail(todo)]
        BY <2>3, <4>1
      <4> HIDE DEF todo
      <4>3. /\ req'[r].op = req[r].op /\ req'[r].stale = req[r].stale
            /\ req'[r].todo = Tail(todo)
        BY <1>1, <4>2 DEF IsRequest, Idle
      <4>4. Sound(req[r].op, Tail(todo)[k], k + 1, req[r].stale) /\ k + 1 # 1
        BY <1>1, <3>1, <4>3 DEF IInv, InFlight, todo
      <4> QED
        BY <3>1, <4>3, <4>4 DEF Sound
    <3>2. CASE q # r
      <4>1. /\ req'[q].op = req[q].op /\ req'[q].todo = req[q].todo
            /\ req'[q].stale = IF InSerial(req[q]) THEN req[q].stale \cup Overwritten(x)
                                                  ELSE req[q].stale
        BY <2>3, <3>2 DEF IInv, TypeOK, IsRequest, Idle
      <4> DEFINE y == req[q].todo[k]
      <4>2. Sound(req[q].op, y, k, req[q].stale) /\ IsTx(y)
        BY <4>1 DEF IInv, InFlight, TypeOK, IsRequest
      <4>3. k = 1 /\ y.serial => InSerial(req[q])
        BY <4>1, SeqHeadTail DEF InSerial, IInv, TypeOK, IsRequest, IsSeq
      <4>4. CASE x.set # Nothing
        <5>1. k = 1 /\ y.serial => "row" \in req'[q].stale
          BY <4>1, <4>3, <4>4 DEF Overwritten
        <5> QED
          BY <4>1, <4>2, <5>1 DEF Sound
      <4>5. CASE x.set = Nothing
        <5>1. os'.assigned = os.assigned
          BY <2>2, <4>5 DEF Patched, Nothing, IInv, TypeOK, IsRowOf, Column
        <5>2. otps' = otps
          BY <1>2, <2>2, <4>5 DEF Sound
        <5>3. "row" \notin req'[q].stale => "row" \notin req[q].stale
          BY <4>1
        <5> QED
          BY <4>1, <4>2, <5>1, <5>2, <5>3 DEF Sound
      <4> QED
        BY <4>4, <4>5
    <3> QED
      BY <3>1, <3>2
  <2> QED
    BY <2>4, <2>7, <2>8 DEF IInv
<1> QED
  BY <1>3, <1>4 DEF Commit

LEMMA InitIInv == Init => IInv
<1> SUFFICES ASSUME Init PROVE IInv
  OBVIOUS
<1>1. PICK d \in Tech \cup {NoTech} :
        os = [status |-> "ABERTA", deletedAt |-> "null", assigned |-> NoTech, directed |-> d,
              acceptedAt |-> "null", enRouteAt |-> "null", arrivedAt |-> "null", completedAt |-> "null"]
  BY DEF Init
<1>2. IsRowOf(Column, os) /\ os.acceptedAt = "null"
  BY <1>1 DEF IsRowOf, Column, Status, Timestamp
<1>3. IsRequest(Idle) /\ DOMAIN Idle.todo = {}
  BY DEF IsRequest, Idle, IsSeq
<1>4. IsSeq(<<>>) /\ DOMAIN <<>> = {}
  BY DEF IsSeq
<1>5. TypeOK
  <2>1. offers \in [Offer -> {"none", "active", "expired", "revoked"}] /\ otps \in [Tech -> 0 .. MaxOtp]
    BY BoundAssumption DEF Init
  <2>2. ledger \in BOOLEAN
    BY DEF Init
  <2>3. IsSeq(entries) /\ \A i \in DOMAIN entries : IsRowOf(EntryColumn, entries[i])
    BY <1>4 DEF Init
  <2>4. DOMAIN req = Request /\ \A r \in Request : IsRequest(req[r])
    BY <1>3 DEF Init
  <2> QED
    BY <1>2, <2>1, <2>2, <2>3, <2>4 DEF TypeOK
<1> QED
  BY <1>2, <1>3, <1>5 DEF Init, IInv, AcceptedHasTech, InFlight

LEMMA NextKeeps == IInv /\ [Next]_vars => IInv'
<1> SUFFICES ASSUME IInv, [Next]_vars PROVE IInv'
  OBVIOUS
<1>1. CASE LinkNext
  BY <1>1, LinkKeeps
<1>2. ASSUME NEW r \in Request, DeskNext(r) \/ PortalNext(r) \/ MoneyNext(r)
      PROVE  IInv'
  BY <1>2, DeskPlans, PortalPlans, MoneyPlans, BeginKeeps DEF IInv
<1>3. ASSUME NEW r \in Request, ReadEntries(r)
      PROVE  IInv'
  BY <1>3, ReadKeeps
<1>4. ASSUME NEW r \in Request, Commit(r)
      PROVE  IInv'
  BY <1>4, CommitKeeps
<1>5. CASE UNCHANGED vars
  <2>1. TypeOK' /\ AcceptedHasTech'
    BY <1>5 DEF vars, IInv, TypeOK, AcceptedHasTech
  <2>2. InFlight'
    BY <1>5 DEF vars, IInv, InFlight, Sound
  <2> QED
    BY <2>1, <2>2 DEF IInv
<1> QED
  BY <1>1, <1>2, <1>3, <1>4, <1>5 DEF Next

LEMMA Invariant == Spec => []IInv
BY InitIInv, NextKeeps, PTL DEF Spec

----------------------------------------------------------------------------
(* The theorems *)

(* Rows keep their columns, requests stay lists of transactions, and a     *)
(* one-time code is never consumed twice, whatever requests race for it.   *)
THEOREM TypeCorrect == Spec => []TypeOK
BY Invariant, PTL DEF IInv

(* An order shown as accepted has its technician, however declines,        *)
(* dispatches, assignments and acceptances through links race.             *)
THEOREM AcceptedOrderHasTech == Spec => []AcceptedHasTech
BY Invariant, PTL DEF IInv

(* What moves the order's row, the ledger or the entries is the commit of  *)
(* a transaction that does not fail.                                       *)
LEMMA OnlyCommits ==
  ASSUME TypeOK, [Next]_vars
  PROVE  \/ UNCHANGED <<os, ledger, entries>>
         \/ \E r \in Request : /\ Busy(r) /\ IsTx(Pending(r)) /\ Pending(r) = req[r].todo[1]
                              /\ 1 \in DOMAIN req[r].todo
                              /\ ~Fails(r, Pending(r)) /\ Apply(r, Pending(r))
<1>1. CASE LinkNext
  BY <1>1 DEF LinkNext, CreateOffer, ExpireOffer, RequestOtp
<1>2. ASSUME NEW r \in Request, DeskNext(r) \/ PortalNext(r) \/ MoneyNext(r)
      PROVE  UNCHANGED <<os, ledger, entries>>
  BY <1>2, DeskPlans, PortalPlans, MoneyPlans DEF Planned, Begin
<1>3. ASSUME NEW r \in Request, ReadEntries(r)
      PROVE  UNCHANGED <<os, ledger, entries>>
  BY <1>3 DEF ReadEntries, GiveUp
<1>4. ASSUME NEW r \in Request, Commit(r)
      PROVE  \/ UNCHANGED <<os, ledger, entries>>
             \/ /\ Busy(r) /\ IsTx(Pending(r)) /\ Pending(r) = req[r].todo[1]
                /\ 1 \in DOMAIN req[r].todo
                /\ ~Fails(r, Pending(r)) /\ Apply(r, Pending(r))
  <2>1. CASE GiveUp(r)
    BY <2>1 DEF GiveUp
  <2>2. CASE ~Fails(r, Pending(r)) /\ Apply(r, Pending(r))
    <3>1. Busy(r) /\ IsSeq(req[r].todo) /\ \A k \in DOMAIN req[r].todo : IsTx(req[r].todo[k])
      BY <1>4 DEF Commit, TypeOK, IsRequest
    <3> QED
      BY <2>2, <3>1, SeqHeadTail DEF Busy, Pending
  <2> QED
    BY <1>4, <2>1, <2>2 DEF Commit
<1>5. CASE UNCHANGED vars
  BY <1>5 DEF vars
<1> QED
  BY <1>1, <1>2, <1>3, <1>4, <1>5 DEF Next

(* Accepting through a link never takes an order from a technician: the    *)
(* snapshot of a Serializable acceptance found the order free or his, and  *)
(* PostgreSQL refuses the write if the row has moved since.                *)
THEOREM AcceptanceKeepsTech == Spec => AcceptKeepsTech
<1> DEFINE Keeps == \A r \in Request :
                      (req[r].op \in AcceptHandlers /\ req'[r] = Idle) =>
                        os.assigned \in {NoTech, os'.assigned}
<1>1. ASSUME IInv, [Next]_vars
      PROVE  Keeps
  <2> SUFFICES ASSUME NEW r \in Request, req[r].op \in AcceptHandlers, req'[r] = Idle
               PROVE  os.assigned \in {NoTech, os'.assigned}
    OBVIOUS
  <2>1. CASE UNCHANGED <<os, ledger, entries>>
    BY <2>1
  <2>2. ASSUME NEW q \in Request, IsTx(Pending(q)), Pending(q) = req[q].todo[1],
               1 \in DOMAIN req[q].todo, ~Fails(q, Pending(q)), Apply(q, Pending(q))
        PROVE  os.assigned \in {NoTech, os'.assigned}
    <3> DEFINE x == Pending(q)
    <3>1. q = r
      <4>1. q # r => req'[r].op = req[r].op
        BY <1>1, <2>2 DEF Apply, IInv, TypeOK, IsRequest, Idle
      <4> QED
        BY <4>1 DEF Idle, AcceptHandlers
    <3>2. Sound(req[r].op, x, 1, req[r].stale)
      BY <1>1, <2>2, <3>1 DEF IInv, InFlight
    <3>3. CASE Assigns(x)
      <4>1. x.set # Nothing /\ x.serial
        BY <3>2, <3>3 DEF Sound, Assigns, Nothing
      <4>2. "row" \notin req[r].stale
        BY <2>2, <3>1, <4>1 DEF Fails
      <4> QED
        BY <3>2, <3>3, <4>2 DEF Sound
    <3>4. CASE ~Assigns(x)
      <4>1. "assigned" \in DOMAIN os
        BY <1>1 DEF IInv, TypeOK, IsRowOf, Column
      <4> QED
        BY <2>2, <3>4, <4>1 DEF Apply, Patched, Assigns
    <3> QED
      BY <3>3, <3>4
  <2> QED
    BY <1>1, <2>1, <2>2, OnlyCommits DEF IInv
<1> QED
  BY <1>1, Invariant, PTL DEF Spec, AcceptKeepsTech

----------------------------------------------------------------------------
(* The settlement *)

SettledInv == TypeOK /\ SettledOnce

(* A commit that inserts the ledger row settles the order; every other     *)
(* step leaves the settlement's entries where they are.                    *)
LEMMA StepSettles ==
  ASSUME SettledInv, [Next]_vars
  PROVE  SettledOnce' /\ (S!Settle \/ UNCHANGED <<ledger, SettlementBills>>)
<1>1. CASE UNCHANGED <<os, ledger, entries>>
  BY <1>1 DEF SettledInv, SettledOnce, Bills, SettlementBills
<1>2. ASSUME NEW r \in Request, IsTx(Pending(r)), ~Fails(r, Pending(r)), Apply(r, Pending(r))
      PROVE  SettledOnce' /\ (S!Settle \/ UNCHANGED <<ledger, SettlementBills>>)
  <2> DEFINE x == Pending(r)
  <2>1. /\ DOMAIN entries \subseteq DOMAIN entries'
        /\ \A i \in DOMAIN entries' : IsRowOf(EntryColumn, entries'[i])
        /\ \A i \in DOMAIN entries : /\ entries'[i].type = entries[i].type
                                     /\ entries'[i].origin = entries[i].origin
        /\ \A i \in DOMAIN entries' \ DOMAIN entries :
             /\ i - Len(entries) \in DOMAIN Created(x)
             /\ entries'[i] = Created(x)[i - Len(entries)]
    BY <1>2, EntriesAfter DEF SettledInv
  <2>2. /\ \A k \in DOMAIN Created(x) :
             Created(x)[k].origin = IF x.ledger THEN "settlement" ELSE "launch"
        /\ \A k, l \in DOMAIN Created(x) : Created(x)[k].type = Created(x)[l].type => k = l
    BY <1>2, CreatedRows
  <2> HIDE DEF x
  <2>3. CASE x.ledger
    <3>1. ~ledger /\ ledger'
      BY <1>2, <2>3 DEF Fails, Apply, x
    <3>2. Bills = {}
      BY <3>1 DEF SettledInv, SettledOnce
    <3>3. \A i \in Bills' : i \in DOMAIN entries' \ DOMAIN entries
      BY <2>1, <3>2 DEF Bills
    <3>4. \A i \in DOMAIN entries' \ DOMAIN entries : i \in Int /\ Len(entries) \in Int
      <4>1. IsSeq(entries) /\ IsSeq(entries')
        BY <1>2, EntriesAfter DEF SettledInv, TypeOK
      <4> QED
        BY <4>1 DEF IsSeq
    <3>5. \A i, j \in Bills' : entries'[i].type = entries'[j].type => i = j
      BY <2>1, <2>2, <3>3, <3>4
    <3>6. SettledOnce'
      BY <3>1, <3>5 DEF SettledOnce
    <3>7. \A b \in SettlementBills' : \E i \in Bills' : b.id = i /\ b.type = entries'[i].type
                                                      /\ b = [id |-> i, type |-> entries'[i].type]
      BY DEF SettlementBills
    <3>8. \A i \in Bills' : entries'[i].type \in EntryType
      BY <2>1 DEF Bills, IsRowOf, EntryColumn
    <3>9. \A b \in SettlementBills' : b.type \in EntryType
      BY <3>7, <3>8
    <3>10. S!OneEach(SettlementBills')
      BY <3>5, <3>7 DEF S!OneEach
    <3> QED
      BY <3>1, <3>6, <3>9, <3>10 DEF S!Settle
  <2>4. CASE ~x.ledger
    <3>1. ledger' = ledger
      BY <1>2, <2>4 DEF Apply, SettledInv, TypeOK, x
    <3>2. \A i \in DOMAIN entries' \ DOMAIN entries : entries'[i].origin = "launch"
      BY <2>1, <2>2, <2>4
    <3>3. Bills' = Bills /\ \A i \in Bills : entries'[i].type = entries[i].type
      BY <2>1, <3>2 DEF Bills
    <3>4. SettlementBills' = SettlementBills
      BY <3>3 DEF SettlementBills
    <3>5. SettledOnce'
      BY <3>1, <3>3 DEF SettledInv, SettledOnce
    <3> QED
      BY <3>1, <3>4, <3>5
  <2> QED
    BY <2>3, <2>4
<1> QED
  BY <1>1, <1>2, OnlyCommits DEF SettledInv

LEMMA InitSettled == Init => SettledOnce /\ S!Init
BY DEF Init, SettledOnce, Bills, SettlementBills, S!Init

(* However finalize, approveAndFinalize and confirm race, one settlement   *)
(* at most bills the order, each side once.                                *)
THEOREM OrderSettledOnce == Spec => []SettledOnce
<1>1. SettledInv /\ [Next]_vars => SettledOnce'
  BY StepSettles
<1> QED
  BY <1>1, TypeCorrect, InitSettled, PTL DEF Spec, SettledInv

(* The order's rows implement the abstract settlement.                     *)
THEOREM ImplementsSettlement == Spec => SettlementSpec
<1>1. SettledInv /\ [Next]_vars => [S!Settle]_<<ledger, SettlementBills>>
  BY StepSettles
<1> QED
  BY <1>1, TypeCorrect, OrderSettledOnce, InitSettled, PTL
     DEF Spec, SettledInv, SettlementSpec, S!Spec

----------------------------------------------------------------------------
(* One request at a time *)

(* The desk, the link and the finance screens are used one call after the  *)
(* other: what a handler has read is still there when it writes.           *)
Alone == \A r, s \in Request : r = s

(* A transaction that writes only the order's row, and one that only       *)
(* prepares the next: finalize and dispatchNotifications have two.         *)
RowOnly(x) == DOMAIN x.touch = {} /\ x.make = {} /\ x.read = "none"
Prepares(x) == RowOnly(x) /\ DOMAIN x.set \subseteq {"assigned", "directed"}

(* What the k-th transaction x still to run does not lose: a done order    *)
(* gets its completion time, or has it; ...                                *)
Completes(x, k) ==
  /\ "status" \in DOMAIN x.set /\ x.set["status"] \in {"CONCLUIDA", "APROVADA"} =>
       \/ "completedAt" \in DOMAIN x.set /\ x.set["completedAt"] = "set"
       \/ "completedAt" \notin DOMAIN x.set /\ k = 1 /\ os.completedAt = "set"
  /\ "completedAt" \in DOMAIN x.set /\ x.set["completedAt"] = "null" =>
       "status" \in DOMAIN x.set /\ x.set["status"] \notin {"CONCLUIDA", "APROVADA"}

(* ... a cancelled order is left by three handlers alone; ...              *)
Revives == {"approveAndFinalize", "acceptDirect", "dispatchNotifications"}
StaysCancelled(op, x) ==
  op \notin Revives /\ "status" \in DOMAIN x.set =>
    os.status # "CANCELADA" \/ x.set["status"] = "CANCELADA"

(* ... a receivable is made when there is none, an entry comes to life     *)
(* only if it has not been cancelled; ...                                  *)
BillsOnce(x, k) ==
  /\ "RECEIVABLE" \in x.make /\ x.read = "none" => k = 1 /\ "RECEIVABLE" \notin Existing
  /\ x.read = "refuse" => x.make \subseteq x.ask
  /\ x.read = "open" => x.make = {}
  /\ \A i \in DOMAIN x.touch :
       "status" \in DOMAIN x.touch[i] =>
         \/ x.touch[i]["status"] = "CANCELLED"
         \/ k = 1 /\ i \in DOMAIN entries /\ Live(i)

(* ... and a cancellation cannot fail and cancels whatever is open.        *)
Cascades(op, x, k) ==
  op = "cancel" =>
    /\ ~x.ledger /\ ~x.serial /\ x.make = {}
    /\ \/ x.read = "open"
       \/ x.read = "none" /\ k = 1 /\ x.touch = [i \in Open |-> [status |-> "CANCELLED"]]

FitsAt(op, x, k) == Completes(x, k) /\ StaysCancelled(op, x) /\ BillsOnce(x, k) /\ Cascades(op, x, k)

Fits(op, todo) ==
  /\ DOMAIN todo \subseteq {1, 2}
  /\ 2 \in DOMAIN todo => Prepares(todo[1])
  /\ \A k \in DOMAIN todo : FitsAt(op, todo[k], k)

Fitting == \A r \in Request : Fits(req[r].op, req[r].todo)

AloneInv == IInv /\ DoneHasCompletion /\ OneReceivable /\ Fitting

Fitted(r) == \E op \in Handlers : \E todo : Begin(r, op, todo) /\ Fits(op, todo)

LEMMA FitOne ==
  ASSUME NEW r, NEW op, NEW x, Begin(r, op, <<x>>), FitsAt(op, x, 1)
  PROVE  Fitted(r)
<1>1. Fits(op, <<x>>)
  BY SeqOne DEF Fits
<1> QED
  BY <1>1 DEF Fitted, Begin

LEMMA FitTwo ==
  ASSUME NEW r, NEW op, NEW x, NEW y, Begin(r, op, <<x, y>>), Prepares(x), FitsAt(op, x, 1), FitsAt(op, y, 2)
  PROVE  Fitted(r)
<1>1. Fits(op, <<x, y>>)
  BY SeqTwo DEF Fits
<1> QED
  BY <1>1 DEF Fitted, Begin

(* A transaction on the order's row touches no entry.                      *)
LEMMA RowFits ==
  ASSUME NEW op, op # "cancel", NEW x, NEW k, RowOnly(x), Completes(x, k), StaysCancelled(op, x)
  PROVE  FitsAt(op, x, k)
BY DEF RowOnly, FitsAt, BillsOnce, Cascades

LEMMA UpdateRow ==
  ASSUME NEW p
  PROVE  RowOnly(Update(p)) /\ Update(p).set = p
BY DEF RowOnly, Update, Tx, Nothing

LEMMA DeskFits ==
  ASSUME TypeOK, NEW r \in Request, DeskNext(r)
  PROVE  Fitted(r)
<1> USE DEF DeskNext
<1>1. ASSUME NEW status \in Status, UpdateStatus(r, status)
      PROVE  Fitted(r)
  <2> DEFINE p == IF status \in {"CONCLUIDA", "APROVADA"} /\ os.completedAt = "null"
                    THEN [status |-> status, completedAt |-> "set"]
                    ELSE [status |-> status]
  <2>1. /\ p.status = status
        /\ "completedAt" \in DOMAIN p => p["completedAt"] = "set"
        /\ "completedAt" \notin DOMAIN p /\ status \in {"CONCLUIDA", "APROVADA"} => os.completedAt # "null"
    OBVIOUS
  <2>2. Begin(r, "updateStatus", <<Update(p)>>) /\ status \in ALLOWED_TRANSITIONS[os.status]
    BY <1>1 DEF UpdateStatus
  <2> HIDE DEF p
  <2>3. os.completedAt \in {"null", "set"} /\ os.status # "CANCELADA"
    BY <2>2 DEF TypeOK, IsRowOf, Column, Timestamp, ALLOWED_TRANSITIONS
  <2>4. RowOnly(Update(p)) /\ Update(p).set = p
    BY UpdateRow
  <2>5. Completes(Update(p), 1) /\ StaysCancelled("updateStatus", Update(p))
    BY <2>1, <2>3, <2>4 DEF Completes, StaysCancelled
  <2>6. FitsAt("updateStatus", Update(p), 1)
    BY <2>4, <2>5, RowFits
  <2> QED
    BY <2>2, <2>6, FitOne
<1>2. ASSUME NEW t \in Tech, Assign(r, t)
      PROVE  Fitted(r)
  <2> DEFINE p == [assigned |-> t, acceptedAt |-> "set", status |-> "ATRIBUIDA"]
  <2>1. p.status = "ATRIBUIDA" /\ "completedAt" \notin DOMAIN p
    OBVIOUS
  <2>2. Begin(r, "assign", <<Update(p)>>) /\ os.status # "CANCELADA"
    BY <1>2 DEF Assign, TERMINAL_STATUSES
  <2> HIDE DEF p
  <2>3. RowOnly(Update(p)) /\ Update(p).set = p
    BY UpdateRow
  <2>4. Completes(Update(p), 1) /\ StaysCancelled("assign", Update(p))
    BY <2>1, <2>2, <2>3 DEF Completes, StaysCancelled
  <2>5. FitsAt("assign", Update(p), 1)
    BY <2>3, <2>4, RowFits
  <2> QED
    BY <2>2, <2>5, FitOne
<1>3. ASSUME NEW t \in Tech, Reassign(r, t)
      PROVE  Fitted(r)
  <2> DEFINE p == [assigned |-> t, status |-> "ABERTA", acceptedAt |-> "null",
                   enRouteAt |-> "null", arrivedAt |-> "null", completedAt |-> "null"]
             x == [Tx EXCEPT !.revoke = Offer, !.set = p]
  <2>1. p.status = "ABERTA" /\ "status" \in DOMAIN p
    OBVIOUS
  <2>2. Begin(r, "reassign", <<x>>) /\ os.status # "CANCELADA"
    BY <1>3 DEF Reassign
  <2> HIDE DEF p
  <2>3. RowOnly(x) /\ x.set = p
    BY DEF RowOnly, Tx, Nothing
  <2> HIDE DEF x
  <2>4. Completes(x, 1) /\ StaysCancelled("reassign", x)
    BY <2>1, <2>2, <2>3 DEF Completes, StaysCancelled
  <2>5. FitsAt("reassign", x, 1)
    BY <2>3, <2>4, RowFits
  <2> QED
    BY <2>2, <2>5, FitOne
<1>4. ASSUME Cancel(r)
      PROVE  Fitted(r)
  <2> DEFINE p == [status |-> "CANCELADA"]
             x == [Update(p) EXCEPT !.read = "open"]
  <2>1. p.status = "CANCELADA" /\ "completedAt" \notin DOMAIN p
    OBVIOUS
  <2>2. Begin(r, "cancel", <<x>>)
    BY <1>4 DEF Cancel
  <2> HIDE DEF p
  <2>3. /\ x.set = p /\ DOMAIN x.touch = {} /\ x.make = {} /\ x.read = "open"
        /\ x.ledger = FALSE /\ x.serial = FALSE
    BY DEF Update, Tx, Nothing
  <2> HIDE DEF x
  <2>4. FitsAt("cancel", x, 1)
    BY <2>1, <2>3 DEF FitsAt, Completes, StaysCancelled, BillsOnce, Cascades
  <2> QED
    BY <2>2, <2>4, FitOne
<1>5. ASSUME Remove(r)
      PROVE  Fitted(r)
  <2> DEFINE p == [deletedAt |-> "set"]
  <2>1. "status" \notin DOMAIN p /\ "completedAt" \notin DOMAIN p
    OBVIOUS
  <2>2. Begin(r, "remove", <<Update(p)>>)
    BY <1>5 DEF Remove
  <2> HIDE DEF p
  <2>3. RowOnly(Update(p)) /\ Update(p).set = p
    BY UpdateRow
  <2>4. Completes(Update(p), 1) /\ StaysCancelled("remove", Update(p))
    BY <2>1, <2>3 DEF Completes, StaysCancelled
  <2>5. FitsAt("remove", Update(p), 1)
    BY <2>3, <2>4, RowFits
  <2> QED
    BY <2>2, <2>5, FitOne
<1>6. ASSUME NEW t \in Tech \cup {NoTech}, NEW alone \in BOOLEAN, DispatchNotifications(r, t, alone)
      PROVE  Fitted(r)
  <2> DEFINE p == [directed |-> t]
             d == [assigned |-> t, status |-> "ATRIBUIDA", acceptedAt |-> "set"]
  <2>1. /\ DOMAIN p = {"directed"}
        /\ d.status = "ATRIBUIDA" /\ "completedAt" \notin DOMAIN d
    OBVIOUS
  <2>2. \/ Begin(r, "dispatchNotifications", <<Update(p)>> \o <<Update(d)>>)
        \/ Begin(r, "dispatchNotifications", <<Update(p)>> \o <<>>)
    BY <1>6 DEF DispatchNotifications
  <2> HIDE DEF p, d
  <2>3. \/ Begin(r, "dispatchNotifications", <<Update(p), Update(d)>>)
        \/ Begin(r, "dispatchNotifications", <<Update(p)>>)
    BY <2>2, SeqJoin
  <2>4. RowOnly(Update(p)) /\ Update(p).set = p /\ RowOnly(Update(d)) /\ Update(d).set = d
    BY UpdateRow
  <2>5. /\ Completes(Update(p), 1) /\ StaysCancelled("dispatchNotifications", Update(p))
        /\ Completes(Update(d), 2) /\ StaysCancelled("dispatchNotifications", Update(d))
        /\ Prepares(Update(p))
    BY <2>1, <2>4 DEF Completes, StaysCancelled, Revives, Prepares
  <2>6. FitsAt("dispatchNotifications", Update(p), 1) /\ FitsAt("dispatchNotifications", Update(d), 2)
    BY <2>4, <2>5, RowFits
  <2> QED
    BY <2>3, <2>5, <2>6, FitOne, FitTwo
<1> QED
  BY <1>1, <1>2, <1>3, <1>4, <1>5, <1>6

LEMMA PortalFits ==
  ASSUME TypeOK, NEW r \in Request, PortalNext(r)
  PROVE  Fitted(r)
<1> USE DEF PortalNext
<1>1. ASSUME NEW o \in Offer, AcceptDirect(r, o)
      PROVE  Fitted(r)
  <2> DEFINE links == {l \in Offer : offers[l] # "none"}
             X(p) == [Tx EXCEPT !.set = p, !.serial = TRUE, !.revoke = links]
             a == [acceptedAt |-> "set", status |-> "ATRIBUIDA"]
             d == [assigned |-> os.directed, acceptedAt |-> "set", status |-> "ATRIBUIDA"]
  <2>1. \/ Begin(r, "acceptDirect", <<X(a)>>)
        \/ Begin(r, "acceptDirect", <<X(d)>>)
        \/ Begin(r, "acceptDirect", <<X(Nothing)>>)
    BY <1>1 DEF AcceptDirect
  <2>2. /\ a.status = "ATRIBUIDA" /\ "completedAt" \notin DOMAIN a
        /\ d.status = "ATRIBUIDA" /\ "completedAt" \notin DOMAIN d
        /\ DOMAIN Nothing = {}
    BY DEF Nothing
  <2> HIDE DEF a, d, links
  <2>3. ASSUME NEW p, "completedAt" \notin DOMAIN p, "status" \in DOMAIN p => p["status"] = "ATRIBUIDA"
        PROVE  FitsAt("acceptDirect", X(p), 1)
    <3>1. RowOnly(X(p)) /\ X(p).set = p
      BY DEF RowOnly, Tx, Nothing
    <3> HIDE DEF X
    <3>2. Completes(X(p), 1) /\ StaysCancelled("acceptDirect", X(p))
      BY <2>3, <3>1 DEF Completes, StaysCancelled, Revives
    <3> QED
      BY <3>1, <3>2, RowFits
  <2> HIDE DEF X
  <2>4. FitsAt("acceptDirect", X(a), 1) /\ FitsAt("acceptDirect", X(d), 1) /\ FitsAt("acceptDirect", X(Nothing), 1)
    BY <2>2, <2>3
  <2> QED
    BY <2>1, <2>4, FitOne
<1>2. ASSUME NEW o \in Offer, NEW t \in Tech, AcceptWithOtp(r, o, t)
      PROVE  Fitted(r)
  <2> DEFINE links == {l \in Offer : offers[l] # "none"}
             p == [assigned |-> t, acceptedAt |-> "set", status |-> "ATRIBUIDA"]
             x == [Tx EXCEPT !.set = p, !.otp = t, !.serial = TRUE, !.revoke = links]
  <2>1. p.status = "ATRIBUIDA" /\ "completedAt" \notin DOMAIN p
    OBVIOUS
  <2>2. Begin(r, "acceptWithOtp", <<x>>) /\ os.status # "CANCELADA"
    BY <1>2 DEF AcceptWithOtp
  <2> HIDE DEF p, links
  <2>3. RowOnly(x) /\ x.set = p
    BY DEF RowOnly, Tx, Nothing
  <2> HIDE DEF x
  <2>4. Completes(x, 1) /\ StaysCancelled("acceptWithOtp", x)
    BY <2>1, <2>2, <2>3 DEF Completes, StaysCancelled
  <2>5. FitsAt("acceptWithOtp", x, 1)
    BY <2>3, <2>4, RowFits
  <2> QED
    BY <2>2, <2>5, FitOne
<1>3. ASSUME NEW op, op \notin {"cancel"}, NEW p, Begin(r, op, <<Update(p)>>),
             "completedAt" \notin DOMAIN p, os.status # "CANCELADA",
             "status" \in DOMAIN p => p["status"] \notin {"CONCLUIDA", "APROVADA"}
      PROVE  Fitted(r)
  <2>1. RowOnly(Update(p)) /\ Update(p).set = p
    BY UpdateRow
  <2>2. Completes(Update(p), 1) /\ StaysCancelled(op, Update(p))
    BY <1>3, <2>1 DEF Completes, StaysCancelled
  <2>3. FitsAt(op, Update(p), 1)
    BY <1>3, <2>1, <2>2, RowFits
  <2> QED
    BY <1>3, <2>3, FitOne
<1>4. ASSUME NEW o \in Offer, MarkEnRoute(r, o)
      PROVE  Fitted(r)
  <2> DEFINE p == IF os.status = "ATRIBUIDA" THEN [enRouteAt |-> "set", status |-> "A_CAMINHO"]
                                               ELSE [enRouteAt |-> "set"]
  <2>1. "completedAt" \notin DOMAIN p /\ ("status" \in DOMAIN p => p["status"] \notin {"CONCLUIDA", "APROVADA"})
    OBVIOUS
  <2>2. Begin(r, "markEnRoute", <<Update(p)>>) /\ os.status # "CANCELADA"
    BY <1>4 DEF MarkEnRoute, Available
  <2> HIDE DEF p
  <2> QED
    BY <1>3, <2>1, <2>2
<1>5. ASSUME NEW o \in Offer, NEW autoStart \in BOOLEAN, MarkArrived(r, o, autoStart)
      PROVE  Fitted(r)
  <2> DEFINE p == IF autoStart /\ os.status \in {"ATRIBUIDA", "A_CAMINHO"}
                    THEN [arrivedAt |-> "set", status |-> "EM_EXECUCAO"]
                    ELSE [arrivedAt |-> "set"]
  <2>1. "completedAt" \notin DOMAIN p /\ ("status" \in DOMAIN p => p["status"] \notin {"CONCLUIDA", "APROVADA"})
    OBVIOUS
  <2>2. Begin(r, "markArrived", <<Update(p)>>) /\ os.status # "CANCELADA"
    BY <1>5 DEF MarkArrived, Available
  <2> HIDE DEF p
  <2> QED
    BY <1>3, <2>1, <2>2
<1>6. ASSUME NEW o \in Offer, NEW onDecline \in OnDecline, DeclineAfterAccept(r, o, onDecline)
      PROVE  Fitted(r)
  <2> DEFINE Back(status) == [status |-> status, assigned |-> NoTech, acceptedAt |-> "null"]
             c == [status |-> "CANCELADA"]
  <2>1. /\ \A status \in Status : "completedAt" \notin DOMAIN Back(status) /\ Back(status)["status"] = status
        /\ "completedAt" \notin DOMAIN c /\ c["status"] = "CANCELADA"
        /\ DOMAIN Nothing = {}
    BY DEF Nothing
  <2>2. \/ Begin(r, "declineAfterAccept", <<Update(Back("OFERTADA"))>>)
        \/ Begin(r, "declineAfterAccept", <<Update(Back("ABERTA"))>>)
        \/ Begin(r, "declineAfterAccept", <<Update(c)>>)
        \/ Begin(r, "declineAfterAccept", <<Update(Nothing)>>)
    BY <1>6 DEF DeclineAfterAccept, OnDecline
  <2>3. os.status # "CANCELADA"
    BY <1>6 DEF DeclineAfterAccept, Available
  <2> HIDE DEF Back, c
  <2> QED
    BY <1>3, <2>1, <2>2, <2>3 DEF Status
<1> QED
  BY <1>1, <1>2, <1>4, <1>5, <1>6

(* Only pay, reverse and the other changes of an entry touch one, and they *)
(* find it alive; what makes a receivable has to look first.               *)
LEMMA MoneyFits ==
  ASSUME TypeOK, NEW r \in Request, MoneyNext(r)
  PROVE  Fitted(r)
<1> USE DEF MoneyNext
<1>0. /\ DOMAIN Nothing = {}
      /\ \A types : Payable(types, os.assigned) \subseteq types
  BY DEF Nothing, Payable
<1>1. ASSUME NEW types \in SUBSET EntryType, EarlyFinancialLaunch(r, types)
      PROVE  Fitted(r)
  <2> DEFINE x == [Tx EXCEPT !.ask = types, !.make = Payable(types, os.assigned),
                             !.born = "PAID", !.read = "refuse"]
  <2>1. Begin(r, "earlyFinancialLaunch", <<x>>)
    BY <1>1 DEF EarlyFinancialLaunch
  <2>2. x.set = Nothing /\ x.touch = Nothing /\ x.ask = types /\ x.make = Payable(types, os.assigned) /\ x.read = "refuse"
    BY DEF Tx, Nothing
  <2> HIDE DEF x
  <2>3. FitsAt("earlyFinancialLaunch", x, 1)
    BY <2>2, <1>0 DEF FitsAt, Completes, StaysCancelled, BillsOnce, Cascades
  <2> QED
    BY <2>1, <2>3, FitOne
<1>2. ASSUME Finalize(r)
      PROVE  Fitted(r)
  <2> DEFINE d == [assigned |-> os.directed]
             p == [status |-> "CONCLUIDA", completedAt |-> "set"]
             x == [Tx EXCEPT !.set = p, !.make = EntryType, !.ledger = TRUE, !.read = "skip"]
  <2>1. /\ "completedAt" \in DOMAIN p /\ p["completedAt"] = "set"
        /\ DOMAIN d = {"assigned"}
    OBVIOUS
  <2>2. /\ os.status # "CANCELADA"
        /\ \/ Begin(r, "finalize", <<>> \o <<x>>)
           \/ Begin(r, "finalize", <<Update(d)>> \o <<x>>)
    BY <1>2 DEF Finalize
  <2> HIDE DEF d, p
  <2>3. x.set = p /\ x.touch = Nothing /\ x.read = "skip"
    BY DEF Tx, Nothing
  <2> HIDE DEF x
  <2>4. \A k \in {1, 2} : FitsAt("finalize", x, k)
    BY <2>1, <2>2, <2>3, <1>0 DEF FitsAt, Completes, StaysCancelled, BillsOnce, Cascades
  <2>5. RowOnly(Update(d)) /\ Update(d).set = d
    BY UpdateRow
  <2>6. Completes(Update(d), 1) /\ StaysCancelled("finalize", Update(d)) /\ Prepares(Update(d))
    BY <2>1, <2>5 DEF Completes, StaysCancelled, Prepares
  <2>7. FitsAt("finalize", Update(d), 1)
    BY <2>5, <2>6, RowFits
  <2>8. \/ Begin(r, "finalize", <<x>>)
        \/ Begin(r, "finalize", <<Update(d), x>>)
    BY <2>2, SeqJoin
  <2> QED
    BY <2>4, <2>6, <2>7, <2>8, FitOne, FitTwo
<1>3. ASSUME NEW types \in SUBSET EntryType, ApproveAndFinalize(r, types)
      PROVE  Fitted(r)
  <2> DEFINE p == [status |-> "APROVADA", completedAt |-> "set"]
             x == [Tx EXCEPT !.set = p, !.make = Payable(types, os.assigned),
                             !.ledger = TRUE, !.read = "skip"]
  <2>1. "completedAt" \in DOMAIN p /\ p["completedAt"] = "set"
    OBVIOUS
  <2>2. Begin(r, "approveAndFinalize", <<x>>)
    BY <1>3 DEF ApproveAndFinalize
  <2> HIDE DEF p
  <2>3. x.set = p /\ x.touch = Nothing /\ x.read = "skip"
    BY DEF Tx, Nothing
  <2> HIDE DEF x
  <2>4. FitsAt("approveAndFinalize", x, 1)
    BY <2>1, <2>3, <1>0 DEF FitsAt, Completes, StaysCancelled, Revives, BillsOnce, Cascades
  <2> QED
    BY <2>2, <2>4, FitOne
<1>4. ASSUME Confirm(r)
      PROVE  Fitted(r)
  <2> DEFINE x == [Tx EXCEPT !.make = {"PAYABLE"}, !.born = "CONFIRMED", !.ledger = TRUE]
  <2>1. Begin(r, "confirm", <<x>>)
    BY <1>4 DEF Confirm
  <2>2. x.set = Nothing /\ x.touch = Nothing /\ x.read = "none" /\ x.make = {"PAYABLE"}
    BY DEF Tx, Nothing
  <2> HIDE DEF x
  <2>3. FitsAt("confirm", x, 1)
    BY <2>2, <1>0 DEF FitsAt, Completes, StaysCancelled, BillsOnce, Cascades
  <2> QED
    BY <2>1, <2>3, FitOne
<1>5. ASSUME NEW i \in DOMAIN entries, NEW to \in DOMAIN HandlerOf, ChangeEntryStatus(r, i, to)
      PROVE  Fitted(r)
  <2> DEFINE e == [status |-> IF to = "REVERSED" THEN "PENDING" ELSE to]
             x == [Tx EXCEPT !.touch = [j \in {i} |-> e]]
  <2>1. Begin(r, HandlerOf[to], <<x>>) /\ to \in allowedTransitions[entries[i].status]
    BY <1>5 DEF ChangeEntryStatus
  <2>2. HandlerOf[to] # "cancel"
    BY DEF HandlerOf
  <2>3. Live(i)
    BY <2>1 DEF Live, allowedTransitions
  <2>4. x.set = Nothing /\ x.touch = [j \in {i} |-> e] /\ x.make = {} /\ x.read = "none"
    BY DEF Tx
  <2> HIDE DEF x, e
  <2>5. FitsAt(HandlerOf[to], x, 1)
    BY <2>2, <2>3, <2>4, <1>0 DEF FitsAt, Completes, StaysCancelled, BillsOnce, Cascades
  <2> QED
    BY <2>1, <2>5, FitOne
<1>6. ASSUME NEW i \in DOMAIN entries, DeleteEntry(r, i)
      PROVE  Fitted(r)
  <2> DEFINE e == [deletedAt |-> "set"]
             x == [Tx EXCEPT !.touch = [j \in {i} |-> e]]
  <2>1. Begin(r, "deleteEntry", <<x>>) /\ DOMAIN e = {"deletedAt"}
    BY <1>6 DEF DeleteEntry
  <2> HIDE DEF e
  <2>2. x.set = Nothing /\ x.touch = [j \in {i} |-> e] /\ x.make = {} /\ x.read = "none"
    BY DEF Tx
  <2> HIDE DEF x
  <2>3. FitsAt("deleteEntry", x, 1)
    BY <2>1, <2>2, <1>0 DEF FitsAt, Completes, StaysCancelled, BillsOnce, Cascades
  <2> QED
    BY <2>1, <2>3, FitOne
<1> QED
  BY <1>1, <1>2, <1>3, <1>4, <1>5, <1>6

----------------------------------------------------------------------------
(* Every step keeps what the only request knows. *)

LEMMA StillFits ==
  ASSUME UNCHANGED <<os, entries>>, NEW op, NEW todo, Fits(op, todo)
  PROVE  Fits(op, todo)'
<1>1. ASSUME NEW k, NEW x, FitsAt(op, x, k) PROVE FitsAt(op, x, k)'
  <2>1. Completes(x, k)' /\ StaysCancelled(op, x)'
    BY <1>1 DEF FitsAt, Completes, StaysCancelled
  <2>2. Existing' = Existing /\ Open' = Open /\ entries' = entries
    BY DEF Existing, Open
  <2>3. BillsOnce(x, k)'
    BY <1>1, <2>2 DEF FitsAt, BillsOnce, Live
  <2>4. Cascades(op, x, k)'
    BY <1>1, <2>2 DEF FitsAt, Cascades
  <2> QED
    BY <2>1, <2>3, <2>4 DEF FitsAt
<1> QED
  BY <1>1 DEF Fits

LEMMA OneKeeps ==
  ASSUME Alone, TypeOK, UNCHANGED <<os, entries>>, DoneHasCompletion, OneReceivable, NEW r \in Request, NEW n,
         req' = [req EXCEPT ![r] = n], Fits(n.op, n.todo)
  PROVE  DoneHasCompletion' /\ OneReceivable' /\ Fitting'
<1>1. DoneHasCompletion' /\ OneReceivable'
  BY DEF DoneHasCompletion, OneReceivable, Live
<1>2. ASSUME NEW q \in Request PROVE Fits(req[q].op, req[q].todo)'
  <2>1. q = r
    BY DEF Alone
  <2>2. req'[q] = n
    BY <2>1 DEF TypeOK
  <2>3. Fits(n.op, n.todo)'
    BY StillFits
  <2> QED
    BY <2>2, <2>3
<1> QED
  BY <1>1, <1>2 DEF Fitting

LEMMA FitIdle == Fits("idle", <<>>)
BY DEF Fits

LEMMA FittedKeeps ==
  ASSUME Alone, AloneInv, NEW r \in Request, Fitted(r)
  PROVE  DoneHasCompletion' /\ OneReceivable' /\ Fitting'
<1>1. PICK op \in Handlers : \E todo : Begin(r, op, todo) /\ Fits(op, todo)
  BY DEF Fitted
<1>2. PICK todo : Begin(r, op, todo) /\ Fits(op, todo)
  BY <1>1
<1> DEFINE n == [op |-> op, todo |-> todo, stale |-> {}]
<1>3. req' = [req EXCEPT ![r] = n] /\ UNCHANGED <<os, entries>>
  BY <1>2 DEF Begin
<1>4. n.op = op /\ n.todo = todo
  OBVIOUS
<1> HIDE DEF n
<1> QED
  BY <1>2, <1>3, <1>4, OneKeeps DEF AloneInv, IInv

LEMMA StopKeeps ==
  ASSUME Alone, AloneInv, NEW r \in Request, GiveUp(r)
  PROVE  DoneHasCompletion' /\ OneReceivable' /\ Fitting'
<1>1. Idle.op = "idle" /\ Idle.todo = <<>>
  BY DEF Idle
<1> QED
  BY <1>1, FitIdle, OneKeeps DEF AloneInv, IInv, GiveUp

(* The second read looks at what exists, or is open, and nothing changes   *)
(* it before the transaction.                                              *)
LEMMA ReadFits ==
  ASSUME Alone, AloneInv, NEW r \in Request, ReadEntries(r)
  PROVE  DoneHasCompletion' /\ OneReceivable' /\ Fitting'
<1> DEFINE q == req[r]
           x == Head(q.todo)
           e == [status |-> "CANCELLED"]
           Cancelled == [x EXCEPT !.touch = [i \in Open |-> e]]
<1>1. /\ IsRequest(q) /\ IsSeq(q.todo) /\ q.todo # <<>>
      /\ x = q.todo[1] /\ 1 \in DOMAIN q.todo /\ IsSeq(Tail(q.todo))
      /\ \A k \in DOMAIN Tail(q.todo) : k # 0 /\ k + 1 \in DOMAIN q.todo
  BY SeqHeadTail DEF AloneInv, IInv, TypeOK, IsRequest, ReadEntries, Busy
<1>2. IsTx(x) /\ FitsAt(q.op, x, 1) /\ Fits(q.op, q.todo)
  BY <1>1 DEF AloneInv, Fitting, Fits, IInv, TypeOK, IsRequest
<1>3. ASSUME NEW z, x.read # "none", FitsAt(q.op, z, 1),
             req' = [req EXCEPT ![r].todo = <<z>> \o Tail(@)], UNCHANGED <<os, entries>>
      PROVE  DoneHasCompletion' /\ OneReceivable' /\ Fitting'
  <2> DEFINE c == <<z>> \o Tail(q.todo)
             n == [q EXCEPT !.todo = c]
  <2>1. 2 \notin DOMAIN q.todo /\ DOMAIN q.todo \subseteq {1, 2}
    BY <1>1, <1>2, <1>3 DEF Fits, Prepares, RowOnly
  <2>2. /\ c[1] = z
        /\ \A k \in DOMAIN c : k # 1 => k - 1 \in DOMAIN Tail(q.todo) /\ k = (k - 1) + 1
    BY <1>1, SeqCons
  <2>3. DOMAIN c \subseteq {1}
    <3>1. ASSUME NEW k \in DOMAIN c, k # 1 PROVE FALSE
      <4>1. k \in DOMAIN q.todo
        BY <1>1, <2>2, <3>1
      <4>2. k = 1
        BY <2>1, <4>1
      <4> QED
        BY <3>1, <4>2
    <3> QED
      BY <3>1
  <2>4. req' = [req EXCEPT ![r] = n]
    BY <1>3
  <2> HIDE DEF c
  <2>5. n.todo = c /\ n.op = q.op
    BY <1>1 DEF IsRequest, Idle
  <2>6. Fits(q.op, c)
    BY <1>3, <2>2, <2>3 DEF Fits
  <2> HIDE DEF n
  <2> QED
    BY <1>3, <2>4, <2>5, <2>6, OneKeeps DEF AloneInv, IInv
<1>4. ASSUME x.read = "skip" PROVE FitsAt(q.op, [[x EXCEPT !.make = @ \ Existing] EXCEPT !.read = "none"], 1)
  <2> DEFINE z == [[x EXCEPT !.make = @ \ Existing] EXCEPT !.read = "none"]
  <2>1. z.set = x.set /\ z.touch = x.touch /\ z.make = x.make \ Existing /\ z.read = "none"
        /\ z.ledger = x.ledger /\ z.serial = x.serial
    BY <1>2 DEF IsTx, Tx
  <2> HIDE DEF z
  <2>2. Completes(z, 1) /\ StaysCancelled(q.op, z)
    BY <1>2, <2>1 DEF FitsAt, Completes, StaysCancelled
  <2>3. BillsOnce(z, 1) /\ Cascades(q.op, z, 1)
    BY <1>2, <1>4, <2>1 DEF FitsAt, BillsOnce, Cascades
  <2> QED
    BY <2>2, <2>3 DEF FitsAt, z
<1>5. ASSUME x.read = "refuse", x.ask \cap Existing = {} PROVE FitsAt(q.op, [x EXCEPT !.read = "none"], 1)
  <2> DEFINE z == [x EXCEPT !.read = "none"]
  <2>1. z.set = x.set /\ z.touch = x.touch /\ z.make = x.make /\ z.read = "none"
        /\ z.ledger = x.ledger /\ z.serial = x.serial
    BY <1>2 DEF IsTx, Tx
  <2> HIDE DEF z
  <2>2. Completes(z, 1) /\ StaysCancelled(q.op, z)
    BY <1>2, <2>1 DEF FitsAt, Completes, StaysCancelled
  <2>3. x.make \subseteq x.ask
    BY <1>2, <1>5 DEF FitsAt, BillsOnce
  <2>4. BillsOnce(z, 1) /\ Cascades(q.op, z, 1)
    BY <1>2, <1>5, <2>1, <2>3 DEF FitsAt, BillsOnce, Cascades
  <2> QED
    BY <2>2, <2>4 DEF FitsAt, z
<1>6. ASSUME x.read = "open" PROVE FitsAt(q.op, [Cancelled EXCEPT !.read = "none"], 1)
  <2> DEFINE z == [Cancelled EXCEPT !.read = "none"]
  <2>1. z.set = x.set /\ z.touch = [i \in Open |-> e] /\ z.make = x.make /\ z.read = "none"
        /\ z.ledger = x.ledger /\ z.serial = x.serial
    BY <1>2 DEF IsTx, Tx
  <2> HIDE DEF z
  <2>2. Completes(z, 1) /\ StaysCancelled(q.op, z)
    BY <1>2, <2>1 DEF FitsAt, Completes, StaysCancelled
  <2>3. x.make = {}
    BY <1>2, <1>6 DEF FitsAt, BillsOnce
  <2>4. BillsOnce(z, 1) /\ Cascades(q.op, z, 1)
    BY <1>2, <1>6, <2>1, <2>3 DEF FitsAt, BillsOnce, Cascades
  <2> QED
    BY <2>2, <2>4 DEF FitsAt, z
<1>7. CASE GiveUp(r)
  BY <1>7, StopKeeps
<1>8. CASE x.read = "skip" /\ req' = [req EXCEPT ![r].todo = <<[[x EXCEPT !.make = @ \ Existing] EXCEPT !.read = "none"]>> \o Tail(@)]
           /\ UNCHANGED <<os, entries>>
  BY <1>3, <1>4, <1>8
<1>9. CASE x.read = "refuse" /\ x.ask \cap Existing = {} /\ req' = [req EXCEPT ![r].todo = <<[x EXCEPT !.read = "none"]>> \o Tail(@)]
           /\ UNCHANGED <<os, entries>>
  BY <1>3, <1>5, <1>9
<1>10. CASE x.read = "open" /\ req' = [req EXCEPT ![r].todo = <<[Cancelled EXCEPT !.read = "none"]>> \o Tail(@)]
            /\ UNCHANGED <<os, entries>>
  BY <1>3, <1>6, <1>10
<1> QED
  BY <1>7, <1>8, <1>9, <1>10 DEF ReadEntries, Pending

LEMMA DoneAfter ==
  ASSUME TypeOK, DoneHasCompletion, NEW x, IsTx(x), Completes(x, 1), os' = Patched(os, x.set)
  PROVE  DoneHasCompletion'
<1>1. {"status", "completedAt"} \subseteq DOMAIN os
  BY DEF TypeOK, IsRowOf, Column
<1>2. /\ os'.status = IF "status" \in DOMAIN x.set THEN x.set["status"] ELSE os.status
      /\ os'.completedAt = IF "completedAt" \in DOMAIN x.set THEN x.set["completedAt"] ELSE os.completedAt
  BY <1>1 DEF Patched
<1>3. "completedAt" \in DOMAIN x.set => x.set["completedAt"] \in {"null", "set"}
  BY DEF IsTx, IsPatchOf, Column, Timestamp
<1> QED
  BY <1>2, <1>3 DEF Completes, DoneHasCompletion

(* What is alive after a commit was so before, or is made by it.           *)
LEMMA LiveAfter ==
  ASSUME TypeOK, NEW r \in Request, NEW x, IsTx(x), BillsOnce(x, 1), Apply(r, x), NEW i \in DOMAIN entries, Live(i)'
  PROVE  Live(i)
<1>1. entries'[i] = IF i \in DOMAIN x.touch THEN Patched(entries[i], x.touch[i]) ELSE entries[i]
  BY EntriesAfter
<1>2. CASE i \in DOMAIN x.touch
  <2>1. "status" \in DOMAIN entries[i]
    BY DEF TypeOK, IsRowOf, EntryColumn
  <2>2. entries'[i].status = IF "status" \in DOMAIN x.touch[i] THEN x.touch[i]["status"] ELSE entries[i].status
    BY <1>1, <1>2, <2>1 DEF Patched
  <2> QED
    BY <1>2, <2>2 DEF BillsOnce, Live
<1>3. CASE i \notin DOMAIN x.touch
  BY <1>1, <1>3 DEF Live
<1> QED
  BY <1>2, <1>3

LEMMA OneAfter ==
  ASSUME TypeOK, OneReceivable, NEW r \in Request, NEW x, IsTx(x), x.read = "none", BillsOnce(x, 1), Apply(r, x)
  PROVE  OneReceivable'
<1>1. /\ IsSeq(entries') /\ IsSeq(entries)
      /\ \A i \in DOMAIN entries : entries'[i].type = entries[i].type
      /\ \A i \in DOMAIN entries' \ DOMAIN entries :
           /\ i - Len(entries) \in DOMAIN Created(x)
           /\ entries'[i] = Created(x)[i - Len(entries)]
  BY EntriesAfter DEF TypeOK
<1>2. /\ \A i \in DOMAIN Created(x) : Created(x)[i].type \in x.make
      /\ \A i, j \in DOMAIN Created(x) : Created(x)[i].type = Created(x)[j].type => i = j
  BY CreatedRows
<1>3. \A i \in DOMAIN entries' \cup DOMAIN entries : i \in Int
  BY <1>1 DEF IsSeq
<1>4. Len(entries) \in Int
  BY <1>1 DEF IsSeq
<1>5. \A i \in DOMAIN entries : Live(i)' => Live(i)
  BY LiveAfter
<1>6. \A i \in DOMAIN entries : Live(i) => entries[i].type \in Existing
  BY DEF Existing, Live
<1>7. "RECEIVABLE" \in x.make => "RECEIVABLE" \notin Existing
  BY DEF BillsOnce
<1> SUFFICES ASSUME NEW i \in DOMAIN entries', NEW j \in DOMAIN entries', Live(i)', Live(j)',
                    entries'[i].type = "RECEIVABLE", entries'[j].type = "RECEIVABLE"
             PROVE  i = j
  BY DEF OneReceivable
<1>8. CASE i \in DOMAIN entries /\ j \in DOMAIN entries
  BY <1>1, <1>5, <1>8 DEF OneReceivable
<1>9. CASE i \notin DOMAIN entries /\ j \notin DOMAIN entries
  BY <1>1, <1>2, <1>3, <1>4, <1>9
<1>10. ASSUME NEW a \in DOMAIN entries, NEW b \in DOMAIN entries', b \notin DOMAIN entries, Live(a)',
              entries'[a].type = "RECEIVABLE", entries'[b].type = "RECEIVABLE"
       PROVE  FALSE
  <2>1. "RECEIVABLE" \in Existing
    BY <1>1, <1>5, <1>6, <1>10
  <2>2. "RECEIVABLE" \in x.make
    BY <1>1, <1>2, <1>10
  <2> QED
    BY <1>7, <2>1, <2>2
<1> QED
  BY <1>8, <1>9, <1>10

(* What follows a transaction that only prepares it fits as before.        *)
LEMMA NextFits ==
  ASSUME NEW op, NEW y, FitsAt(op, y, 2), os'.status = os.status
  PROVE  FitsAt(op, y, 1)'
<1>0. 2 # 1
  OBVIOUS
<1>1. Completes(y, 1)'
  BY <1>0 DEF FitsAt, Completes
<1>2. StaysCancelled(op, y)'
  BY DEF FitsAt, StaysCancelled
<1>3. BillsOnce(y, 1)'
  BY <1>0 DEF FitsAt, BillsOnce
<1>4. Cascades(op, y, 1)'
  BY <1>0 DEF FitsAt, Cascades
<1> QED
  BY <1>1, <1>2, <1>3, <1>4 DEF FitsAt

LEMMA ApplyFits ==
  ASSUME Alone, AloneInv, NEW r \in Request, Busy(r), NEW x, x = Pending(r), x.read = "none", Apply(r, x)
  PROVE  DoneHasCompletion' /\ OneReceivable' /\ Fitting'
<1> DEFINE todo == req[r].todo
<1>1. /\ IsRequest(req[r]) /\ IsSeq(todo) /\ todo # <<>>
      /\ 1 \in DOMAIN todo /\ x = todo[1] /\ IsSeq(Tail(todo))
      /\ \A k \in DOMAIN Tail(todo) : k # 0 /\ k + 1 # 1 /\ k + 1 \in DOMAIN todo /\ Tail(todo)[k] = todo[k + 1]
  BY SeqHeadTail DEF AloneInv, IInv, TypeOK, IsRequest, Busy, Pending
<1>2. IsTx(x) /\ FitsAt(req[r].op, x, 1) /\ Fits(req[r].op, todo)
  BY <1>1 DEF AloneInv, Fitting, Fits, IInv, TypeOK, IsRequest
<1>3. TypeOK /\ os' = Patched(os, x.set)
  BY DEF AloneInv, IInv, Apply
<1>4. DoneHasCompletion'
  BY <1>2, <1>3, DoneAfter DEF AloneInv, FitsAt
<1>5. OneReceivable'
  BY <1>2, <1>3, OneAfter DEF AloneInv, FitsAt
<1>6. \A q \in Request : q = r
  BY DEF Alone
<1>7. req'[r] = IF Tail(todo) = <<>> THEN Idle ELSE [req[r] EXCEPT !.todo = Tail(todo)]
  BY DEF Apply
<1>8. Fits(req[r].op, req[r].todo)'
  <2>1. CASE Tail(todo) = <<>>
    <3>1. req'[r].todo = <<>>
      BY <1>7, <2>1 DEF Idle
    <3> QED
      BY <3>1 DEF Fits
  <2>2. CASE Tail(todo) # <<>>
    <3> PICK op : op = req[r].op
      OBVIOUS
    <3> PICK rest : rest = Tail(todo)
      OBVIOUS
    <3>1. req'[r].op = op /\ req'[r].todo = rest
      BY <1>1, <1>7, <2>2 DEF IsRequest, Idle
    <3>2. \A k \in DOMAIN rest : k + 1 \in {1, 2} /\ k + 1 # 1
      BY <1>1, <1>2 DEF Fits
    <3>3. \A k \in DOMAIN rest : k \in Int
      BY <1>1 DEF IsSeq
    <3>4. DOMAIN rest \subseteq {1}
      BY <3>2, <3>3
    <3>5. 1 \in DOMAIN rest => 2 \in DOMAIN todo /\ rest[1] = todo[2] /\ Prepares(x) /\ FitsAt(op, todo[2], 2)
      BY <1>1, <1>2 DEF Fits
    <3>6. ASSUME 1 \in DOMAIN rest PROVE FitsAt(op, rest[1], 1)'
      <4> PICK y : y = rest[1]
        OBVIOUS
      <4>1. FitsAt(op, y, 2) /\ Prepares(x)
        BY <3>5, <3>6
      <4>2. os'.status = os.status
        BY <1>3, <4>1 DEF Patched, Prepares, TypeOK, IsRowOf, Column
      <4> QED
        BY <4>1, <4>2, NextFits
    <3>7. 2 # 1
      OBVIOUS
    <3>8. Fits(op, rest)'
      BY <3>4, <3>6, <3>7 DEF Fits
    <3> QED
      BY <3>1, <3>8
  <2> QED
    BY <2>1, <2>2
<1>9. Fitting'
  BY <1>6, <1>8 DEF Fitting
<1> QED
  BY <1>4, <1>5, <1>9

LEMMA InitAlone == Init => AloneInv
<1> SUFFICES ASSUME Init PROVE AloneInv
  OBVIOUS
<1>1. IInv
  BY InitIInv
<1>2. os.status = "ABERTA" /\ entries = <<>>
  BY DEF Init
<1>3. \A r \in Request : req[r].todo = <<>>
  BY DEF Init, Idle
<1>4. Fitting
  BY <1>3 DEF Fitting, Fits
<1> QED
  BY <1>1, <1>2, <1>4 DEF AloneInv, DoneHasCompletion, OneReceivable

LEMMA NextAlone ==
  ASSUME Alone
  PROVE  AloneInv /\ [Next]_vars => AloneInv'
<1> SUFFICES ASSUME AloneInv, [Next]_vars PROVE AloneInv'
  OBVIOUS
<1>0. IInv' /\ TypeOK
  BY NextKeeps DEF AloneInv, IInv
<1>1. CASE UNCHANGED <<os, entries, req>>
  <2>1. DoneHasCompletion' /\ OneReceivable'
    BY <1>1 DEF AloneInv, DoneHasCompletion, OneReceivable, Live
  <2>2. ASSUME NEW r \in Request PROVE Fits(req[r].op, req[r].todo)'
    <3> PICK op : op = req[r].op
      OBVIOUS
    <3> PICK todo : todo = req[r].todo
      OBVIOUS
    <3>1. Fits(op, todo)
      BY DEF AloneInv, Fitting
    <3>2. Fits(op, todo)'
      BY <1>1, <3>1, StillFits
    <3>3. req'[r].op = op /\ req'[r].todo = todo
      BY <1>1
    <3> QED
      BY <3>2, <3>3
  <2> QED
    BY <1>0, <2>1, <2>2 DEF AloneInv, Fitting
<1>2. CASE LinkNext
  BY <1>1, <1>2 DEF LinkNext, CreateOffer, ExpireOffer, RequestOtp
<1>3. ASSUME NEW r \in Request, DeskNext(r) \/ PortalNext(r) \/ MoneyNext(r)
      PROVE  AloneInv'
  BY <1>0, <1>3, DeskFits, PortalFits, MoneyFits, FittedKeeps DEF AloneInv
<1>4. ASSUME NEW r \in Request, ReadEntries(r)
      PROVE  AloneInv'
  BY <1>0, <1>4, ReadFits DEF AloneInv
<1>5. ASSUME NEW r \in Request, Commit(r)
      PROVE  AloneInv'
  <2>1. CASE GiveUp(r)
    BY <1>0, <2>1, StopKeeps DEF AloneInv
  <2>2. CASE Busy(r) /\ Pending(r).read = "none" /\ Apply(r, Pending(r))
    BY <1>0, <2>2, ApplyFits DEF AloneInv
  <2> QED
    BY <1>5, <2>1, <2>2 DEF Commit
<1>6. CASE UNCHANGED vars
  BY <1>1, <1>6 DEF vars
<1> QED
  BY <1>2, <1>3, <1>4, <1>5, <1>6 DEF Next

(* When requests come one at a time, an order shown as done has its        *)
(* completion time: only reassign clears it, and starts the order again.   *)
THEOREM DoneOrderHasCompletion ==
  ASSUME Alone
  PROVE  Spec => []DoneHasCompletion
<1>1. AloneInv => DoneHasCompletion
  BY DEF AloneInv
<1> QED
  BY <1>1, InitAlone, NextAlone, PTL DEF Spec

(* When requests come one at a time, the client is billed once, by an      *)
(* early launch or by the settlement: each looks for the other's entry     *)
(* first, and an entry that was cancelled does not come back.              *)
THEOREM ClientBilledOnce ==
  ASSUME Alone
  PROVE  Spec => []OneReceivable
<1>1. AloneInv => OneReceivable
  BY DEF AloneInv
<1> QED
  BY <1>1, InitAlone, NextAlone, PTL DEF Spec

(* When requests come one at a time, only the approval, a link still       *)
(* active and the confirmation of technicians bring a cancelled order      *)
(* back: they do not look at its status.                                   *)
THEOREM FewReviveCancelled ==
  ASSUME Alone
  PROVE  Spec => CancelledLeftOnlyBy
<1> DEFINE Left == (os.status = "CANCELADA" /\ os'.status # "CANCELADA") =>
                     \E r \in Request : req[r].op \in {"approveAndFinalize", "acceptDirect",
                                                       "dispatchNotifications"}
<1>1. AloneInv /\ [Next]_vars => Left
  <2> SUFFICES ASSUME AloneInv, [Next]_vars, os.status = "CANCELADA", os'.status # "CANCELADA"
               PROVE  \E r \in Request : req[r].op \in Revives
    BY DEF Revives
  <2>1. PICK r \in Request : /\ IsTx(Pending(r)) /\ Pending(r) = req[r].todo[1]
                             /\ 1 \in DOMAIN req[r].todo /\ Apply(r, Pending(r))
    BY OnlyCommits DEF AloneInv, IInv
  <2>2. StaysCancelled(req[r].op, Pending(r))
    BY <2>1 DEF AloneInv, Fitting, Fits, FitsAt
  <2>3. os'.status = IF "status" \in DOMAIN Pending(r).set THEN Pending(r).set["status"] ELSE os.status
    BY <2>1 DEF Apply, Patched, AloneInv, IInv, TypeOK, IsRowOf, Column
  <2> QED
    BY <2>2, <2>3 DEF StaysCancelled
<1> QED
  BY <1>1, InitAlone, NextAlone, PTL DEF Spec, CancelledLeftOnlyBy

(* When requests come one at a time, cancelling an order leaves no entry   *)
(* of it open: cancel reads the open ones and cancels them by id in a      *)
(* transaction that nothing can refuse.                                    *)
THEOREM CancellationCascades ==
  ASSUME Alone
  PROVE  Spec => CancelCascades
<1> DEFINE Closes == \A r \in Request :
                       (req[r].op = "cancel" /\ req'[r] = Idle) =>
                         \A i \in DOMAIN entries' : entries'[i].status \in {"PENDING", "CONFIRMED"}
                                                       => entries'[i].deletedAt # "null"
<1>1. AloneInv /\ [Next]_vars => Closes
  <2> SUFFICES ASSUME AloneInv, [Next]_vars, NEW r \in Request, req[r].op = "cancel", req'[r] = Idle,
                      NEW i \in DOMAIN entries', entries'[i].status \in {"PENDING", "CONFIRMED"}
               PROVE  entries'[i].deletedAt # "null"
    OBVIOUS
  <2>0. TypeOK /\ Idle.op = "idle" /\ \A q \in Request : q = r
    BY DEF AloneInv, IInv, Idle, Alone
  <2>1. CASE UNCHANGED req
    BY <2>0, <2>1
  <2>2. CASE LinkNext
    BY <2>1, <2>2 DEF LinkNext, CreateOffer, ExpireOffer, RequestOtp
  <2>3. ASSUME NEW q \in Request, DeskNext(q) \/ PortalNext(q) \/ MoneyNext(q)
        PROVE  FALSE
    <3>1. PICK op \in Handlers : \E todo : Begin(q, op, todo)
      BY <2>0, <2>3, DeskFits, PortalFits, MoneyFits DEF Fitted
    <3>2. PICK todo : req' = [req EXCEPT ![q] = [op |-> op, todo |-> todo, stale |-> {}]]
      BY <3>1 DEF Begin
    <3>3. req'[r].op = op
      BY <2>0, <3>2 DEF TypeOK
    <3>4. op # "idle"
      BY HandlersAssumption DEF AllHandlers, DeskHandlers, PortalHandlers, MoneyHandlers
    <3> QED
      BY <2>0, <3>3, <3>4
  <2>4. ASSUME Busy(r)
        PROVE  /\ IsTx(Pending(r)) /\ Cascades("cancel", Pending(r), 1)
    <3>1. 1 \in DOMAIN req[r].todo /\ Pending(r) = req[r].todo[1]
      BY <2>0, <2>4, SeqHeadTail DEF TypeOK, IsRequest, Busy, Pending
    <3> QED
      BY <2>0, <3>1 DEF TypeOK, IsRequest, AloneInv, Fitting, Fits, FitsAt
  <2>5. ASSUME NEW q \in Request, ReadEntries(q)
        PROVE  FALSE
    <3>1. q = r /\ Busy(r) /\ ReadEntries(r)
      BY <2>0, <2>5 DEF ReadEntries
    <3>2. Pending(r).read \in {"open", "none"}
      BY <2>4, <3>1 DEF Cascades
    <3>3. \E y : req' = [req EXCEPT ![r].todo = <<y>> \o Tail(@)]
      BY <3>1, <3>2 DEF ReadEntries
    <3>4. req'[r].op = req[r].op
      BY <2>0, <3>3 DEF TypeOK, IsRequest, Idle
    <3> QED
      BY <2>0, <3>4
  <2>6. ASSUME NEW q \in Request, Commit(q)
        PROVE  entries'[i].deletedAt # "null"
    <3> PICK x : x = Pending(r)
      OBVIOUS
    <3>1. Busy(r) /\ x.read = "none" /\ (Fails(r, x) \/ Apply(r, x))
      BY <2>0, <2>6 DEF Commit
    <3>2. IsTx(x) /\ Cascades("cancel", x, 1)
      BY <2>4, <3>1
    <3>3. /\ ~x.ledger /\ ~x.serial /\ x.make = {}
          /\ x.touch = [j \in Open |-> [status |-> "CANCELLED"]]
      BY <3>1, <3>2 DEF Cascades
    <3>4. Apply(r, x)
      BY <3>1, <3>3 DEF Fails
    <3>5. /\ i \in DOMAIN entries
          /\ entries'[i] = IF i \in DOMAIN x.touch THEN Patched(entries[i], x.touch[i]) ELSE entries[i]
      <4>1. DOMAIN Created(x) = {}
        BY <3>2, <3>3, CreatedRows
      <4> QED
        BY <2>0, <3>2, <3>4, <4>1, EntriesAfter
    <3>6. CASE i \in Open
      <4>1. x.touch[i] = [status |-> "CANCELLED"] /\ "status" \in DOMAIN entries[i]
        BY <2>0, <3>3, <3>5, <3>6 DEF TypeOK, IsRowOf, EntryColumn
      <4>2. entries'[i].status = "CANCELLED"
        BY <3>3, <3>5, <3>6, <4>1 DEF Patched
      <4> QED
        BY <4>2
    <3>7. CASE i \notin Open
      BY <3>3, <3>5, <3>7 DEF Open
    <3> QED
      BY <3>6, <3>7
  <2>7. CASE UNCHANGED vars
    BY <2>1, <2>7 DEF vars
  <2> QED
    BY <2>2, <2>3, <2>5, <2>6, <2>7 DEF Next
<1> QED
  BY <1>1, InitAlone, NextAlone, PTL DEF Spec, CancelCascades
=============================================================================
