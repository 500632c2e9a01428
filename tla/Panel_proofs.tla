----------------------------- MODULE Panel_proofs -----------------------------
(***************************************************************************)
(* Proofs about Panel, for any owners, events and policies, and any number *)
(* of instants and of deliveries that are cut short.                       *)
(*                                                                         *)
(* Of a projection, either the bus or the outbox always knows (Told): it   *)
(* enters the outbox with the change that it announces, leaves it only for *)
(* the bus, and the bus forgets nothing.  So what is stored stays          *)
(* announced, and what is known to be consumed can be told from what is    *)
(* not, even when the rollover has removed the value (GoneInv): its event  *)
(* is then of a day that its owner has left.                               *)
(***************************************************************************)
EXTENDS Panel, TLAPS

\* A projection of that kind and source event is on the bus or waits for it.
Told(kind, e) ==
  \E q \in BagToSet(bus) \cup outbox : q.kind = kind /\ q.event = e

\* Nothing is stored, or owed, before the file is of version 2.
FreshInv ==
  schema # "v2" =>
    /\ \A k \in Keys : fields[k] = None
    /\ \A o \in Owners : ownerEpoch[o] = NoTime
    /\ outbox = {} /\ BagToSet(bus) = {} /\ busy = None

\* The bus holds one copy of each projection.
BusInv ==
  \A p \in BagToSet(bus) :
    /\ bus[p] = 1
    /\ \A q \in BagToSet(bus) : SameId(p, q) => p = q

\* What is stored has been announced, and so has its consumption.
ToldInv ==
  \A k \in Keys : fields[k] # None /\ fields[k].event \notin Legacy =>
    /\ Told("updated", fields[k].event)
    /\ fields[k].consumed => Told("consumed", fields[k].event)

\* A source that stamps its event is what dates the value.
SeenInv ==
  \A k \in Keys :
    fields[k] # None /\ fields[k].event \notin Legacy \cup Restamped =>
      fields[k].at = seenAt[fields[k].event]

\* The inductive invariant of everything but the consumed values.
IInv == TypeOK /\ FreshInv /\ BusInv /\ ToldInv /\ SeenInv

\* What was consumed is still there as such, or was of a day that is over.
GoneInv ==
  \A e \in Events : Told("consumed", e) =>
    /\ e \in OnceEvents
    /\ \/ /\ fields[Field[e]] # None /\ fields[Field[e]].event = e
          /\ fields[Field[e]].consumed
       \/ /\ e \in DailyEvents /\ seenAt[e] # NoTime
          /\ EpochId(seenAt[e]) < ownerEpoch[Field[e][1]]

\* A source whose daily, consume-once events are stamped by the clock at every
\* call may offer a consumed one again on a later day.
Stamped == OnceEvents \cap DailyEvents \cap Restamped = {}

-----------------------------------------------------------------------------
(* The operators. *)

LEMMA EpochParts ==
  /\ \A t \in Nat : EpochId(t) \in Nat
  /\ EpochId(0) = 0
BY NumbersAssumption DEF EpochId

LEMMA FieldParts ==
  ASSUME NEW e \in Events
  PROVE  Field[e] \in Keys /\ Field[e][1] \in Owners
BY FieldAssumption DEF Keys

LEMMA InstantParts ==
  /\ Instants \subseteq Nat /\ 0 \in Instants /\ 0..MaxTime \subseteq Instants
  /\ \A t \in Instants : EpochId(t) \in Nat
BY EpochParts, NumbersAssumption DEF Instants

LEMMA ValueParts ==
  ASSUME NEW r \in Values
  PROVE  /\ r # None /\ r.event \in Events /\ r.at \in Instants
         /\ r.consumed \in BOOLEAN
BY NoneAssumption DEF Values

LEMMA ProjectionParts ==
  ASSUME NEW r \in Values
  PROVE  /\ Updated(r) \in Projections /\ Consumed(r) \in Projections
         /\ Updated(r).kind = "updated" /\ Updated(r).event = r.event
         /\ Consumed(r).kind = "consumed" /\ Consumed(r).event = r.event
BY ValueParts DEF Updated, Consumed, Projections, Expires

LEMMA StoredParts ==
  ASSUME TypeOK, NEW k \in Keys, fields[k] # None
  PROVE  /\ fields[k] \in Values /\ fields[k].event \in Events
         /\ fields[k].at \in Instants /\ fields[k].consumed \in BOOLEAN
         /\ Field[fields[k].event] = k
         /\ fields[k].consumed => IsOnce(fields[k])
         /\ k[1] \in Owners
BY ValueParts, FieldParts DEF TypeOK

LEMMA BusParts ==
  /\ \A b : BagToSet(b) = DOMAIN b
  /\ BagToSet(EmptyBag) = {} /\ IsABag(EmptyBag)
BY DEF BagToSet, EmptyBag, SetToBag, IsABag

\* A projection that the bus has not is added once.
LEMMA BusAdds ==
  ASSUME IsABag(bus), NEW p, p \notin BagToSet(bus),
         bus' = bus (+) SetToBag({p})
  PROVE  /\ IsABag(bus') /\ BagToSet(bus') = BagToSet(bus) \cup {p}
         /\ bus'[p] = 1
         /\ \A q \in BagToSet(bus) : bus'[q] = bus[q]
<1>1. bus \in [DOMAIN bus -> {n \in Nat : n > 0}] /\ p \notin DOMAIN bus
  BY DEF IsABag, BagToSet
<1>2. SetToBag({p}) = [q \in {p} |-> 1]
  BY DEF SetToBag
<1>3. bus' = [q \in DOMAIN bus \cup {p} |-> IF q = p THEN 1 ELSE bus[q]]
  BY <1>1, <1>2 DEF (+)
<1>4. DOMAIN bus' = DOMAIN bus \cup {p}
  BY <1>3
<1>5. bus'[p] = 1 /\ \A q \in DOMAIN bus : bus'[q] = bus[q]
  BY <1>1, <1>3
<1>6. bus' \in [DOMAIN bus' -> {n \in Nat : n > 0}]
  BY <1>1, <1>3, <1>4
<1> QED
  BY <1>4, <1>5, <1>6 DEF IsABag, BagToSet

-----------------------------------------------------------------------------
(* What the invariant implies. *)

LEMMA ImpliesProperties ==
  ASSUME IInv
  PROVE  ProjectedOnce /\ UpdatesAreOwed
<1>1. ProjectedOnce
  BY DEF IInv, BusInv, ProjectedOnce
<1>2. UpdatesAreOwed
  <2> SUFFICES ASSUME NEW k \in Keys, fields[k] # None,
                      fields[k].event \notin Legacy
               PROVE  LET r == fields[k]
                      IN /\ OnBus(Updated(r)) \/ Pending(Updated(r)) # {}
                         /\ r.consumed =>
                              OnBus(Consumed(r)) \/ Pending(Consumed(r)) # {}
    BY DEF UpdatesAreOwed
  <2> DEFINE r == fields[k]
  <2>1. r \in Values
    BY StoredParts DEF IInv
  <2>2. Told("updated", r.event) /\ (r.consumed => Told("consumed", r.event))
    BY DEF IInv, ToldInv
  <2> QED
    BY <2>1, <2>2, ProjectionParts DEF Told, OnBus, Pending, SameId
<1> QED
  BY <1>1, <1>2

LEMMA InitIInv == Init => IInv
<1> SUFFICES ASSUME Init PROVE IInv
  OBVIOUS
<1>1. TypeOK
  <2>1. \A t \in Instants : t \in Nat
    BY InstantParts
  <2>2. 0 \in {EpochId(t) : t \in Instants}
    BY EpochParts, InstantParts
  <2>3. 0 \in 0..MaxTime /\ 0 \in 0..MaxFailures
    BY NumbersAssumption
  <2> QED
    BY <2>1, <2>2, <2>3, BusParts DEF Init, TypeOK
<1>2. FreshInv /\ BusInv /\ ToldInv /\ SeenInv
  BY BusParts DEF Init, FreshInv, BusInv, ToldInv, SeenInv
<1> QED
  BY <1>1, <1>2 DEF IInv

LEMMA InitGoneInv == Init => GoneInv
BY BusParts DEF Init, GoneInv, Told

-----------------------------------------------------------------------------
(* The steps of a delivery. *)

\* Only where a projection waits changes.
LEMMA DeliverySteps ==
  ASSUME IInv, Emit \/ Compact \/ Conflict \/ DeliveryFails
  PROVE  /\ IInv'
         /\ \A kind, e : Told(kind, e)' <=> Told(kind, e)
         /\ UNCHANGED <<clock, schema, epoch, ownerEpoch, fields, seenAt>>
<1>1. /\ busy # None /\ schema = "v2" /\ busy \in outbox
      /\ outbox \subseteq Projections /\ IsABag(bus)
      /\ BagToSet(bus) \subseteq Projections
      /\ \A p, q \in outbox : SameId(p, q) => p = q
  BY DEF Emit, Compact, Conflict, DeliveryFails, IInv, FreshInv, TypeOK
<1>2. UNCHANGED <<clock, schema, backup, epoch, ownerEpoch, fields, seenAt>>
  BY DEF Emit, Compact, Conflict, DeliveryFails, file
<1>3. /\ outbox' \subseteq outbox /\ busy' \in outbox' \cup {None}
      /\ BagToSet(bus) \subseteq BagToSet(bus')
      /\ BagToSet(bus') \cup outbox' = BagToSet(bus) \cup outbox
      /\ IsABag(bus') /\ failures' \in 0..MaxFailures
      /\ BusInv'
  <2>1. CASE Emit
    <3>1. /\ busy \notin BagToSet(bus) /\ ~ OnBus(busy)
          /\ bus' = bus (+) SetToBag({busy})
          /\ UNCHANGED <<outbox, busy, failures>>
      BY <2>1 DEF Emit, OnBus, SameId, file
    <3>2. /\ IsABag(bus') /\ BagToSet(bus') = BagToSet(bus) \cup {busy}
          /\ bus'[busy] = 1
          /\ \A q \in BagToSet(bus) : bus'[q] = bus[q]
      BY <1>1, <3>1, BusAdds
    <3>3. BusInv'
      BY <3>1, <3>2 DEF IInv, BusInv, OnBus, SameId
    <3> QED
      BY <1>1, <3>1, <3>2, <3>3 DEF IInv, TypeOK
  <2>2. CASE Compact
    BY <1>1, <2>2 DEF Compact, BagIn, IInv, BusInv, TypeOK
  <2>3. CASE Conflict
    BY <1>1, <2>3 DEF Conflict, file, IInv, BusInv, TypeOK
  <2>4. CASE DeliveryFails
    BY <1>1, <2>4, NumbersAssumption
    DEF DeliveryFails, file, IInv, BusInv, TypeOK
  <2> QED
    BY <2>1, <2>2, <2>3, <2>4
<1>4. \A kind, e : Told(kind, e)' <=> Told(kind, e)
  BY <1>3 DEF Told
<1>5. TypeOK'
  <2>1. BagToSet(bus') \subseteq Projections /\ outbox' \subseteq Projections
    BY <1>1, <1>3
  <2>2. \A p, q \in outbox' : SameId(p, q) => p = q
    BY <1>1, <1>3
  <2> QED
    BY <1>2, <1>3, <2>1, <2>2 DEF IInv, TypeOK, IsOnce
<1>6. FreshInv' /\ SeenInv'
  BY <1>1, <1>2 DEF IInv, FreshInv, SeenInv
<1>7. ToldInv'
  BY <1>2, <1>4 DEF IInv, ToldInv
<1> QED
  BY <1>2, <1>3, <1>4, <1>5, <1>6, <1>7 DEF IInv

-----------------------------------------------------------------------------
(* The steps that touch neither the fields nor the projections. *)

LEMMA QuietSteps ==
  ASSUME IInv, Tick \/ BackUp \/ \E e \in Events : Observe(e)
  PROVE  /\ IInv'
         /\ UNCHANGED <<schema, epoch, ownerEpoch, fields, outbox, bus, busy>>
         /\ \A e \in Events : seenAt[e] # NoTime => seenAt'[e] = seenAt[e]
<1>1. UNCHANGED <<schema, epoch, ownerEpoch, fields, outbox, bus, busy, failures>>
  BY DEF Tick, BackUp, Observe, file
<1>2. /\ clock' \in 0..MaxTime /\ backup' \in BOOLEAN
      /\ seenAt' \in [Events -> Instants \cup {NoTime}]
      /\ \A e \in Events : seenAt[e] # NoTime => seenAt'[e] = seenAt[e]
  <2>1. CASE Tick
    BY <2>1, NumbersAssumption DEF Tick, file, IInv, TypeOK
  <2>2. CASE BackUp
    BY <2>2 DEF BackUp, IInv, TypeOK
  <2>3. ASSUME NEW e \in Events, Observe(e)
        PROVE  /\ clock' \in 0..MaxTime /\ backup' \in BOOLEAN
               /\ seenAt' \in [Events -> Instants \cup {NoTime}]
               /\ \A f \in Events : seenAt[f] # NoTime => seenAt'[f] = seenAt[f]
    <3>1. PICK t \in clock..(clock + Skew) : seenAt' = [seenAt EXCEPT ![e] = t]
      BY <2>3 DEF Observe
    <3>2. t \in Instants
      BY NumbersAssumption DEF IInv, TypeOK, Instants
    <3> QED
      BY <2>3, <3>1, <3>2 DEF Observe, file, IInv, TypeOK
  <2> QED
    BY <2>1, <2>2, <2>3
<1>3. TypeOK'
  BY <1>1, <1>2 DEF IInv, TypeOK, IsOnce
<1>4. FreshInv' /\ BusInv' /\ ToldInv'
  BY <1>1 DEF IInv, FreshInv, BusInv, ToldInv, Told
<1>5. SeenInv'
  <2> SUFFICES ASSUME NEW k \in Keys, fields[k] # None,
                      fields[k].event \notin Legacy \cup Restamped
               PROVE  fields[k].at = seenAt'[fields[k].event]
    BY <1>1 DEF SeenInv
  <2>1. /\ fields[k].event \in Events /\ fields[k].at \in Nat
        /\ fields[k].at = seenAt[fields[k].event]
    BY StoredParts, InstantParts DEF IInv, SeenInv
  <2> QED
    BY <1>2, <2>1 DEF NoTime
<1> QED
  BY <1>1, <1>2, <1>3, <1>4, <1>5 DEF IInv

-----------------------------------------------------------------------------
(* The steps that write a field and its projection. *)

\* The projection is announced, and nothing else changes in what is.
LEMMA Announces ==
  ASSUME IInv, NEW p \in Projections, WriteWith(p) \/ Reproject(p),
         UNCHANGED bus
  PROVE  /\ outbox' \subseteq Projections /\ busy' \in outbox' \cup {None}
         /\ \A q, r \in outbox' : SameId(q, r) => q = r
         /\ \A kind, e :
              Told(kind, e)' <=> Told(kind, e) \/ (kind = p.kind /\ e = p.event)
<1>1. /\ outbox \subseteq Projections
      /\ \A q, r \in outbox : SameId(q, r) => q = r
  BY DEF IInv, TypeOK
<1>2. CASE WriteWith(p)
  <2>1. outbox' = (outbox \ Pending(p)) \cup {p} /\ busy' = p
    BY <1>2 DEF WriteWith
  <2>2. \A q \in outbox \ Pending(p) : ~ SameId(p, q) /\ ~ SameId(q, p)
    BY DEF Pending, SameId
  <2>3. ASSUME NEW kind, NEW e
        PROVE  Told(kind, e)' <=> Told(kind, e) \/ (kind = p.kind /\ e = p.event)
    BY <2>1 DEF Told, Pending, SameId
  <2> QED
    BY <1>1, <2>1, <2>2, <2>3
<1>3. CASE Pending(p) # {} /\ busy' \in Pending(p) /\ UNCHANGED outbox
  <2>1. Told(p.kind, p.event) /\ busy' \in outbox
    BY <1>3 DEF Told, Pending, SameId
  <2>2. \A kind, e : Told(kind, e)' <=> Told(kind, e)
    BY <1>3 DEF Told
  <2> QED
    BY <1>1, <1>3, <2>1, <2>2
<1> QED
  BY <1>2, <1>3 DEF Reproject

LEMMA SetFieldStep ==
  ASSUME IInv, NEW e \in Events, SetField(e)
  PROVE  /\ IInv' /\ UNCHANGED <<clock, seenAt>>
         /\ schema = "v2" => epoch' = epoch
         /\ \A f : Told("consumed", f)' <=> Told("consumed", f)
         /\ \/ UNCHANGED <<epoch, ownerEpoch, fields>>
            \/ /\ Replaceable(Field[e], ObservedAt(e))
               /\ EpochId(ObservedAt(e)) >= StoredEpoch(Field[e])
               /\ fields' = [fields EXCEPT ![Field[e]] =
                               PanelValue(e, ObservedAt(e))]
               /\ ownerEpoch' = [ownerEpoch EXCEPT ![Field[e][1]] =
                                   EpochId(ObservedAt(e))]
<1> DEFINE k == Field[e]
           t == ObservedAt(e)
           new == PanelValue(e, t)
<1>1. /\ k \in Keys /\ k[1] \in Owners /\ busy = None /\ seenAt[e] # NoTime
      /\ UNCHANGED <<clock, backup, bus, seenAt, failures>>
  BY FieldParts DEF SetField, Unlocked
<1>2. t \in Instants /\ EpochId(t) \in Nat
  <2>1. clock \in Instants /\ seenAt[e] \in Instants
    BY <1>1, InstantParts DEF IInv, TypeOK
  <2> QED
    BY <2>1, InstantParts DEF ObservedAt
<1>3. CASE /\ fields[k] # None /\ fields[k].event = e
           /\ Reproject(Updated(fields[k]))
           /\ UNCHANGED <<schema, epoch, ownerEpoch, fields>>
  <2>1. /\ Updated(fields[k]) \in Projections
        /\ Updated(fields[k]).kind = "updated"
    BY <1>1, <1>3, StoredParts, ProjectionParts DEF IInv
  <2>2. /\ outbox' \subseteq Projections /\ busy' \in outbox' \cup {None}
        /\ \A q, r \in outbox' : SameId(q, r) => q = r
    BY <1>1, <1>3, <2>1, Announces
  <2>3. ASSUME NEW kind, NEW f
        PROVE  /\ Told(kind, f) => Told(kind, f)'
               /\ kind = "consumed" /\ Told(kind, f)' => Told(kind, f)
    BY <1>1, <1>3, <2>1, Announces
  <2>4. schema = "v2"
    BY <1>1, <1>3 DEF IInv, FreshInv
  <2>5. TypeOK'
    BY <1>1, <1>3, <2>2 DEF IInv, TypeOK, IsOnce
  <2>6. FreshInv' /\ BusInv' /\ SeenInv'
    BY <1>1, <1>3, <2>4 DEF IInv, FreshInv, BusInv, SeenInv
  <2>7. ToldInv'
    BY <1>3, <2>3 DEF IInv, ToldInv
  <2> QED
    BY <1>1, <1>3, <2>3, <2>5, <2>6, <2>7 DEF IInv
<1>4. CASE /\ Replaceable(k, t) /\ EpochId(t) >= StoredEpoch(k)
           /\ WriteFile(EpochId(t))
           /\ fields' = [fields EXCEPT ![k] = new]
           /\ ownerEpoch' = [ownerEpoch EXCEPT ![k[1]] = EpochId(t)]
           /\ WriteWith(Updated(new))
  <2>1. /\ new \in Values /\ new # None /\ new.event = e /\ new.at = t
        /\ new.consumed = FALSE
    <3>1. new \in Values
      BY <1>2 DEF PanelValue, Values
    <3> QED
      BY <3>1, ValueParts DEF PanelValue
  <2> HIDE DEF new
  <2>2. /\ Updated(new) \in Projections /\ Updated(new).kind = "updated"
        /\ Updated(new).event = e
    BY <2>1, ProjectionParts
  <2>3. /\ outbox' \subseteq Projections /\ busy' \in outbox' \cup {None}
        /\ \A q, r \in outbox' : SameId(q, r) => q = r
    BY <1>1, <1>4, <2>2, Announces
  <2>4. ASSUME NEW kind, NEW f
        PROVE  Told(kind, f)' <=> Told(kind, f) \/ (kind = "updated" /\ f = e)
    BY <1>1, <1>4, <2>2, Announces
  <2>5. /\ fields' \in [Keys -> Values \cup {None}] /\ fields'[k] = new
        /\ \A j \in Keys \ {k} : fields'[j] = fields[j]
    BY <1>1, <1>4, <2>1 DEF IInv, TypeOK
  <2>6. schema' = "v2" /\ (schema = "v2" => epoch' = epoch)
    BY <1>4 DEF WriteFile
  <2>7. TypeOK'
    <3>1. /\ epoch' \in {EpochId(x) : x \in Instants}
          /\ ownerEpoch' \in [Owners -> {EpochId(x) : x \in Instants} \cup {NoTime}]
      BY <1>1, <1>2, <1>4 DEF WriteFile, IInv, TypeOK
    <3>2. \A j \in Keys : fields'[j] # None =>
            /\ Field[fields'[j].event] = j
            /\ fields'[j].consumed => IsOnce(fields'[j])
      BY <2>1, <2>5 DEF IInv, TypeOK
    <3>3. /\ clock' \in 0..MaxTime /\ backup' \in BOOLEAN
          /\ IsABag(bus') /\ BagToSet(bus') \subseteq Projections
          /\ seenAt' \in [Events -> Instants \cup {NoTime}]
          /\ failures' \in 0..MaxFailures
          /\ schema' \in {"absent", "v1", "v2"}
      BY <1>1, <2>6 DEF IInv, TypeOK
    <3> QED
      BY <2>3, <2>5, <3>1, <3>2, <3>3 DEF TypeOK, IsOnce
  <2>8. FreshInv' /\ BusInv'
    BY <1>1, <2>6 DEF IInv, FreshInv, BusInv
  <2>9. ToldInv'
    BY <2>1, <2>4, <2>5 DEF IInv, ToldInv
  <2>10. SeenInv'
    BY <1>1, <2>1, <2>5 DEF IInv, SeenInv, ObservedAt
  <2> QED
    BY <1>1, <1>4, <2>4, <2>6, <2>7, <2>8, <2>9, <2>10 DEF IInv, new
<1>5. \/ /\ fields[k] # None /\ fields[k].event = e
         /\ Reproject(Updated(fields[k]))
         /\ UNCHANGED <<schema, epoch, ownerEpoch, fields>>
      \/ /\ Replaceable(k, new.at) /\ EpochId(new.at) >= StoredEpoch(k)
         /\ WriteFile(EpochId(new.at))
         /\ fields' = [fields EXCEPT ![k] = new]
         /\ ownerEpoch' = [ownerEpoch EXCEPT ![k[1]] = EpochId(new.at)]
         /\ WriteWith(Updated(new))
  BY DEF SetField
<1>6. new.at = t
  BY DEF PanelValue
<1> HIDE DEF new, k, t
<1> QED
  BY <1>3, <1>4, <1>5, <1>6

LEMMA ConsumeStep ==
  ASSUME IInv, NEW k \in Keys, Consume(k)
  PROVE  /\ IInv' /\ UNCHANGED <<clock, epoch, ownerEpoch, seenAt>>
         /\ fields[k] # None /\ IsOnce(fields[k])
         /\ fields'[k] = [fields[k] EXCEPT !.consumed = TRUE]
         /\ \A j \in Keys \ {k} : fields'[j] = fields[j]
         /\ \A f : Told("consumed", f)' <=>
                     Told("consumed", f) \/ f = fields[k].event
<1> DEFINE r == fields[k]
           s == [r EXCEPT !.consumed = TRUE]
<1>1. /\ r # None /\ IsOnce(r) /\ r \in Values /\ r.event \in Events
      /\ Field[r.event] = k /\ r.consumed \in BOOLEAN
      /\ UNCHANGED <<clock, schema, backup, epoch, ownerEpoch, bus, seenAt,
                     failures>>
      /\ WriteWith(Consumed(r)) \/ Reproject(Consumed(r))
  BY StoredParts DEF Consume, IInv
<1>2. /\ s \in Values /\ s # None /\ s.event = r.event /\ s.at = r.at
      /\ s.consumed = TRUE
  <2>1. /\ s \in Values /\ s.event = r.event /\ s.at = r.at
        /\ s.consumed = TRUE
    BY <1>1 DEF Values
  <2> QED
    BY <2>1, ValueParts
<1>3. /\ Consumed(r) \in Projections /\ Consumed(r).kind = "consumed"
      /\ Consumed(r).event = r.event
  BY <1>1, ProjectionParts
<1>4. /\ outbox' \subseteq Projections /\ busy' \in outbox' \cup {None}
      /\ \A p, q \in outbox' : SameId(p, q) => p = q
  BY <1>1, <1>3, Announces
<1>5. ASSUME NEW kind, NEW f
      PROVE  Told(kind, f)' <=>
               Told(kind, f) \/ (kind = "consumed" /\ f = r.event)
  BY <1>1, <1>3, Announces
<1>6. /\ fields'[k] = s /\ \A j \in Keys \ {k} : fields'[j] = fields[j]
      /\ fields' \in [Keys -> Values \cup {None}]
  <2>1. CASE r.consumed /\ UNCHANGED fields
    <3>1. s = r
      BY <1>1, <2>1 DEF Values
    <3> QED
      BY <2>1, <3>1 DEF IInv, TypeOK
  <2>2. CASE fields' = [fields EXCEPT ![k].consumed = TRUE]
    <3>1. fields' = [fields EXCEPT ![k] = s]
      BY <2>2
    <3> QED
      BY <1>2, <3>1 DEF IInv, TypeOK
  <2> QED
    BY <2>1, <2>2 DEF Consume
<1> HIDE DEF s
<1>7. schema = "v2"
  BY <1>1 DEF IInv, FreshInv
<1>8. TypeOK'
  <2>1. \A j \in Keys : fields'[j] # None =>
          /\ Field[fields'[j].event] = j
          /\ fields'[j].consumed => IsOnce(fields'[j])
    BY <1>1, <1>2, <1>6 DEF IInv, TypeOK, IsOnce
  <2> QED
    BY <1>1, <1>4, <1>6, <2>1 DEF IInv, TypeOK, IsOnce
<1>9. FreshInv' /\ BusInv'
  BY <1>1, <1>7 DEF IInv, FreshInv, BusInv
<1>10. ToldInv'
  BY <1>1, <1>2, <1>5, <1>6 DEF IInv, ToldInv
<1>11. SeenInv'
  BY <1>1, <1>2, <1>6 DEF IInv, SeenInv
<1> QED
  BY <1>1, <1>5, <1>6, <1>8, <1>9, <1>10, <1>11 DEF IInv, s

-----------------------------------------------------------------------------
(* The steps that take values away or convert them. *)

LEMMA RolloverStep ==
  ASSUME IInv, NEW o \in Owners, Rollover(o)
  PROVE  /\ IInv' /\ UNCHANGED <<clock, seenAt, outbox, bus>>
         /\ ownerEpoch[o] <= EpochId(clock) /\ EpochId(clock) \in Nat
         /\ schema = "v2" => EpochId(clock) >= epoch
         /\ epoch' = EpochId(clock) /\ schema # "v1" /\ schema' = "v2"
         /\ ownerEpoch' = [ownerEpoch EXCEPT ![o] = EpochId(clock)]
         /\ \A k \in Keys :
              \/ fields'[k] = fields[k]
              \/ /\ k[1] = o /\ fields[k] # None /\ fields'[k] = None
                 /\ IsDaily(fields[k])
                 /\ EpochId(fields[k].at) < EpochId(clock)
<1> DEFINE today == EpochId(clock)
<1>1. /\ busy = None /\ schema # "v1" /\ schema' = "v2" /\ epoch' = today
      /\ schema = "v2" => today >= epoch
      /\ ownerEpoch[o] <= today
      /\ ownerEpoch' = [ownerEpoch EXCEPT ![o] = today]
      /\ fields' = [k \in Keys |-> IF k \in Stale(KeysOf(o), today)
                                     THEN None ELSE fields[k]]
      /\ UNCHANGED <<clock, backup, outbox, bus, seenAt, busy, failures>>
  BY DEF Rollover, Unlocked
<1>2. clock \in Instants /\ today \in Nat
  BY InstantParts DEF IInv, TypeOK
<1>3. \A k \in Keys :
        \/ fields'[k] = fields[k]
        \/ /\ k[1] = o /\ fields[k] # None /\ fields'[k] = None
           /\ IsDaily(fields[k])
           /\ EpochId(fields[k].at) < today
  BY <1>1 DEF Stale, KeysOf
<1>4. fields' \in [Keys -> Values \cup {None}]
  BY <1>1, <1>3 DEF IInv, TypeOK
<1>5. TypeOK'
  <2>1. /\ epoch' \in {EpochId(t) : t \in Instants}
        /\ ownerEpoch' \in [Owners -> {EpochId(t) : t \in Instants} \cup {NoTime}]
    BY <1>1, <1>2 DEF IInv, TypeOK
  <2>2. \A k \in Keys : fields'[k] # None =>
          /\ Field[fields'[k].event] = k
          /\ fields'[k].consumed => IsOnce(fields'[k])
    BY <1>3 DEF IInv, TypeOK
  <2> QED
    BY <1>1, <1>4, <2>1, <2>2 DEF IInv, TypeOK, IsOnce
<1>6. FreshInv' /\ BusInv'
  BY <1>1 DEF IInv, FreshInv, BusInv
<1>7. ToldInv' /\ SeenInv'
  BY <1>1, <1>3 DEF IInv, ToldInv, Told, SeenInv
<1> QED
  BY <1>1, <1>2, <1>3, <1>5, <1>6, <1>7 DEF IInv

LEMMA MigrateStep ==
  ASSUME IInv, Migrate
  PROVE  /\ IInv' /\ UNCHANGED <<clock, seenAt, outbox, bus>>
         /\ schema # "v2" /\ BagToSet(bus) \cup outbox = {}
         /\ \A o \in Owners : ownerEpoch[o] = NoTime /\ ownerEpoch'[o] >= NoTime
         /\ \A k \in Keys : fields[k] = None
<1>1. /\ schema # "v2" /\ schema' = "v2" /\ busy = None
      /\ UNCHANGED <<clock, backup, outbox, bus, seenAt, busy, failures>>
  BY DEF Migrate
<1>2. /\ \A k \in Keys : fields[k] = None
      /\ \A o \in Owners : ownerEpoch[o] = NoTime
      /\ outbox = {} /\ BagToSet(bus) = {}
  BY <1>1 DEF IInv, FreshInv
<1>3. epoch' \in {EpochId(t) : t \in Instants}
  <2>1. clock \in Instants
    BY InstantParts DEF IInv, TypeOK
  <2> QED
    BY <2>1 DEF Migrate, IInv, TypeOK
<1>4. /\ ownerEpoch' \in [Owners -> {EpochId(t) : t \in Instants} \cup {NoTime}]
      /\ fields' \in [Keys -> Values \cup {None}]
      /\ \A k \in Keys : fields'[k] # None =>
           /\ fields'[k].event \in Legacy /\ Field[fields'[k].event] = k
           /\ fields'[k].consumed = FALSE
  <2>1. CASE schema = "absent"
    BY <1>2, <2>1 DEF Migrate, IInv, TypeOK
  <2>2. CASE schema = "v1"
    <3>1. /\ fields' = [k \in Keys |->
               IF \E e \in Legacy : Field[e] = k
                 THEN PanelValue(CHOOSE e \in Legacy : Field[e] = k, 0)
                 ELSE None]
          /\ ownerEpoch' = [o \in Owners |->
               IF \E e \in Legacy : Field[e][1] = o THEN epoch ELSE NoTime]
      BY <2>2 DEF Migrate
    <3>2. ASSUME NEW k \in Keys
          PROVE  \/ fields'[k] = None
                 \/ /\ fields'[k] \in Values
                    /\ fields'[k].event \in Legacy
                    /\ Field[fields'[k].event] = k
                    /\ fields'[k].consumed = FALSE
      <4>1. CASE \E e \in Legacy : Field[e] = k
        <5> DEFINE x == CHOOSE e \in Legacy : Field[e] = k
        <5>1. x \in Legacy /\ Field[x] = k
          BY <4>1
        <5>2. fields'[k] = PanelValue(x, 0)
          BY <3>1, <4>1
        <5> HIDE DEF x
        <5>3. x \in Events
          BY <5>1, PolicyAssumption
        <5>4. PanelValue(x, 0) \in Values
          BY <5>3, InstantParts DEF PanelValue, Values
        <5> QED
          BY <5>1, <5>2, <5>4 DEF PanelValue
      <4>2. CASE ~ \E e \in Legacy : Field[e] = k
        BY <3>1, <4>2
      <4> QED
        BY <4>1, <4>2
    <3>3. fields' \in [Keys -> Values \cup {None}]
      BY <3>1, <3>2
    <3>4. ownerEpoch' \in [Owners -> {EpochId(t) : t \in Instants} \cup {NoTime}]
      BY <3>1 DEF IInv, TypeOK
    <3> QED
      BY <3>2, <3>3, <3>4
  <2> QED
    BY <1>1, <2>1, <2>2 DEF IInv, TypeOK
<1>5. TypeOK'
  BY <1>1, <1>3, <1>4 DEF IInv, TypeOK, IsOnce
<1>6. FreshInv' /\ BusInv' /\ ToldInv' /\ SeenInv'
  BY <1>1, <1>4 DEF IInv, FreshInv, BusInv, ToldInv, SeenInv
<1>7. \A o \in Owners : ownerEpoch'[o] >= NoTime
  <2>1. \A t \in Instants : EpochId(t) >= NoTime
    BY InstantParts DEF NoTime
  <2>2. NoTime >= NoTime
    BY DEF NoTime
  <2> QED
    BY <1>4, <2>1, <2>2
<1> QED
  BY <1>1, <1>2, <1>5, <1>6, <1>7 DEF IInv

-----------------------------------------------------------------------------

LEMMA NextIInv == IInv /\ [Next]_panelVars => IInv'
<1> SUFFICES ASSUME IInv, [Next]_panelVars PROVE IInv'
  OBVIOUS
<1>1. CASE Tick \/ BackUp \/ \E e \in Events : Observe(e)
  BY <1>1, QuietSteps
<1>2. CASE Emit \/ Compact \/ Conflict \/ DeliveryFails
  BY <1>2, DeliverySteps
<1>3. CASE \E e \in Events : SetField(e)
  BY <1>3, SetFieldStep
<1>4. CASE \E k \in Keys : Consume(k)
  BY <1>4, ConsumeStep
<1>5. CASE \E o \in Owners : Rollover(o)
  BY <1>5, RolloverStep
<1>6. CASE Migrate
  BY <1>6, MigrateStep
<1>7. CASE UNCHANGED panelVars
  BY <1>7 DEF panelVars, file, IInv, TypeOK, IsOnce, FreshInv, BusInv, ToldInv,
              Told, SeenInv
<1> QED
  BY <1>1, <1>2, <1>3, <1>4, <1>5, <1>6, <1>7 DEF Next

LEMMA InductiveInvariant == Spec => []IInv
BY InitIInv, NextIInv, PTL DEF Spec

\* The bus carries a projection once, whatever cuts its delivery short and
\* however often its source event is written again (panel.py).  The property
\* includes the module's type invariant.
THEOREM BusHoldsOne == Spec => []ProjectedOnce
<1>1. IInv => ProjectedOnce
  BY ImpliesProperties
<1> QED
  BY <1>1, InductiveInvariant, PTL

\* What the panel stores, and what was consumed of it, is on the bus or waits
\* in panel.json to be put there (panel.py).
THEOREM NothingUntold == Spec => []UpdatesAreOwed
<1>1. IInv => UpdatesAreOwed
  BY ImpliesProperties
<1> QED
  BY <1>1, InductiveInvariant, PTL

-----------------------------------------------------------------------------
(* The days of the owners and what was consumed. *)

LEMMA EpochTypes ==
  ASSUME IInv
  PROVE  /\ \A o \in Owners : ownerEpoch[o] \in Nat \cup {NoTime}
         /\ epoch \in Nat
         /\ \A e \in Events : seenAt[e] # NoTime =>
              seenAt[e] \in Instants /\ EpochId(seenAt[e]) \in Nat
<1>1. {EpochId(t) : t \in Instants} \subseteq Nat
  BY InstantParts
<1>2. \A o \in Owners :
        ownerEpoch[o] \in {EpochId(t) : t \in Instants} \cup {NoTime}
  <2>1. ownerEpoch \in [Owners -> {EpochId(t) : t \in Instants} \cup {NoTime}]
    BY DEF IInv, TypeOK
  <2> QED
    BY <2>1
<1>3. \A o \in Owners : ownerEpoch[o] \in Nat \cup {NoTime}
  BY <1>1, <1>2
<1>4. epoch \in Nat
  BY <1>1 DEF IInv, TypeOK
<1>5. \A e \in Events : seenAt[e] # NoTime => seenAt[e] \in Instants
  BY DEF IInv, TypeOK
<1> QED
  BY <1>3, <1>4, <1>5, InstantParts

\* A write moves its owner's day forward, or leaves it.
LEMMA SetFieldForward ==
  ASSUME IInv, NEW e \in Events, SetField(e), NEW o \in Owners
  PROVE  ownerEpoch'[o] >= ownerEpoch[o]
<1> DEFINE t == ObservedAt(e)
           k == Field[e]
<1>1. /\ ownerEpoch[o] \in Nat \cup {NoTime} /\ NoTime = -1
      /\ k[1] \in Owners
  BY EpochTypes, FieldParts DEF NoTime
<1>2. CASE UNCHANGED ownerEpoch
  BY <1>1, <1>2
<1>3. CASE /\ EpochId(t) >= StoredEpoch(k)
           /\ ownerEpoch' = [ownerEpoch EXCEPT ![k[1]] = EpochId(t)]
  <2>1. EpochId(t) \in Nat
    <3>1. clock \in Instants /\ seenAt[e] \in Instants
      BY InstantParts DEF SetField, IInv, TypeOK
    <3> QED
      BY <3>1, InstantParts DEF ObservedAt
  <2>2. ownerEpoch'[o] = IF o = k[1] THEN EpochId(t) ELSE ownerEpoch[o]
    BY <1>1, <1>3 DEF IInv, TypeOK
  <2>3. o = k[1] /\ ownerEpoch[o] # NoTime => EpochId(t) >= ownerEpoch[o]
    BY <1>3 DEF StoredEpoch
  <2> HIDE DEF t, k
  <2> QED
    BY <1>1, <2>1, <2>2, <2>3
<1> QED
  BY <1>2, <1>3, SetFieldStep

LEMMA RolloverForward ==
  ASSUME IInv, NEW o \in Owners, Rollover(o), NEW q \in Owners
  PROVE  ownerEpoch'[q] >= ownerEpoch[q]
<1>1. /\ ownerEpoch[q] \in Nat \cup {NoTime} /\ NoTime = -1
      /\ ownerEpoch' = [ownerEpoch EXCEPT ![o] = EpochId(clock)]
      /\ ownerEpoch[o] <= EpochId(clock) /\ EpochId(clock) \in Nat
  BY EpochTypes, RolloverStep DEF NoTime
<1>2. ownerEpoch'[q] = IF q = o THEN EpochId(clock) ELSE ownerEpoch[q]
  BY <1>1 DEF IInv, TypeOK
<1> QED
  BY <1>1, <1>2

LEMMA GoneStep ==
  ASSUME IInv, GoneInv, Stamped, [Next]_panelVars
  PROVE  GoneInv'
<1>1. CASE UNCHANGED panelVars
  BY <1>1 DEF panelVars, file, GoneInv, Told
<1>2. CASE Tick \/ BackUp \/ \E e \in Events : Observe(e)
  BY <1>2, QuietSteps DEF GoneInv, Told
<1>3. CASE Emit \/ Compact \/ Conflict \/ DeliveryFails
  BY <1>3, DeliverySteps DEF GoneInv
<1>4. ASSUME NEW e \in Events, SetField(e)
      PROVE  GoneInv'
  <2> SUFFICES ASSUME NEW f \in Events, Told("consumed", f)'
               PROVE  /\ f \in OnceEvents
                      /\ \/ /\ fields'[Field[f]] # None
                            /\ fields'[Field[f]].event = f
                            /\ fields'[Field[f]].consumed
                         \/ /\ f \in DailyEvents /\ seenAt'[f] # NoTime
                            /\ EpochId(seenAt'[f]) < ownerEpoch'[Field[f][1]]
    BY DEF GoneInv
  <2>1. Told("consumed", f) /\ UNCHANGED seenAt
    BY <1>4, SetFieldStep
  <2>2. Field[f] \in Keys /\ Field[f][1] \in Owners /\ Field[e] \in Keys
    BY FieldParts
  <2>3. CASE /\ fields[Field[f]] # None /\ fields[Field[f]].event = f
             /\ fields[Field[f]].consumed
    <3>1. IsOnce(fields[Field[f]])
      BY <2>2, <2>3, StoredParts DEF IInv
    <3>2. \/ UNCHANGED fields
          \/ /\ Replaceable(Field[e], ObservedAt(e))
             /\ \E r : fields' = [fields EXCEPT ![Field[e]] = r]
      BY <1>4, SetFieldStep
    <3>3. fields'[Field[f]] = fields[Field[f]]
      BY <2>2, <2>3, <3>1, <3>2 DEF Replaceable, IInv, TypeOK
    <3> QED
      BY <2>1, <2>3, <3>3 DEF GoneInv
  <2>4. CASE /\ f \in DailyEvents /\ seenAt[f] # NoTime
             /\ EpochId(seenAt[f]) < ownerEpoch[Field[f][1]]
    <3>1. /\ EpochId(seenAt[f]) \in Nat
          /\ ownerEpoch[Field[f][1]] \in Nat \cup {NoTime} /\ NoTime = -1
      BY <2>2, <2>4, EpochTypes DEF NoTime
    <3>2. ownerEpoch'[Field[f][1]] >= ownerEpoch[Field[f][1]]
      BY <1>4, <2>2, SetFieldForward
    <3>3. IInv'
      BY <1>4, SetFieldStep
    <3>4. ownerEpoch'[Field[f][1]] \in Nat \cup {NoTime}
      BY <2>2, <3>3, InstantParts DEF IInv, TypeOK
    <3> QED
      BY <2>1, <2>4, <3>1, <3>2, <3>4 DEF GoneInv
  <2> QED
    BY <2>1, <2>3, <2>4 DEF GoneInv
<1>5. ASSUME NEW k \in Keys, Consume(k)
      PROVE  GoneInv'
  <2>1. /\ UNCHANGED <<ownerEpoch, seenAt>>
        /\ fields[k] # None /\ IsOnce(fields[k]) /\ fields[k] \in Values
        /\ fields[k].event \in Events /\ Field[fields[k].event] = k
        /\ fields'[k] = [fields[k] EXCEPT !.consumed = TRUE]
        /\ \A j \in Keys \ {k} : fields'[j] = fields[j]
        /\ \A f : Told("consumed", f)' <=>
                    Told("consumed", f) \/ f = fields[k].event
    BY <1>5, ConsumeStep, StoredParts DEF IInv
  <2>2. /\ fields'[k].event = fields[k].event /\ fields'[k].consumed
        /\ fields'[k] # None
    <3>1. /\ fields'[k] \in Values /\ fields'[k].event = fields[k].event
          /\ fields'[k].consumed
      BY <2>1 DEF Values
    <3> QED
      BY <3>1, ValueParts
  <2>3. fields[k].event \in OnceEvents
    BY <2>1 DEF IsOnce
  <2>4. \A f \in Events : Field[f] \in Keys
    BY FieldParts
  <2> QED
    BY <2>1, <2>2, <2>3, <2>4 DEF GoneInv
<1>6. ASSUME NEW o \in Owners, Rollover(o)
      PROVE  GoneInv'
  <2> SUFFICES ASSUME NEW f \in Events, Told("consumed", f)'
               PROVE  /\ f \in OnceEvents
                      /\ \/ /\ fields'[Field[f]] # None
                            /\ fields'[Field[f]].event = f
                            /\ fields'[Field[f]].consumed
                         \/ /\ f \in DailyEvents /\ seenAt'[f] # NoTime
                            /\ EpochId(seenAt'[f]) < ownerEpoch'[Field[f][1]]
    BY DEF GoneInv
  <2>1. Told("consumed", f) /\ UNCHANGED seenAt
    BY <1>6, RolloverStep DEF Told
  <2>2. Field[f] \in Keys /\ Field[f][1] \in Owners /\ f \in OnceEvents
    BY <2>1, FieldParts DEF GoneInv
  <2>3. CASE /\ fields[Field[f]] # None /\ fields[Field[f]].event = f
             /\ fields[Field[f]].consumed
    <3>1. CASE fields'[Field[f]] = fields[Field[f]]
      BY <2>2, <2>3, <3>1
    <3>2. CASE /\ Field[f][1] = o /\ IsDaily(fields[Field[f]])
               /\ EpochId(fields[Field[f]].at) < EpochId(clock)
      <4>1. f \in DailyEvents /\ f \notin Legacy \cup Restamped
        BY <2>2, <2>3, <3>2, PolicyAssumption DEF IsDaily, Stamped
      <4>2. fields[Field[f]].at = seenAt[f] /\ fields[Field[f]].at \in Nat
        BY <2>2, <2>3, <4>1, StoredParts, InstantParts DEF IInv, SeenInv
      <4>3. ownerEpoch'[Field[f][1]] = EpochId(clock)
        BY <1>6, <2>2, <3>2, RolloverStep DEF IInv, TypeOK
      <4>4. seenAt[f] # NoTime
        BY <4>2 DEF NoTime
      <4> QED
        BY <2>1, <2>2, <3>2, <4>1, <4>2, <4>3, <4>4
    <3> QED
      BY <1>6, <2>2, <3>1, <3>2, RolloverStep
  <2>4. CASE /\ f \in DailyEvents /\ seenAt[f] # NoTime
             /\ EpochId(seenAt[f]) < ownerEpoch[Field[f][1]]
    <3>1. /\ EpochId(seenAt[f]) \in Nat
          /\ ownerEpoch[Field[f][1]] \in Nat \cup {NoTime} /\ NoTime = -1
      BY <2>2, <2>4, EpochTypes DEF NoTime
    <3>2. ownerEpoch'[Field[f][1]] >= ownerEpoch[Field[f][1]]
      BY <1>6, <2>2, RolloverForward
    <3>3. IInv'
      BY <1>6, RolloverStep
    <3>4. ownerEpoch'[Field[f][1]] \in Nat \cup {NoTime}
      BY <2>2, <3>3, InstantParts DEF IInv, TypeOK
    <3> QED
      BY <2>1, <2>2, <2>4, <3>1, <3>2, <3>4
  <2> QED
    BY <2>1, <2>3, <2>4 DEF GoneInv
<1>7. CASE Migrate
  BY <1>7, MigrateStep DEF GoneInv, Told
<1> QED
  BY <1>1, <1>2, <1>3, <1>4, <1>5, <1>6, <1>7 DEF Next

LEMMA ImpliesConsumedIsGone ==
  ASSUME IInv, GoneInv, Stamped
  PROVE  ConsumedIsGone
<1> SUFFICES ASSUME NEW o \in Owners, NEW r \in Visible(o),
                    Told("consumed", r.event)
             PROVE  FALSE
  <2>1. ASSUME NEW o \in Owners, NEW r \in Visible(o),
               ~ Told("consumed", r.event)
        PROVE  ~ OnBus(Consumed(r)) /\ Pending(Consumed(r)) = {}
    BY <2>1 DEF Told, OnBus, Pending, SameId, Consumed
  <2> QED
    BY <2>1 DEF ConsumedIsGone
<1>1. PICK k \in Keys : /\ k[1] = o /\ r = fields[k] /\ r # None
                        /\ ~ r.consumed /\ schema # "v1"
                        /\ IsDaily(r) => EpochId(r.at) = TargetEpoch(o)
  BY DEF Visible, KeysOf
<1>2. /\ r.event \in Events /\ Field[r.event] = k /\ r.at \in Nat
  BY <1>1, StoredParts, InstantParts DEF IInv
<1>3. /\ r.event \in OnceEvents /\ r.event \in DailyEvents
      /\ seenAt[r.event] # NoTime
      /\ EpochId(seenAt[r.event]) < ownerEpoch[o]
  BY <1>1, <1>2 DEF GoneInv
<1>4. r.at = seenAt[r.event]
  BY <1>1, <1>2, <1>3, PolicyAssumption DEF IInv, SeenInv, Stamped
<1>5. /\ EpochId(r.at) \in Nat /\ ownerEpoch[o] \in Nat \cup {NoTime}
      /\ NoTime = -1
  BY <1>2, EpochParts, EpochTypes DEF NoTime
<1>6. TargetEpoch(o) = ownerEpoch[o]
  BY <1>3, <1>4, <1>5 DEF TargetEpoch
<1> QED
  BY <1>1, <1>3, <1>4, <1>5, <1>6 DEF IsDaily

\* A value that was consumed is not offered again, though its event be written
\* once more after a rollover has removed it (panel.py).  A source whose daily,
\* consume-once events are stamped anew at every call is excepted (Stamped).
THEOREM ConsumedStaysGone == Stamped /\ Spec => []ConsumedIsGone
<1>1. Stamped /\ IInv /\ GoneInv /\ [Next]_panelVars => GoneInv'
  BY GoneStep
<1>2. Stamped /\ IInv /\ GoneInv => ConsumedIsGone
  BY ImpliesConsumedIsGone
<1>3. ASSUME Stamped
      PROVE  Spec => []ConsumedIsGone
  <2>1. IInv /\ GoneInv /\ [Next]_panelVars => GoneInv'
    BY <1>1, <1>3
  <2>2. IInv /\ GoneInv => ConsumedIsGone
    BY <1>2, <1>3
  <2> QED
    BY <2>1, <2>2, InitGoneInv, InductiveInvariant, PTL DEF Spec
<1> QED
  BY <1>3

\* Neither the day of an owner, nor that of the file, nor the observation in a
\* field goes back, whatever order the writes and rollovers come in (panel.py).
THEOREM DaysGoForward == Spec => NeverBackwards
<1> DEFINE A == /\ \A o \in Owners : ownerEpoch'[o] >= ownerEpoch[o]
                /\ schema = "v2" => epoch' >= epoch
                /\ \A k \in Keys : fields[k] # None /\ fields'[k] # None =>
                     fields'[k].at >= fields[k].at
<1>1. ASSUME IInv, Next
      PROVE  A
  <2>1. /\ \A o \in Owners : ownerEpoch[o] >= ownerEpoch[o]
        /\ epoch >= epoch
        /\ \A k \in Keys : fields[k] # None => fields[k].at >= fields[k].at
    <3>1. \A o \in Owners : ownerEpoch[o] \in Int
      BY <1>1, EpochTypes DEF NoTime
    <3>2. epoch \in Nat
      BY <1>1, EpochTypes
    <3>3. ASSUME NEW k \in Keys, fields[k] # None
          PROVE  fields[k].at \in Nat
      BY <1>1, <3>3, StoredParts, InstantParts DEF IInv
    <3> QED
      BY <3>1, <3>2, <3>3
  <2>2. CASE Tick \/ BackUp \/ \E e \in Events : Observe(e)
    BY <1>1, <2>1, <2>2, QuietSteps
  <2>3. CASE Emit \/ Compact \/ Conflict \/ DeliveryFails
    BY <1>1, <2>1, <2>3, DeliverySteps
  <2>4. ASSUME NEW e \in Events, SetField(e)
        PROVE  A
    <3>1. \A o \in Owners : ownerEpoch'[o] >= ownerEpoch[o]
      BY <1>1, <2>4, SetFieldForward
    <3>2. schema = "v2" => epoch' >= epoch
      BY <1>1, <2>1, <2>4, SetFieldStep
    <3>3. ASSUME NEW k \in Keys, fields[k] # None, fields'[k] # None
          PROVE  fields'[k].at >= fields[k].at
      <4>1. CASE UNCHANGED fields
        BY <2>1, <3>3, <4>1
      <4>2. CASE /\ Replaceable(Field[e], ObservedAt(e))
                 /\ fields' = [fields EXCEPT ![Field[e]] =
                                 PanelValue(e, ObservedAt(e))]
        <5>1. CASE k = Field[e]
          <6>1. fields'[k].at = ObservedAt(e)
            BY <1>1, <4>2, <5>1 DEF PanelValue, IInv, TypeOK
          <6>2. ObservedAt(e) > fields[k].at
            BY <3>3, <4>2, <5>1 DEF Replaceable
          <6>3. ObservedAt(e) \in Nat /\ fields[k].at \in Nat
            <7>1. clock \in Instants /\ seenAt[e] \in Instants
              BY <1>1, <2>4, InstantParts DEF SetField, IInv, TypeOK
            <7> QED
              BY <1>1, <3>3, <7>1, StoredParts, InstantParts
              DEF ObservedAt, IInv
          <6> QED
            BY <6>1, <6>2, <6>3
        <5>2. CASE k # Field[e]
          BY <1>1, <2>1, <3>3, <4>2, <5>2 DEF IInv, TypeOK
        <5> QED
          BY <5>1, <5>2
      <4> QED
        BY <1>1, <2>4, <4>1, <4>2, SetFieldStep
    <3> QED
      BY <3>1, <3>2, <3>3
  <2>5. ASSUME NEW k \in Keys, Consume(k)
        PROVE  A
    <3>1. /\ UNCHANGED <<epoch, ownerEpoch>>
          /\ fields'[k] = [fields[k] EXCEPT !.consumed = TRUE]
          /\ \A j \in Keys \ {k} : fields'[j] = fields[j]
          /\ fields[k] \in Values
      BY <1>1, <2>5, ConsumeStep, StoredParts DEF IInv
    <3>2. fields'[k].at = fields[k].at
      BY <3>1 DEF Values
    <3> QED
      BY <2>1, <3>1, <3>2
  <2>6. ASSUME NEW o \in Owners, Rollover(o)
        PROVE  A
    <3>1. \A q \in Owners : ownerEpoch'[q] >= ownerEpoch[q]
      BY <1>1, <2>6, RolloverForward
    <3> QED
      BY <1>1, <2>1, <2>6, <3>1, RolloverStep
  <2>7. CASE Migrate
    BY <1>1, <2>7, MigrateStep
  <2> QED
    BY <1>1, <2>2, <2>3, <2>4, <2>5, <2>6, <2>7 DEF Next
<1>2. ASSUME IInv, UNCHANGED panelVars
      PROVE  A \/ UNCHANGED panelVars
  BY <1>2
<1>3. IInv /\ [Next]_panelVars => [A]_panelVars
  BY <1>1
<1> QED
  BY <1>3, InductiveInvariant, PTL DEF Spec, NeverBackwards

\* A rollover, which alone moves the day of the file, leaves what every other
\* owner sees as it was (panel.py).
THEOREM RolloverIsOwn == Spec => OwnersAreApart
<1> DEFINE A == \A o \in Owners :
                  schema = "v2" /\ epoch' # epoch /\ ownerEpoch'[o] = ownerEpoch[o]
                    => Visible(o)' = Visible(o)
<1>1. ASSUME IInv, Next, schema = "v2", epoch' # epoch
      PROVE  \E q \in Owners : Rollover(q)
  <2>1. CASE Tick \/ BackUp \/ \E e \in Events : Observe(e)
    BY <1>1, <2>1, QuietSteps
  <2>2. CASE Emit \/ Compact \/ Conflict \/ DeliveryFails
    BY <1>1, <2>2, DeliverySteps
  <2>3. CASE \E e \in Events : SetField(e)
    BY <1>1, <2>3, SetFieldStep
  <2>4. CASE \E k \in Keys : Consume(k)
    BY <1>1, <2>4, ConsumeStep
  <2>5. CASE Migrate
    BY <1>1, <2>5, MigrateStep
  <2> QED
    BY <1>1, <2>1, <2>2, <2>3, <2>4, <2>5 DEF Next
<1>2. ASSUME IInv, NEW q \in Owners, Rollover(q), NEW o \in Owners,
             ownerEpoch'[o] = ownerEpoch[o]
      PROVE  Visible(o)' = Visible(o)
  <2>1. /\ UNCHANGED clock /\ schema # "v1" /\ schema' = "v2"
        /\ \A k \in KeysOf(o) : k \in Keys /\ k[1] = o
        /\ \A k \in Keys :
             \/ fields'[k] = fields[k]
             \/ /\ k[1] = q /\ fields[k] # None /\ fields'[k] = None
                /\ IsDaily(fields[k])
                /\ EpochId(fields[k].at) < EpochId(clock)
        /\ ownerEpoch'[q] = EpochId(clock) /\ EpochId(clock) \in Nat
    BY <1>2, RolloverStep DEF KeysOf, IInv, TypeOK
  <2>2. TargetEpoch(o)' = TargetEpoch(o)
    BY <1>2, <2>1 DEF TargetEpoch
  <2>3. ASSUME NEW k \in KeysOf(o), fields'[k] # fields[k]
        PROVE  /\ fields'[k] = None /\ fields[k] # None /\ IsDaily(fields[k])
               /\ EpochId(fields[k].at) # TargetEpoch(o)
    <3>1. /\ o = q /\ fields[k] # None /\ fields'[k] = None
          /\ IsDaily(fields[k]) /\ EpochId(fields[k].at) < EpochId(clock)
      BY <2>1, <2>3
    <3>2. TargetEpoch(o) = EpochId(clock)
      BY <1>2, <2>1, <3>1 DEF TargetEpoch
    <3>3. fields[k].at \in Nat /\ EpochId(fields[k].at) \in Nat
      BY <1>2, <2>1, <3>1, StoredParts, InstantParts DEF IInv
    <3> QED
      BY <2>1, <3>1, <3>2, <3>3
  <2>4. Visible(o) = {r \in {fields[k] : k \in KeysOf(o)} \ {None} :
                        /\ Expires(r) > clock
                        /\ IsDaily(r) => EpochId(r.at) = TargetEpoch(o)
                        /\ ~ r.consumed}
    BY <2>1 DEF Visible
  <2>5. Visible(o)' = {r \in {fields'[k] : k \in KeysOf(o)} \ {None} :
                         /\ Expires(r) > clock
                         /\ IsDaily(r) => EpochId(r.at) = TargetEpoch(o)
                         /\ ~ r.consumed}
    BY <2>1, <2>2 DEF Visible
  <2> QED
    BY <2>3, <2>4, <2>5
<1>3. IInv /\ [Next]_panelVars => [A]_panelVars
  BY <1>1, <1>2
<1> QED
  BY <1>3, InductiveInvariant, PTL DEF Spec, OwnersAreApart

=============================================================================
