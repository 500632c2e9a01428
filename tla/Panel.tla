-------------------------------- MODULE Panel --------------------------------
(***************************************************************************)
(* PanelStore (moonbite_plugin/panel.py): the daily RAM of several owners  *)
(* in panel.json, and its projections on the event bus.                    *)
(*                                                                         *)
(* Every mutator holds panel.lock and replaces the whole file atomically.  *)
(* A write that changes a field puts a pending projection in the same      *)
(* file; the caller, still holding the lock, emits it and removes it with  *)
(* a second write.  The process may die, or the bus refuse, in between:    *)
(* the projection then stays pending until the same source event is        *)
(* written again.                                                          *)
(*                                                                         *)
(* A source event names its field and its policies; a field's value is     *)
(* known by the event that wrote it.  Days are DayLength instants long.    *)
(***************************************************************************)
EXTENDS Integers, FiniteSets, Bags

CONSTANTS
  Owners,
  Events,      \* source events; an event writes one field, maybe repeatedly
  Field,       \* [Events -> <<owner, name>>]
  DailyEvents, \* written with reset_policy "daily"
  OnceEvents,  \* written with consume_policy "once"
  Restamped,   \* events whose writer leaves observed_at to the clock
  Legacy,      \* events of a version 1 file that awaits its migration
  Ttl,         \* lifetime of a value
  DayLength,
  Skew,        \* how far a source's clock runs ahead of the panel's
  MaxTime,     \* bound: the last instant a run reaches
  MaxFailures, \* bound: how many deliveries are cut short
  None

ASSUME FieldAssumption ==
  \A e \in Events : Field[e] \in Owners \X {Field[f][2] : f \in Events}
ASSUME PolicyAssumption ==
  /\ DailyEvents \cup OnceEvents \cup Restamped \cup Legacy \subseteq Events
  /\ Legacy \cap (OnceEvents \cup Restamped) = {}
ASSUME NumbersAssumption ==
  /\ Ttl \in Nat \ {0} /\ DayLength \in Nat \ {0}
  /\ Skew \in Nat /\ MaxTime \in Nat /\ MaxFailures \in Nat

VARIABLES
  clock,
  schema,     \* of panel.json: "absent", "v1" or "v2"
  backup,     \* panel.v1.backup.json is written
  epoch,      \* epoch of the file
  ownerEpoch, \* owner_epochs
  fields,     \* fields of the file
  outbox,     \* bus_projections of the file
  bus,        \* what the event bus holds
  seenAt,     \* when a source event was observed
  busy,       \* the projection the holder of panel.lock delivers
  failures

file == <<schema, backup, epoch, ownerEpoch, fields, outbox>>
panelVars == <<clock, file, bus, seenAt, busy, failures>>

NoTime == -1
Keys == {Field[e] : e \in Events}
KeysOf(o) == {k \in Keys : k[1] = o}
Instants == 0..(MaxTime + Skew)

\* epoch_id: the anchor hour is where a day begins.
EpochId(t) == t \div DayLength

\* PanelValue.
Values == [event : Events, at : Instants, consumed : BOOLEAN]
PanelValue(e, t) == [event |-> e, at |-> t, consumed |-> FALSE]
IsDaily(r) == r.event \in DailyEvents
IsOnce(r) == r.event \in OnceEvents
Expires(r) == r.at + Ttl

\* A projection is known by its kind and its source event; an update tells the
\* bus when the value expires.
Projections == [kind : {"updated", "consumed"}, event : Events,
                expires : {t + Ttl : t \in Instants} \cup {NoTime}]
ASSUME NoneAssumption == None \notin Values \cup Projections
Updated(r) == [kind |-> "updated", event |-> r.event, expires |-> Expires(r)]
Consumed(r) == [kind |-> "consumed", event |-> r.event, expires |-> NoTime]
SameId(p, q) == p.kind = q.kind /\ p.event = q.event

\* What _read_state and PanelValue accept, as well as the types.
TypeOK ==
  /\ clock \in 0..MaxTime
  /\ schema \in {"absent", "v1", "v2"} /\ backup \in BOOLEAN
  /\ epoch \in {EpochId(t) : t \in Instants}
  /\ ownerEpoch \in [Owners -> {EpochId(t) : t \in Instants} \cup {NoTime}]
  /\ fields \in [Keys -> Values \cup {None}]
  /\ \A k \in Keys : fields[k] # None =>
       /\ Field[fields[k].event] = k
       /\ fields[k].consumed => IsOnce(fields[k])
  /\ outbox \subseteq Projections
  /\ \A p, q \in outbox : SameId(p, q) => p = q
  /\ IsABag(bus) /\ BagToSet(bus) \subseteq Projections
  /\ seenAt \in [Events -> Instants \cup {NoTime}]
  /\ busy \in outbox \cup {None}
  /\ failures \in 0..MaxFailures

Init ==
  /\ clock = 0
  /\ \/ schema = "absent"
     \/ schema = "v1" /\ Legacy # {}
  /\ backup = FALSE
  /\ epoch = 0
  /\ ownerEpoch = [o \in Owners |-> NoTime]
  /\ fields = [k \in Keys |-> None]
  /\ outbox = {} /\ bus = EmptyBag
  /\ seenAt = [e \in Events |-> NoTime]
  /\ busy = None
  /\ failures = 0

-----------------------------------------------------------------------------
(* The delivery of projections. *)

\* A version 1 file refuses every operation but its migration.
Unlocked == busy = None /\ schema # "v1"

OnBus(p) == \E q \in BagToSet(bus) : SameId(p, q)
Pending(p) == {q \in outbox : SameId(p, q)}

\* A changed field takes its projection along, over a pending one of that name.
WriteWith(p) ==
  /\ outbox' = (outbox \ Pending(p)) \cup {p}
  /\ busy' = p

\* A repeated call finishes the projection that is pending; where none is, it
\* has been removed and is made again.
Reproject(p) ==
  IF Pending(p) # {}
    THEN busy' \in Pending(p) /\ UNCHANGED outbox
    ELSE WriteWith(p)

\* Bug: the bus is not asked what it already holds.
EmitBlindly ==
  /\ busy # None
  /\ bus' = bus (+) SetToBag({busy})
  /\ outbox' = outbox \ {busy}
  /\ busy' = None
  /\ UNCHANGED <<clock, schema, backup, epoch, ownerEpoch, fields, seenAt,
                 failures>>

\* _deliver_projection.
Emit ==
  /\ busy # None /\ ~ OnBus(busy)
  /\ bus' = bus (+) SetToBag({busy})
  /\ UNCHANGED <<clock, file, seenAt, busy, failures>>

\* Bug: the marker goes whether or not the bus took the event.
CompactFirst ==
  /\ busy # None
  /\ outbox' = outbox \ {busy}
  /\ busy' = None
  /\ UNCHANGED <<clock, schema, backup, epoch, ownerEpoch, fields, bus, seenAt,
                 failures>>

\* _finish_projection: the second write.
Compact ==
  /\ busy # None /\ BagIn(busy, bus)
  /\ outbox' = outbox \ {busy}
  /\ busy' = None
  /\ UNCHANGED <<clock, schema, backup, epoch, ownerEpoch, fields, bus, seenAt,
                 failures>>

\* _bus_projection_exists raises when the bus knows the projection otherwise.
Conflict ==
  /\ busy # None /\ OnBus(busy) /\ ~ BagIn(busy, bus)
  /\ busy' = None
  /\ UNCHANGED <<clock, file, bus, seenAt, failures>>

\* The process dies, or the bus or the second write raises.
DeliveryFails ==
  /\ busy # None
  /\ failures < MaxFailures
  /\ busy' = None
  /\ failures' = failures + 1
  /\ UNCHANGED <<clock, file, bus, seenAt>>

-----------------------------------------------------------------------------
(* The operations. *)

\* A source observes something; its clock may run ahead.
Observe(e) ==
  /\ e \notin Legacy
  /\ seenAt[e] = NoTime
  /\ \E t \in clock..(clock + Skew) : seenAt' = [seenAt EXCEPT ![e] = t]
  /\ UNCHANGED <<clock, file, bus, busy, failures>>

ObservedAt(e) == IF e \in Restamped THEN clock ELSE seenAt[e]

\* The epoch below which a write is stale: the owner's, or the old value's.
StoredEpoch(k) ==
  IF ownerEpoch[k[1]] # NoTime THEN ownerEpoch[k[1]]
  ELSE IF fields[k] # None THEN EpochId(fields[k].at)
  ELSE NoTime

\* A value is replaced by a later observation, and a consume-once value never.
Replaceable(k, t) ==
  fields[k] # None =>
    /\ t > fields[k].at
    /\ ~ IsOnce(fields[k])

\* The file is made of its first write.
WriteFile(e0) ==
  /\ schema' = "v2"
  /\ epoch' = IF schema = "absent" THEN e0 ELSE epoch

\* set_field.  The event of the stored value is projected again; an older
\* observation, or one of an older epoch of the owner, changes nothing.
SetField(e) ==
  LET k == Field[e]
      new == PanelValue(e, ObservedAt(e))
  IN /\ Unlocked
     /\ seenAt[e] # NoTime
     /\ \/ /\ fields[k] # None /\ fields[k].event = e
           /\ Reproject(Updated(fields[k]))
           /\ UNCHANGED <<schema, epoch, ownerEpoch, fields>>
        \/ /\ fields[k] # None => fields[k].event # e
           /\ Replaceable(k, new.at)
           /\ EpochId(new.at) >= StoredEpoch(k)
           /\ WriteFile(EpochId(new.at))
           /\ fields' = [fields EXCEPT ![k] = new]
           /\ ownerEpoch' = [ownerEpoch EXCEPT ![k[1]] = EpochId(new.at)]
           /\ WriteWith(Updated(new))
     /\ UNCHANGED <<clock, backup, bus, seenAt, failures>>

\* The day a daily value must be of to be seen.  An owner that never wrote has
\* the clock's.
TargetEpoch(o) ==
  IF ownerEpoch[o] # NoTime THEN ownerEpoch[o] ELSE EpochId(clock)

\* Bug: the consumed value is removed instead of marked.
ConsumeRemoves(k) ==
  /\ Unlocked
  /\ fields[k] # None /\ IsOnce(fields[k])
  /\ Expires(fields[k]) > clock
  /\ fields' = [fields EXCEPT ![k] = None]
  /\ WriteWith(Consumed(fields[k]))
  /\ UNCHANGED <<clock, schema, backup, epoch, ownerEpoch, bus, seenAt, failures>>

\* consume, with the source event of the stored value.
Consume(k) ==
  /\ Unlocked
  /\ fields[k] # None /\ IsOnce(fields[k])
  /\ \/ /\ fields[k].consumed
        /\ Reproject(Consumed(fields[k]))
        /\ UNCHANGED fields
     \/ /\ ~ fields[k].consumed
        /\ Expires(fields[k]) > clock
        /\ IsDaily(fields[k]) => EpochId(fields[k].at) = TargetEpoch(k[1])
        /\ fields' = [fields EXCEPT ![k].consumed = TRUE]
        /\ WriteWith(Consumed(fields[k]))
  /\ UNCHANGED <<clock, schema, backup, epoch, ownerEpoch, bus, seenAt, failures>>

\* The daily values of an earlier day.
Stale(ks, today) ==
  {k \in ks : /\ fields[k] # None /\ IsDaily(fields[k])
              /\ EpochId(fields[k].at) < today}

\* Bug: the day is opened although the owner has already written in a later one.
RolloverBehind(o) ==
  LET today == EpochId(clock)
  IN /\ Unlocked
     /\ schema = "v2" => today >= epoch
     /\ WriteFile(today)
     /\ ownerEpoch' = [ownerEpoch EXCEPT ![o] = today]
     /\ fields' = [k \in Keys |-> IF k \in Stale(KeysOf(o), today) THEN None
                                                               ELSE fields[k]]
     /\ UNCHANGED <<clock, backup, outbox, bus, seenAt, busy, failures>>

\* Bug: the day is opened for every owner at once.
RolloverEverybody(o) ==
  LET today == EpochId(clock)
  IN /\ Unlocked
     /\ schema = "v2" => today >= epoch
     /\ ownerEpoch[o] <= today
     /\ schema' = "v2" /\ epoch' = today
     /\ ownerEpoch' = [ownerEpoch EXCEPT ![o] = today]
     /\ fields' = [k \in Keys |-> IF k \in Stale(Keys, today) THEN None
                                                            ELSE fields[k]]
     /\ UNCHANGED <<clock, backup, outbox, bus, seenAt, busy, failures>>

\* rollover: a day is opened for one owner.
Rollover(o) ==
  LET today == EpochId(clock)
  IN /\ Unlocked
     /\ schema = "v2" => today >= epoch
     /\ ownerEpoch[o] <= today
     /\ schema' = "v2" /\ epoch' = today
     /\ ownerEpoch' = [ownerEpoch EXCEPT ![o] = today]
     /\ fields' = [k \in Keys |-> IF k \in Stale(KeysOf(o), today) THEN None
                                                               ELSE fields[k]]
     /\ UNCHANGED <<clock, backup, outbox, bus, seenAt, busy, failures>>

\* migrate_v1: the backup, then the converted file.  The values of a version 1
\* file are of its epoch.
BackUp ==
  /\ schema = "v1" /\ ~ backup
  /\ backup' = TRUE
  /\ UNCHANGED <<clock, schema, epoch, ownerEpoch, fields, outbox, bus, seenAt,
                 busy, failures>>

Migrate ==
  /\ busy = None
  /\ schema = "v1" => backup
  /\ schema # "v2"
  /\ schema' = "v2"
  /\ epoch' = IF schema = "v1" THEN epoch ELSE EpochId(clock)
  /\ schema = "v1" =>
       /\ fields' = [k \in Keys |->
            IF \E e \in Legacy : Field[e] = k
              THEN PanelValue(CHOOSE e \in Legacy : Field[e] = k, 0)
              ELSE None]
       /\ ownerEpoch' = [o \in Owners |->
            IF \E e \in Legacy : Field[e][1] = o THEN epoch ELSE NoTime]
  /\ schema = "absent" => UNCHANGED <<fields, ownerEpoch>>
  /\ UNCHANGED <<clock, backup, outbox, bus, seenAt, busy, failures>>

Tick ==
  /\ clock < MaxTime
  /\ clock' = clock + 1
  /\ UNCHANGED <<file, bus, seenAt, busy, failures>>

Next ==
  \/ Tick
  \/ BackUp \/ Migrate
  \/ Emit \/ Compact \/ Conflict \/ DeliveryFails
  \/ \E e \in Events : Observe(e) \/ SetField(e)
  \/ \E k \in Keys : Consume(k)
  \/ \E o \in Owners : Rollover(o)

Spec == Init /\ [][Next]_panelVars

-----------------------------------------------------------------------------
(* Correctness. *)

\* _visible_records: what a snapshot of an owner shows at this instant.
Visible(o) ==
  IF schema = "v1" THEN {}
  ELSE {r \in {fields[k] : k \in KeysOf(o)} \ {None} :
          /\ Expires(r) > clock
          /\ IsDaily(r) => EpochId(r.at) = TargetEpoch(o)
          /\ ~ r.consumed}

\* The bus carries every projection once, however often its delivery was cut
\* short and its source event written again.
ProjectedOnce ==
  /\ TypeOK
  /\ \A p \in BagToSet(bus) :
       /\ bus[p] = 1
       /\ \A q \in BagToSet(bus) : SameId(p, q) => p = q

\* No stored value and no consumption is lost to the bus: its projection has
\* been emitted or waits in the same file.
UpdatesAreOwed ==
  \A k \in Keys : fields[k] # None /\ fields[k].event \notin Legacy =>
    LET r == fields[k]
    IN /\ OnBus(Updated(r)) \/ Pending(Updated(r)) # {}
       /\ r.consumed => OnBus(Consumed(r)) \/ Pending(Consumed(r)) # {}

\* What was consumed once is never offered again, also when its event arrives
\* late, after a rollover has removed the consumed value.
ConsumedIsGone ==
  \A o \in Owners : \A r \in Visible(o) :
    ~ OnBus(Consumed(r)) /\ Pending(Consumed(r)) = {}

\* No owner's day is reopened and no field returns to an older observation,
\* whichever order the events and the rollovers come in.
NeverBackwards ==
  [][/\ \A o \in Owners : ownerEpoch'[o] >= ownerEpoch[o]
     /\ schema = "v2" => epoch' >= epoch
     /\ \A k \in Keys : fields[k] # None /\ fields'[k] # None =>
          fields'[k].at >= fields[k].at]_panelVars

\* One owner's rollover takes nothing from what another sees.
OwnersAreApart ==
  [][\A o \in Owners :
       schema = "v2" /\ epoch' # epoch /\ ownerEpoch'[o] = ownerEpoch[o]
         => Visible(o)' = Visible(o)]_panelVars

\* docs/features/PANEL.md: a snapshot hides the daily values of an earlier day
\* as soon as a new one begins.
DailyEndsWithItsDay ==
  \A o \in Owners : \A r \in Visible(o) :
    IsDaily(r) => EpochId(r.at) >= EpochId(clock)
=============================================================================
