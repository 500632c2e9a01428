------------------------ MODULE MemoryMaintenance_proofs ------------------------
(***************************************************************************)
(* Proofs about MemoryMaintenance, for any cards, requests and callers,    *)
(* and any number of calls and reads.                                      *)
(*                                                                         *)
(* The files only grow: a card that is known keeps its row, and at most    *)
(* one card with a row of its own comes with a step (Grows).  From this    *)
(* follow both that the views go on computing and that nothing superseded  *)
(* or archived comes back.  A signature counts what has grown, so one that *)
(* is still current proves that nothing was added since it was taken       *)
(* (ReaderInv and CacheInv).                                               *)
(***************************************************************************)
EXTENDS MemoryMaintenance, FiniteSetTheorems, TLAPS

Bases == [Cards -> Rows \cup {None}]

Readers == [pc : {"idle", "history", "again"}, key : Nat \X Nat,
            base : Bases, h : Seq(Events)]

\* The types, as far as the other parts do not imply them.
Types ==
  /\ cards \in Bases /\ IsFiniteSet(Held(cards))
  /\ history \in Seq(Events)
  /\ proposals \in [Requests -> Proposals \cup {None}]
  /\ approvals \in [Requests -> ApprovalStates]
  /\ call \in [Callers -> Calls]
  /\ reader \in Readers
  /\ made \in 0..MaxCalls /\ reads \in 0..MaxReads
  /\ announced \subseteq Requests

\* An event applies its request's proposal, and does something.
EventsInv ==
  \A i \in DOMAIN history :
    /\ proposals[history[i].request] # None
    /\ LET p == proposals[history[i].request] IN
         /\ p.operation = "retire" => history[i].archives # {}
         /\ (p.operation = "retire") = (history[i].creates = None)

\* Proposals are about cards that exist, and make one unless they retire some.
ProposalsInv ==
  \A q \in Requests : proposals[q] # None =>
    /\ proposals[q].refs \subseteq Existing
    /\ (proposals[q].operation = "retire") = (proposals[q].creates = None)

\* A proposal is registered after it is made, as its class demands and as it was
\* announced.
ApprovalsInv ==
  \A q \in Requests :
    /\ approvals[q] # "unregistered" => proposals[q] # None
    /\ approvals[q] = "not_required" => proposals[q].operation \notin Sensitive
    /\ q \in announced => approvals[q] \in {"pending", "approved"}

\* What a call of the facade knows between two of its steps.
CallHolds(c) ==
  LET s == call[c]
      q == s.request
  IN  /\ s.pc # "idle" => q \in Requests
      /\ s.pc = "registering" =>
           /\ proposals[q] # None
           /\ proposals[q].operation \in Sensitive => s.required
      /\ s.pc = "approving" => approvals[q] # "unregistered"
      /\ s.pc = "applying" => approvals[q] \in {"not_required", "approved"}

CallInv == \A c \in Callers : CallHolds(c)

\* A signature taken earlier counts no more than there is now.
Earlier(key) == key[1] <= Signature[1] /\ key[2] <= Signature[2]

\* As long as what a reader counted is what there is, it holds what there is.
ReaderInv ==
  reader.pc # "idle" =>
    /\ Earlier(reader.key)
    /\ reader.key[1] = Signature[1] => reader.base = cards
    /\ reader.pc = "again" /\ reader.key[2] = Signature[2] =>
         reader.h = history

CacheInv ==
  cache.key # None =>
    /\ cache.key \in Nat \X Nat /\ Earlier(cache.key)
    /\ CacheIsCurrent

\* The inductive invariant.
IInv ==
  /\ Types
  /\ Computable(cards, history, history)
  /\ EventsInv /\ ProposalsInv /\ ApprovalsInv /\ CallInv
  /\ NothingUnapproved
  /\ ReaderInv /\ CacheInv

-----------------------------------------------------------------------------
(* The rows of the cards, from any cards file and any history. *)

LEMMA RowParts ==
  ASSUME NEW row \in Rows
  PROVE  /\ row # None /\ row.supersedes \subseteq Cards
         /\ row.related \subseteq Cards /\ row.born \in Born
BY NoneAssumption DEF Rows

LEMMA EventParts ==
  ASSUME NEW e \in Events
  PROVE  /\ e.request \in Requests /\ e.creates \in Cards \cup {None}
         /\ e.row \in Rows \cup {None} /\ e.archives \subseteq Cards
BY DEF Events

LEMMA KnownParts ==
  ASSUME NEW base \in Bases, NEW h \in Seq(Events)
  PROVE  /\ Known(base, h) \subseteq Cards
         /\ DOMAIN CardRows(base, h) = Known(base, h)
         /\ \A k \in Cards : k \in Known(base, h) <=>
              base[k] # None \/ \E i \in DOMAIN h : h[i].creates = k
<1>1. \A i \in DOMAIN h : h[i].creates \in Cards \cup {None}
  BY EventParts
<1>2. None \notin Cards
  BY NoneAssumption
<1> QED
  BY <1>1, <1>2 DEF Known, Held, Created, CardRows

\* No two events of the history make one card.
OneEventEach(h) ==
  \A i, j \in DOMAIN h : i # j =>
    h[i].creates = None \/ h[i].creates # h[j].creates

LEMMA RowOfHeld ==
  ASSUME NEW base \in Bases, NEW h \in Seq(Events),
         NEW k \in Cards, base[k] # None
  PROVE  k \in Known(base, h) /\ CardRows(base, h)[k] = base[k]
<1>1. k \in Known(base, h)
  BY KnownParts
<1> QED
  BY <1>1 DEF CardRows

LEMMA RowOfCreated ==
  ASSUME NEW base \in Bases, NEW h \in Seq(Events), OneEventEach(h),
         NEW i \in DOMAIN h, NEW k \in Cards,
         h[i].creates = k, base[k] = None
  PROVE  k \in Known(base, h) /\ CardRows(base, h)[k] = h[i].row
<1>1. k \in Known(base, h)
  BY KnownParts
<1>2. k # None
  BY NoneAssumption
<1>3. \A j \in DOMAIN h : h[j].creates = k => j = i
  BY <1>2 DEF OneEventEach
<1>4. (CHOOSE j \in DOMAIN h : h[j].creates = k) = i
  BY <1>3
<1> QED
  BY <1>1, <1>4 DEF CardRows

\* The rows of a set of cards, with those of one more set of cards.
Grows(rows, more, N) ==
  /\ DOMAIN more = DOMAIN rows \cup N
  /\ N \cap DOMAIN rows = {}
  /\ \A k \in DOMAIN rows : more[k] = rows[k]

\* A card enters the cards file.
LEMMA CardsGrow ==
  ASSUME NEW base \in Bases, NEW h \in Seq(Events), OneEventEach(h),
         NEW k \in Cards \ Known(base, h),
         NEW more \in Bases, more[k] # None,
         \A j \in Cards \ {k} : more[j] = base[j]
  PROVE  Grows(CardRows(base, h), CardRows(more, h), {k})
<1>1. base[k] = None /\ \A i \in DOMAIN h : h[i].creates # k
  BY KnownParts
<1>2. Held(more) = Held(base) \cup {k} /\ k \notin Held(base)
  BY <1>1 DEF Held
<1>3. /\ Known(more, h) = Known(base, h) \cup {k}
      /\ DOMAIN CardRows(base, h) = Known(base, h)
      /\ DOMAIN CardRows(more, h) = Known(more, h)
      /\ Known(base, h) \subseteq Cards
  BY <1>2, KnownParts DEF Known
<1>4. ASSUME NEW j \in Known(base, h)
      PROVE  CardRows(more, h)[j] = CardRows(base, h)[j]
  <2>1. j \in Cards /\ j # k /\ more[j] = base[j]
    BY <1>3
  <2>2. CASE base[j] # None
    BY <2>1, <2>2, RowOfHeld
  <2>3. CASE base[j] = None
    <3>1. PICK i \in DOMAIN h : h[i].creates = j
      BY <2>1, <2>3, KnownParts
    <3>2. CardRows(base, h)[j] = h[i].row
      BY <2>1, <2>3, <3>1, RowOfCreated
    <3>3. more[j] = None
      BY <2>1, <2>3
    <3>4. CardRows(more, h)[j] = h[i].row
      BY <2>1, <3>1, <3>3, RowOfCreated
    <3> QED
      BY <3>2, <3>4
  <2> QED
    BY <2>2, <2>3
<1> QED
  BY <1>3, <1>4 DEF Grows

\* An event enters the history.
LEMMA HistoryGrows ==
  ASSUME NEW base \in Bases, NEW h \in Seq(Events), OneEventEach(h),
         NEW e \in Events, e.creates \notin Known(base, h),
         NEW more \in Seq(Events), NEW n \in DOMAIN more, n \notin DOMAIN h,
         DOMAIN more = DOMAIN h \cup {n}, more[n] = e,
         \A i \in DOMAIN h : more[i] = h[i],
         NEW N, N = {e.creates} \ {None}
  PROVE  /\ OneEventEach(more)
         /\ Created(more) = Created(h) \cup N
         /\ Grows(CardRows(base, h), CardRows(base, more), N)
         /\ \A k \in N : CardRows(base, more)[k] = e.row
         /\ ArchivedBy(more) = ArchivedBy(h) \cup e.archives
<1>2. \A i \in DOMAIN h : h[i].creates # None => h[i].creates # e.creates
  BY EventParts, KnownParts
<1>3. OneEventEach(more)
  BY <1>2 DEF OneEventEach
<1>4. Created(more) = Created(h) \cup N
  BY DEF Created
<1>5. /\ Known(base, more) = Known(base, h) \cup N
      /\ N \cap Known(base, h) = {}
      /\ DOMAIN CardRows(base, h) = Known(base, h)
      /\ DOMAIN CardRows(base, more) = Known(base, more)
      /\ Known(base, h) \subseteq Cards
  <2>1. Known(base, more) = Known(base, h) \cup N
    BY <1>4 DEF Known
  <2>2. N \cap Known(base, h) = {}
    OBVIOUS
  <2> QED
    BY <2>1, <2>2, KnownParts
<1>6. ASSUME NEW j \in Known(base, h)
      PROVE  CardRows(base, more)[j] = CardRows(base, h)[j]
  <2>1. j \in Cards
    BY <1>5
  <2>2. CASE base[j] # None
    BY <2>1, <2>2, RowOfHeld
  <2>3. CASE base[j] = None
    <3>1. PICK i \in DOMAIN h : h[i].creates = j
      BY <2>1, <2>3, KnownParts
    <3>2. CardRows(base, h)[j] = h[i].row
      BY <2>1, <2>3, <3>1, RowOfCreated
    <3>3. i \in DOMAIN more /\ more[i] = h[i]
      OBVIOUS
    <3>4. CardRows(base, more)[j] = more[i].row
      BY <1>3, <2>1, <2>3, <3>1, <3>3, RowOfCreated
    <3> QED
      BY <3>2, <3>3, <3>4
  <2> QED
    BY <2>2, <2>3
<1>7. ASSUME NEW k \in N
      PROVE  CardRows(base, more)[k] = e.row
  <2>1. k = e.creates /\ k \in Cards /\ n \in DOMAIN more
    BY EventParts
  <2>2. base[k] = None
    BY <2>1, KnownParts
  <2> QED
    BY <1>3, <2>1, <2>2, RowOfCreated
<1>8. ArchivedBy(more) = ArchivedBy(h) \cup e.archives
  BY DEF ArchivedBy
<1>9. Grows(CardRows(base, h), CardRows(base, more), N)
  BY <1>5, <1>6 DEF Grows
<1> QED
  BY <1>3, <1>4, <1>7, <1>8, <1>9

\* What cards were, they stay.
LEMMA ViewsOnlyGrow ==
  ASSUME NEW rows, NEW more, NEW N, Grows(rows, more, N),
         NEW archived, NEW also, NEW k \in DOMAIN rows
  PROVE  /\ View(more, archived \cup also, k).current =>
              View(rows, archived, k).current
         /\ View(more, archived \cup also, k).active =>
              View(rows, archived, k).active
BY DEF Grows, View

\* The relations among rows that _compute_card_views demands.
Related(rows) ==
  \A k \in DOMAIN rows :
    /\ rows[k].supersedes \cup rows[k].related \subseteq DOMAIN rows
    /\ \A j \in DOMAIN rows \ {k} :
         rows[j].supersedes \cap rows[k].supersedes = {}

LEMMA RelatedGrows ==
  ASSUME NEW rows, NEW more, NEW N, Grows(rows, more, N), Related(rows),
         \A j, k \in N : j = k,
         NEW archived,
         \A k \in N :
           /\ more[k].supersedes \cup more[k].related \subseteq DOMAIN rows
           /\ \A j \in more[k].supersedes : View(rows, archived, j).current
  PROVE  Related(more)
<1>1. ASSUME NEW k \in N, NEW j \in DOMAIN rows
      PROVE  more[j].supersedes \cap more[k].supersedes = {}
  BY <1>1 DEF Grows, View
<1> QED
  BY <1>1 DEF Grows, Related

-----------------------------------------------------------------------------
(* What the invariant implies. *)

LEMMA TypeParts ==
  ASSUME IInv
  PROVE  /\ cards \in Bases /\ history \in Seq(Events)
         /\ OneEventEach(history)
         /\ Existing \subseteq Cards
         /\ DOMAIN CardRows(cards, history) = Existing
         /\ Related(CardRows(cards, history))
         /\ Signature \in Nat \X Nat
BY KnownParts, FS_CardinalityType
DEF IInv, Types, Computable, OneEventEach, Related, Existing, Signature

LEMMA ImpliesTypeOK ==
  ASSUME IInv
  PROVE  TypeOK
<1>1. \A i \in DOMAIN history : history[i] \in Events
  BY DEF IInv, Types
<1> QED
  BY <1>1 DEF IInv, Types, Bases, EventsInv, ApprovalsInv, TypeOK

LEMMA ImpliesProperties ==
  ASSUME IInv
  PROVE  ViewsCompute /\ CacheIsCurrent
<1>1. ViewsCompute
  BY ImpliesTypeOK DEF IInv, ViewsCompute
<1>2. CacheIsCurrent
  <2>1. CASE cache.key # None
    BY <2>1 DEF IInv, CacheInv
  <2>2. CASE cache.key = None
    BY <2>2, TypeParts, NoneAssumption DEF CacheIsCurrent
  <2> QED
    BY <2>1, <2>2
<1> QED
  BY <1>1, <1>2

LEMMA InitIInv == Init => IInv
<1> SUFFICES ASSUME Init PROVE IInv
  OBVIOUS
<1>1. /\ cards = [k \in Cards |-> None] /\ history = <<>>
      /\ proposals = [q \in Requests |-> None]
      /\ approvals = [q \in Requests |-> "unregistered"]
      /\ call = [c \in Callers |-> Idle]
      /\ reader = NoRead /\ cache = NoCache /\ made = 0 /\ reads = 0
      /\ announced = {}
  BY DEF Init
<1>2. /\ cards \in Bases /\ history \in Seq(Events)
      /\ DOMAIN history = {} /\ Held(cards) = {}
  BY <1>1 DEF Bases, Held
<1>3. /\ Created(history) = {} /\ ArchivedBy(history) = {}
      /\ Known(cards, history) = {}
  BY <1>2 DEF Created, ArchivedBy, Known
<1>4. DOMAIN CardRows(cards, history) = {}
  BY <1>3 DEF CardRows
<1>5. Computable(cards, history, history)
  BY <1>2, <1>3, <1>4 DEF Computable
<1>6. Types
  <2>1. Idle \in Calls
    BY DEF Idle, Calls
  <2>2. NoRead \in Readers
    BY DEF NoRead, Readers, Bases
  <2>3. IsFiniteSet(Held(cards))
    BY <1>2, FS_EmptySet
  <2> QED
    BY <1>1, <1>2, <2>1, <2>2, <2>3, BoundAssumption DEF Types, ApprovalStates
<1>7. EventsInv /\ NothingUnapproved
  BY <1>2 DEF EventsInv, NothingUnapproved
<1>8. ProposalsInv /\ ApprovalsInv /\ CallInv
  BY <1>1 DEF ProposalsInv, ApprovalsInv, CallInv, CallHolds, Idle
<1>9. ReaderInv /\ CacheInv
  BY <1>1 DEF ReaderInv, CacheInv, NoRead, NoCache
<1> QED
  BY <1>5, <1>6, <1>7, <1>8, <1>9 DEF IInv

-----------------------------------------------------------------------------
(* The steps that leave the cards and the history as they are. *)

LEMMA CallStep ==
  ASSUME IInv, NEW c \in Callers, NEW s \in Calls,
         call' = [call EXCEPT ![c] = s]
  PROVE  /\ call' \in [Callers -> Calls] /\ call'[c] = s
         /\ \A d \in Callers \ {c} : call'[d] = call[d]
BY DEF IInv, Types

LEMMA CallFacts ==
  ASSUME IInv, NEW c \in Callers
  PROVE  /\ call[c] \in Calls /\ CallHolds(c)
         /\ call[c].pc # "idle" => call[c].request \in Requests
         /\ call[c].request \in Requests \cup {None}
BY DEF IInv, Types, CallInv, CallHolds, Calls

LEMMA IdleParts == Idle \in Calls /\ Idle.pc = "idle"
BY DEF Idle, Calls

\* Proposals stay, once made, and approvals are only added to.
FilesFollow ==
  \A q \in Requests :
    /\ proposals[q] # None => proposals'[q] = proposals[q]
    /\ approvals[q] # "unregistered" =>
         /\ approvals'[q] # "unregistered"
         /\ approvals[q] = "approved" => approvals'[q] = "approved"
         /\ approvals[q] = "not_required" =>
              approvals'[q] \in {"not_required", "approved"}

LEMMA CallKeeps ==
  ASSUME IInv, FilesFollow, NEW d \in Callers, call'[d] = call[d]
  PROVE  CallHolds(d)'
BY CallFacts DEF CallHolds, FilesFollow

\* A step of the facade.
LEMMA FacadeStep ==
  ASSUME IInv, NEW c \in Callers, NEW s \in Calls,
         call' = [call EXCEPT ![c] = s], CallHolds(c)', FilesFollow,
         proposals' \in [Requests -> Proposals \cup {None}], ProposalsInv',
         approvals' \in [Requests -> ApprovalStates], ApprovalsInv',
         made' \in 0..MaxCalls, announced' \subseteq Requests,
         UNCHANGED <<cards, history, reader, cache, reads>>
  PROVE  IInv'
<1>1. CallInv'
  BY CallStep, CallKeeps DEF CallInv
<1>2. \A i \in DOMAIN history : history[i].request \in Requests
  <2>1. \A i \in DOMAIN history : history[i] \in Events
    BY DEF IInv, Types
  <2> QED
    BY <2>1, EventParts
<1>3. EventsInv' /\ NothingUnapproved'
  <2>1. EventsInv'
    BY <1>2 DEF IInv, EventsInv, FilesFollow
  <2>2. NothingUnapproved'
    BY <1>2 DEF IInv, EventsInv, NothingUnapproved, ApprovalsInv, FilesFollow
  <2> QED
    BY <2>1, <2>2
<1>4. Types' /\ Computable(cards, history, history)'
  BY CallStep DEF IInv, Types
<1>5. ReaderInv' /\ CacheInv'
  BY DEF IInv, ReaderInv, CacheInv, CacheIsCurrent, Earlier, Signature
<1> QED
  BY <1>1, <1>3, <1>4, <1>5 DEF IInv

LEMMA ProposeStep ==
  ASSUME IInv, NEW c \in Callers, Propose(c)
  PROVE  IInv'
<1>0. PICK q \in Requests :
        /\ Begun(c)
        /\ \E p \in Proposable(q) :
           \E explicit \in BOOLEAN :
             /\ proposals' = [proposals EXCEPT ![q] = p]
             /\ call' = [call EXCEPT ![c] =
                  [Idle EXCEPT !.pc = "registering", !.request = q,
                               !.required = p.operation \in Sensitive \/ explicit]]
        /\ UNCHANGED <<cards, history, approvals, reader, cache, reads, announced>>
  BY DEF Propose
<1>11. PICK p \in Proposable(q) :
        \E explicit \in BOOLEAN :
          /\ proposals' = [proposals EXCEPT ![q] = p]
          /\ call' = [call EXCEPT ![c] =
               [Idle EXCEPT !.pc = "registering", !.request = q,
                            !.required = p.operation \in Sensitive \/ explicit]]
  BY <1>0
<1>1. PICK explicit \in BOOLEAN :
        /\ Begun(c)
        /\ proposals' = [proposals EXCEPT ![q] = p]
        /\ call' = [call EXCEPT ![c] =
             [Idle EXCEPT !.pc = "registering", !.request = q,
                          !.required = p.operation \in Sensitive \/ explicit]]
        /\ UNCHANGED <<cards, history, approvals, reader, cache, reads, announced>>
  BY <1>0, <1>11
<1>2. /\ p \in Proposals /\ p # None /\ p.refs \subseteq Existing
      /\ (p.operation = "retire") = (p.creates = None)
      /\ proposals[q] # None => p = proposals[q]
  <2>1. CASE proposals[q] # None
    BY <1>1, <2>1 DEF IInv, Types, ProposalsInv, Proposable
  <2>2. CASE proposals[q] = None
    <3>1. \/ p \in [operation : {"retire"}, refs : SUBSET Existing \ {{}},
                     creates : {None}, related : {{}}, born : {"live"}]
          \/ p \in [operation : {"merge", "distill"},
                     refs : SUBSET Existing \ {{}}, creates : Merged,
                     related : SUBSET Added, born : Births]
      BY <1>1, <2>2 DEF Proposable
    <3>0. p \in Proposals /\ p.refs \subseteq Existing
      BY <3>1, TypeParts, BoundAssumption DEF Proposals, Operations, Born
    <3>2. /\ p \in Proposals /\ p.refs \subseteq Existing
          /\ (p.operation = "retire") = (p.creates = None)
      BY <3>0, <3>1, BoundAssumption, NoneAssumption
    <3> QED
      BY <2>2, <3>2, NoneAssumption
  <2> QED
    BY <2>1, <2>2
<1> DEFINE s == [Idle EXCEPT !.pc = "registering", !.request = q,
                             !.required = p.operation \in Sensitive \/ explicit]
<1>3. /\ s \in Calls /\ s.pc = "registering" /\ s.request = q
      /\ p.operation \in Sensitive => s.required
  BY IdleParts DEF Calls
<1>4. call' = [call EXCEPT ![c] = s]
  BY <1>1
<1> HIDE DEF s
<1>5. /\ proposals' \in [Requests -> Proposals \cup {None}] /\ proposals'[q] = p
      /\ \A r \in Requests \ {q} : proposals'[r] = proposals[r]
  BY <1>1, <1>2 DEF IInv, Types
<1>6. FilesFollow
  BY <1>1, <1>2, <1>5 DEF FilesFollow
<1>7. Existing' = Existing
  BY <1>1 DEF Existing
<1>8. ProposalsInv'
  BY <1>2, <1>5, <1>7 DEF IInv, ProposalsInv
<1>9. ApprovalsInv' /\ approvals' \in [Requests -> ApprovalStates]
  BY <1>1, <1>2, <1>5 DEF IInv, Types, ApprovalsInv
<1>10. CallHolds(c)'
  BY <1>2, <1>3, <1>4, <1>5, CallStep DEF CallHolds
<1>13. made' \in 0..MaxCalls /\ announced' \subseteq Requests
  BY <1>1, BoundAssumption DEF Begun, IInv, Types
<1> QED
  BY <1>1, <1>3, <1>4, <1>5, <1>6, <1>8, <1>9, <1>10, <1>13, FacadeStep

LEMMA RegisterStep ==
  ASSUME IInv, NEW c \in Callers, Register(c)
  PROVE  IInv'
<1> DEFINE q == call[c].request
           new == IF approvals[q] # "unregistered" THEN approvals[q]
                  ELSE IF call[c].required THEN "pending" ELSE "not_required"
<1>1. /\ call[c].pc = "registering" /\ q \in Requests
      /\ proposals[q] # None
      /\ proposals[q].operation \in Sensitive => call[c].required
      /\ call' = [call EXCEPT ![c] = Idle]
      /\ UNCHANGED <<cards, history, proposals, reader, cache, made, reads>>
  BY CallFacts DEF Register, Return, CallHolds
<1>2. approvals' = [approvals EXCEPT ![q] = new]
  BY <1>1 DEF Register, IInv, Types
<1>0. announced' = IF call[c].required /\ new # "not_required"
                     THEN announced \cup {q} ELSE announced
  BY <1>1, <1>2 DEF Register, IInv, Types
<1>3. /\ new \in ApprovalStates /\ new # "unregistered"
      /\ new = "not_required" => proposals[q].operation \notin Sensitive
      /\ approvals[q] # "unregistered" => new = approvals[q]
  BY <1>1 DEF IInv, Types, ApprovalsInv, ApprovalStates
<1> HIDE DEF new
<1>4. /\ approvals' \in [Requests -> ApprovalStates] /\ approvals'[q] = new
      /\ \A r \in Requests \ {q} : approvals'[r] = approvals[r]
  BY <1>1, <1>2, <1>3 DEF IInv, Types
<1>5. FilesFollow
  BY <1>1, <1>3, <1>4 DEF FilesFollow
<1>6. ApprovalsInv'
  BY <1>0, <1>1, <1>3, <1>4 DEF IInv, ApprovalsInv, ApprovalStates
<1>7. /\ ProposalsInv' /\ proposals' \in [Requests -> Proposals \cup {None}]
      /\ made' \in 0..MaxCalls /\ announced' \subseteq Requests
  BY <1>0, <1>1 DEF IInv, Types, ProposalsInv, Existing
<1>8. CallHolds(c)'
  BY <1>1, IdleParts, CallStep DEF CallHolds
<1> QED
  BY <1>1, <1>4, <1>5, <1>6, <1>7, <1>8, IdleParts, FacadeStep

\* A call that goes on or ends and changes no file.
LEMMA MoveStep ==
  ASSUME IInv, NEW c \in Callers, NEW s \in Calls,
         call' = [call EXCEPT ![c] = s],
         \/ s.pc = "idle"
         \/ /\ s.request \in Requests
            /\ \/ s.pc = "approving" /\ approvals[s.request] = "pending"
               \/ /\ s.pc = "applying"
                  /\ approvals[s.request] \in {"not_required", "approved"},
         made' \in 0..MaxCalls,
         UNCHANGED <<cards, history, proposals, approvals, reader, cache, reads,
                     announced>>
  PROVE  IInv'
<1>1. CallHolds(c)'
  BY CallStep DEF CallHolds
<1>2. FilesFollow
  BY DEF FilesFollow
<1>3. /\ ProposalsInv' /\ proposals' \in [Requests -> Proposals \cup {None}]
      /\ ApprovalsInv' /\ approvals' \in [Requests -> ApprovalStates]
      /\ announced' \subseteq Requests
  BY DEF IInv, Types, ProposalsInv, ApprovalsInv, Existing
<1> QED
  BY <1>1, <1>2, <1>3, FacadeStep

LEMMA ApplyStep ==
  ASSUME IInv, NEW c \in Callers, Apply(c)
  PROVE  IInv'
<1>1. PICK q \in Requests, pc \in {"approving", "applying"} :
        /\ Start(c, q, pc)
        /\ pc = "approving" => approvals[q] = "pending"
        /\ pc = "applying" => approvals[q] \in {"not_required", "approved"}
  BY DEF Apply
<1> DEFINE s == [Idle EXCEPT !.pc = pc, !.request = q]
<1>2. s \in Calls /\ s.pc = pc /\ s.request = q
  BY IdleParts DEF Calls
<1>3. /\ call' = [call EXCEPT ![c] = s]
      /\ UNCHANGED <<cards, history, proposals, approvals, reader, cache, reads,
                     announced>>
  BY <1>1 DEF Start, files
<1> HIDE DEF s
<1>4. made' \in 0..MaxCalls
  BY <1>1, BoundAssumption DEF Start, Begun, IInv, Types
<1> QED
  BY <1>1, <1>2, <1>3, <1>4, MoveStep

LEMMA GiveUpStep ==
  ASSUME IInv, NEW c \in Callers, GiveUp(c)
  PROVE  IInv'
<1>1. /\ call' = [call EXCEPT ![c] = Idle]
      /\ UNCHANGED <<cards, history, proposals, approvals, reader, cache, reads,
                     announced>>
      /\ made' \in 0..MaxCalls
  BY DEF GiveUp, Return, files, IInv, Types
<1> QED
  BY <1>1, IdleParts, MoveStep

LEMMA ApproveStep ==
  ASSUME IInv, NEW c \in Callers, Approve(c)
  PROVE  IInv'
<1> DEFINE q == call[c].request
           s == [call[c] EXCEPT !.pc = "applying"]
<1>1. /\ call[c].pc = "approving" /\ q \in Requests
      /\ approvals[q] # "unregistered"
      /\ approvals' = [approvals EXCEPT ![q] = "approved"]
      /\ UNCHANGED <<cards, history, proposals, reader, cache, made, reads,
                     announced>>
  BY CallFacts DEF Approve, CallHolds
<1>2. s \in Calls /\ s.pc = "applying" /\ s.request = q
  BY CallFacts DEF Calls
<1>3. call' = [call EXCEPT ![c] = s]
  BY DEF Approve
<1> HIDE DEF s
<1>4. /\ approvals' \in [Requests -> ApprovalStates]
      /\ approvals'[q] = "approved"
      /\ \A r \in Requests \ {q} : approvals'[r] = approvals[r]
  BY <1>1 DEF IInv, Types, ApprovalStates
<1>5. FilesFollow
  BY <1>1, <1>4 DEF FilesFollow
<1>6. ApprovalsInv'
  BY <1>1, <1>4 DEF IInv, ApprovalsInv
<1>7. /\ ProposalsInv' /\ proposals' \in [Requests -> Proposals \cup {None}]
      /\ made' \in 0..MaxCalls /\ announced' \subseteq Requests
  BY <1>1 DEF IInv, Types, ProposalsInv, Existing
<1>8. CallHolds(c)'
  BY <1>1, <1>2, <1>3, <1>4, CallStep DEF CallHolds
<1> QED
  BY <1>1, <1>2, <1>3, <1>4, <1>5, <1>6, <1>7, <1>8, FacadeStep

-----------------------------------------------------------------------------
(* The steps that add to the cards or the history. *)

\* The files as a step leaves them: at most one more card, that fits.
Grown ==
  \E N \in SUBSET Cards, also \in SUBSET Existing :
    /\ Grows(CardRows(cards, history), CardRows(cards, history)', N)
    /\ ArchivedBy(history)' = ArchivedBy(history) \cup also

\* What a builder accepts fits the cards there are.
LEMMA BuildFits ==
  ASSUME IInv, NEW k \in Cards, NEW row \in Rows, BuildCard(k, row),
         NEW more, Grows(CardRows(cards, history), more, {k}), more[k] = row
  PROVE  Related(more)
<1> DEFINE rows == CardRows(cards, history)
           archived == ArchivedBy(history)
<1>1. Related(rows) /\ DOMAIN rows = Existing
  BY TypeParts
<1>2. /\ row.supersedes \cup row.related \subseteq DOMAIN rows
      /\ \A j \in row.supersedes : View(rows, archived, j).current
  BY <1>1 DEF BuildCard, Now
<1> HIDE DEF rows, archived
<1>3. Grows(rows, more, {k})
  BY DEF rows
<1>4. \A j \in {k} :
        /\ more[j].supersedes \cup more[j].related \subseteq DOMAIN rows
        /\ \A i \in more[j].supersedes : View(rows, archived, i).current
  BY <1>2
<1> QED
  BY <1>1, <1>3, <1>4, RelatedGrows

\* What was counted before is now too little.
LEMMA CountsGrow ==
  ASSUME IInv, UNCHANGED <<reader, cache>>, Signature' \in Nat \X Nat,
         \/ /\ Signature'[1] > Signature[1] /\ Signature'[2] = Signature[2]
            /\ UNCHANGED history
         \/ /\ Signature'[2] > Signature[2] /\ Signature'[1] = Signature[1]
            /\ UNCHANGED cards
  PROVE  ReaderInv' /\ CacheInv'
<1>1. /\ Signature \in Nat \X Nat
      /\ Signature[1] \in Nat /\ Signature[2] \in Nat
      /\ Signature'[1] \in Nat /\ Signature'[2] \in Nat
  BY TypeParts
<1>2. reader.key[1] \in Nat /\ reader.key[2] \in Nat
  BY DEF IInv, Types, Readers
<1>3. ReaderInv'
  BY <1>1, <1>2 DEF IInv, ReaderInv, Earlier
<1>4. CacheInv'
  <2> SUFFICES ASSUME cache.key # None
               PROVE  /\ cache.key \in Nat \X Nat
                      /\ cache.key[1] <= Signature'[1]
                      /\ cache.key[2] <= Signature'[2]
                      /\ cache.key # Signature'
    BY DEF CacheInv, CacheIsCurrent, Earlier
  <2>1. /\ cache.key \in Nat \X Nat
        /\ cache.key[1] \in Nat /\ cache.key[2] \in Nat
        /\ cache.key[1] <= Signature[1] /\ cache.key[2] <= Signature[2]
    BY DEF IInv, CacheInv, Earlier
  <2> QED
    BY <1>1, <2>1
<1> QED
  BY <1>3, <1>4

LEMMA AddCardStep ==
  ASSUME IInv, NEW k \in Added, AddCard(k)
  PROVE  IInv' /\ Grown
<1>1. PICK row \in Rows :
        /\ BuildCard(k, row)
        /\ cards' = [cards EXCEPT ![k] = row]
        /\ UNCHANGED <<history, proposals, approvals, call, reader, cache, made,
                       reads, announced>>
  BY BoundAssumption DEF AddCard, Rows, Born
<1>2. /\ k \in Cards \ Existing /\ OneEventEach(history)
      /\ cards \in Bases /\ history \in Seq(Events)
      /\ DOMAIN CardRows(cards, history) = Existing
  BY <1>1, TypeParts, BoundAssumption DEF BuildCard
<1>3. /\ cards' \in Bases
      /\ Held(cards') = Held(cards) \cup {k} /\ k \notin Held(cards)
      /\ Grows(CardRows(cards, history), CardRows(cards', history), {k})
      /\ CardRows(cards', history)[k] = row
  <2>1. /\ cards' \in Bases /\ cards'[k] = row
        /\ \A j \in Cards \ {k} : cards'[j] = cards[j]
    BY <1>1, <1>2 DEF Bases
  <2>2. k \in Cards \ Known(cards, history)
    BY <1>2 DEF Existing
  <2>3. /\ OneEventEach(history) /\ cards \in Bases /\ history \in Seq(Events)
        /\ cards'[k] # None
    BY <1>2, <2>1, RowParts
  <2>4. Grows(CardRows(cards, history), CardRows(cards', history), {k})
    BY <2>1, <2>2, <2>3, CardsGrow
  <2>5. CardRows(cards', history)[k] = cards'[k]
    BY <2>1, <2>2, <2>3, RowOfHeld
  <2>6. Held(cards') = Held(cards) \cup {k} /\ k \notin Held(cards)
    BY <2>1, <2>2, <2>3 DEF Held, Known
  <2> QED
    BY <2>1, <2>4, <2>5, <2>6
<1>4. Related(CardRows(cards', history))
  BY <1>1, <1>2, <1>3, BuildFits
<1>5. Existing' = Existing \cup {k} /\ DOMAIN CardRows(cards', history) = Existing'
  BY <1>1, <1>2, <1>3 DEF Existing, Known, Grows
<1>6. Types'
  <2>1. IsFiniteSet(Held(cards'))
    BY <1>3, FS_AddElement DEF IInv, Types
  <2> QED
    BY <1>1, <1>3, <2>1 DEF IInv, Types
<1>7. Computable(cards, history, history)'
  <2>1. Created(history) \subseteq Existing
    BY DEF Existing, Known
  <2>2. Held(cards') \cap Created(history) = {}
    BY <1>2, <1>3, <2>1 DEF IInv, Computable
  <2>3. ArchivedBy(history) \subseteq DOMAIN CardRows(cards', history)
    BY <1>2, <1>5 DEF IInv, Computable
  <2> QED
    BY <1>1, <1>4, <2>2, <2>3 DEF IInv, Computable, Related
<1>8. /\ EventsInv' /\ ProposalsInv' /\ ApprovalsInv' /\ CallInv'
      /\ NothingUnapproved'
  BY <1>1, <1>5 DEF IInv, EventsInv, ProposalsInv, ApprovalsInv, CallInv,
                    CallHolds, NothingUnapproved
<1>9. ReaderInv' /\ CacheInv'
  <2>1. /\ Cardinality(Held(cards)) \in Nat
        /\ Cardinality(Held(cards')) = Cardinality(Held(cards)) + 1
    BY <1>3, FS_AddElement, FS_CardinalityType DEF IInv, Types
  <2>2. Len(history) \in Nat
    BY <1>2
  <2>3. /\ Signature = <<Cardinality(Held(cards)), Len(history)>>
        /\ Signature' = <<Cardinality(Held(cards')), Len(history)>>
    BY <1>1 DEF Signature
  <2>4. /\ Signature' \in Nat \X Nat
        /\ Signature'[1] > Signature[1] /\ Signature'[2] = Signature[2]
    BY <2>1, <2>2, <2>3
  <2> QED
    BY <1>1, <2>4, CountsGrow
<1>10. Grown
  <2>1. ArchivedBy(history)' = ArchivedBy(history) \cup {}
    BY <1>1
  <2>2. CardRows(cards, history)' = CardRows(cards', history)
    BY <1>1
  <2> QED
    BY <1>2, <1>3, <2>1, <2>2 DEF Grown
<1> QED
  BY <1>4, <1>6, <1>7, <1>8, <1>9, <1>10 DEF IInv

\* What an application appends.
LEMMA EffectParts ==
  ASSUME IInv, NEW q \in Requests, proposals[q] # None, ApplyEffect(q)
  PROVE  \E e \in Events :
           /\ history' = Append(history, e)
           /\ e.request = q /\ e.archives \subseteq Existing
           /\ proposals[q].operation = "retire" => e.archives # {}
           /\ (proposals[q].operation = "retire") = (e.creates = None)
           /\ e.creates # None => e.row \in Rows /\ BuildCard(e.creates, e.row)
<1> DEFINE p == proposals[q]
<1>1. /\ p \in Proposals /\ p.refs \subseteq Existing /\ Existing \subseteq Cards
      /\ p.creates \in Cards \cup {None}
      /\ p.related \subseteq Cards /\ p.born \in Born
      /\ (p.operation = "retire") = (p.creates = None)
  BY TypeParts DEF IInv, Types, ProposalsInv, Proposals
<1>2. CASE p.operation = "retire"
  <2> DEFINE archives == {k \in p.refs : Now(k).active}
             e == Event(q, None, None, archives)
  <2>1. archives # {} /\ history' = Append(history, e)
    BY <1>2 DEF ApplyEffect
  <2>2. archives \subseteq Existing /\ archives \subseteq Cards
    BY <1>1
  <2> HIDE DEF archives
  <2>3. /\ e \in Events /\ e.request = q /\ e.archives = archives
        /\ e.creates = None
    BY <2>2 DEF Event, Events
  <2> HIDE DEF e
  <2> QED
    BY <1>2, <2>1, <2>2, <2>3
<1>3. CASE p.operation # "retire"
  <2> DEFINE row == CreatedBy(p)
             e == Event(q, p.creates, row, {})
  <2>1. BuildCard(p.creates, row) /\ history' = Append(history, e)
    BY <1>3 DEF ApplyEffect
  <2>2. row \in Rows
    BY <1>1 DEF CreatedBy, Rows
  <2> HIDE DEF row
  <2>3. /\ e \in Events /\ e.request = q /\ e.archives = {}
        /\ e.creates = p.creates /\ e.row = row
    BY <1>1, <2>2 DEF Event, Events
  <2> HIDE DEF e
  <2> QED
    BY <1>1, <1>3, <2>1, <2>2, <2>3
<1> QED
  BY <1>2, <1>3

LEMMA ApplyMaintenanceStep ==
  ASSUME IInv, NEW c \in Callers, ApplyMaintenance(c)
  PROVE  IInv' /\ Grown
<1> DEFINE q == call[c].request
           rows == CardRows(cards, history)
           more == CardRows(cards, history')
<1>1. /\ q \in Requests /\ approvals[q] \in {"not_required", "approved"}
      /\ ~ Applied(q) /\ proposals[q] # None /\ ApplyEffect(q)
      /\ call' = [call EXCEPT ![c] = Idle]
      /\ UNCHANGED <<cards, proposals, approvals, reader, cache, made, reads,
                     announced>>
  BY CallFacts DEF ApplyMaintenance, Return, CallHolds
<1>2. PICK e \in Events :
        /\ history' = Append(history, e)
        /\ e.request = q /\ e.archives \subseteq Existing
        /\ proposals[q].operation = "retire" => e.archives # {}
        /\ (proposals[q].operation = "retire") = (e.creates = None)
        /\ e.creates # None => e.row \in Rows /\ BuildCard(e.creates, e.row)
  BY <1>1, EffectParts
<1> DEFINE N == {e.creates} \ {None}
<1>3. /\ OneEventEach(history) /\ cards \in Bases /\ history \in Seq(Events)
      /\ DOMAIN rows = Existing /\ Existing \subseteq Cards /\ Related(rows)
  BY TypeParts
<1>4. e.creates \notin Existing /\ N \subseteq Cards
  BY <1>2, <1>3, EventParts, NoneAssumption DEF BuildCard
<1>5. /\ history' \in Seq(Events)
      /\ Len(history) \in Nat /\ Len(history') = Len(history) + 1
      /\ Len(history) + 1 \notin DOMAIN history
      /\ DOMAIN history' = DOMAIN history \cup {Len(history) + 1}
      /\ history'[Len(history) + 1] = e
      /\ \A i \in DOMAIN history : history'[i] = history[i]
  BY <1>2, <1>3
<1>6. /\ OneEventEach(history')
      /\ Created(history') = Created(history) \cup N
      /\ Grows(rows, more, N) /\ \A k \in N : more[k] = e.row
      /\ ArchivedBy(history') = ArchivedBy(history) \cup e.archives
  <2> DEFINE n == Len(history) + 1
  <2>1. /\ n \in DOMAIN history' /\ n \notin DOMAIN history
        /\ DOMAIN history' = DOMAIN history \cup {n} /\ history'[n] = e
        /\ \A i \in DOMAIN history : history'[i] = history[i]
    BY <1>5
  <2>2. e.creates \notin Known(cards, history)
    BY <1>4 DEF Existing
  <2>3. OneEventEach(history) /\ cards \in Bases /\ history \in Seq(Events)
    BY <1>3
  <2>4. history' \in Seq(Events)
    BY <1>5
  <2> HIDE DEF n, N
  <2>5. N = {e.creates} \ {None}
    BY DEF N
  <2>6. Grows(CardRows(cards, history), CardRows(cards, history'), N)
    BY <2>1, <2>2, <2>3, <2>4, <2>5, HistoryGrows
  <2>7. /\ OneEventEach(history')
        /\ Created(history') = Created(history) \cup N
        /\ \A k \in N : CardRows(cards, history')[k] = e.row
        /\ ArchivedBy(history') = ArchivedBy(history) \cup e.archives
    BY <2>1, <2>2, <2>3, <2>4, <2>5, <2>6, HistoryGrows
  <2> QED
    BY <2>6, <2>7
<1> HIDE DEF rows, more
<1>7. Related(more)
  <2>1. CASE N = {}
    BY <1>3, <1>6, <2>1 DEF Related, Grows
  <2>2. CASE N # {}
    <3>1. N = {e.creates} /\ e.creates # None /\ e.creates \in Cards
      BY <1>4, <2>2
    <3> QED
      BY <1>2, <1>6, <3>1, BuildFits DEF rows
  <2> QED
    BY <2>1, <2>2
<1>8. Existing' = Existing \cup N /\ DOMAIN more = Existing'
  BY <1>1, <1>3, <1>6 DEF Existing, Known, Grows
<1>9. Types'
  BY <1>1, <1>5, IdleParts, CallStep DEF IInv, Types
<1>10. Computable(cards, history, history)'
  <2>1. Held(cards) \cap Created(history') = {}
    <3>1. Held(cards) \subseteq Existing
      BY DEF Existing, Known
    <3> QED
      BY <1>4, <1>6, <3>1 DEF IInv, Computable
  <2>2. \A i, j \in DOMAIN history' :
          i # j => history'[i].request # history'[j].request
    BY <1>1, <1>2, <1>5 DEF IInv, Computable, Applied
  <2>3. ArchivedBy(history') \subseteq DOMAIN more
    BY <1>2, <1>3, <1>6, <1>8 DEF IInv, Computable, rows
  <2> QED
    BY <1>1, <1>6, <1>7, <2>1, <2>2, <2>3
    DEF Computable, Related, OneEventEach, more
<1>11. EventsInv'
  BY <1>1, <1>2, <1>5 DEF IInv, EventsInv
<1>12. NothingUnapproved'
  <2>1. proposals[q].operation \in Sensitive \/ q \in announced =>
          approvals[q] = "approved"
    BY <1>1 DEF IInv, ApprovalsInv
  <2> QED
    BY <1>1, <1>2, <1>5, <2>1 DEF IInv, NothingUnapproved
<1>13. ProposalsInv' /\ ApprovalsInv'
  BY <1>1, <1>8 DEF IInv, ProposalsInv, ApprovalsInv
<1>14. CallInv'
  <2>1. FilesFollow
    BY <1>1 DEF FilesFollow
  <2>2. CallHolds(c)'
    BY <1>1, IdleParts, CallStep DEF CallHolds
  <2> QED
    BY <1>1, <2>1, <2>2, IdleParts, CallStep, CallKeeps DEF CallInv
<1>15. ReaderInv' /\ CacheInv'
  <2>1. Cardinality(Held(cards)) \in Nat
    BY FS_CardinalityType DEF IInv, Types
  <2>2. /\ Signature = <<Cardinality(Held(cards)), Len(history)>>
        /\ Signature' = <<Cardinality(Held(cards)), Len(history')>>
    BY <1>1 DEF Signature
  <2>3. /\ Signature' \in Nat \X Nat
        /\ Signature'[2] > Signature[2] /\ Signature'[1] = Signature[1]
    BY <1>5, <2>1, <2>2
  <2> QED
    BY <1>1, <2>3, CountsGrow
<1>16. Grown
  <2>1. CardRows(cards, history)' = more
    BY <1>1 DEF more
  <2> QED
    BY <1>2, <1>4, <1>6, <2>1 DEF Grown, rows
<1> QED
  BY <1>9, <1>10, <1>11, <1>12, <1>13, <1>14, <1>15, <1>16 DEF IInv

-----------------------------------------------------------------------------
(* The steps of the reader. *)

LEMMA ReaderStep ==
  ASSUME IInv, reader' \in Readers, reads' \in 0..MaxReads,
         ReaderInv', CacheInv',
         UNCHANGED <<cards, history, proposals, approvals, call, made, announced>>
  PROVE  IInv'
<1>1. Types'
  BY DEF IInv, Types
<1>2. Computable(cards, history, history)' /\ NothingUnapproved'
  BY DEF IInv, NothingUnapproved
<1>3. EventsInv' /\ ProposalsInv' /\ ApprovalsInv' /\ CallInv'
  BY DEF IInv, EventsInv, ProposalsInv, Existing, ApprovalsInv, CallInv,
         CallHolds
<1> QED
  BY <1>1, <1>2, <1>3 DEF IInv

LEMMA CacheKeeps ==
  ASSUME IInv, UNCHANGED <<cards, history, cache>>
  PROVE  CacheInv'
BY DEF IInv, CacheInv, CacheIsCurrent, Earlier, Signature

LEMMA ReadCardsStep ==
  ASSUME IInv, ReadCards
  PROVE  IInv'
<1>1. /\ reads' = reads + 1 /\ reads < MaxReads
      /\ reader' = [reader EXCEPT !.pc = "history", !.key = Signature,
                                  !.base = cards]
      /\ UNCHANGED <<cards, history, proposals, approvals, call, cache, made,
                     announced>>
  BY DEF ReadCards, files
<1>2. /\ reader' \in Readers /\ reader'.pc = "history"
      /\ reader'.key = Signature /\ reader'.base = cards
  BY <1>1, TypeParts DEF IInv, Types, Readers
<1>3. ReaderInv'
  <2>1. Signature[1] <= Signature[1] /\ Signature[2] <= Signature[2]
    BY TypeParts
  <2>2. Signature' = Signature
    BY <1>1 DEF Signature
  <2> QED
    BY <1>1, <1>2, <2>1, <2>2 DEF ReaderInv, Earlier
<1>4. reads' \in 0..MaxReads
  BY <1>1, BoundAssumption DEF IInv, Types
<1> QED
  BY <1>1, <1>2, <1>3, <1>4, CacheKeeps, ReaderStep

LEMMA ReadHistoryStep ==
  ASSUME IInv, ReadHistory
  PROVE  IInv'
<1>1. /\ reader.pc = "history"
      /\ reader' = [reader EXCEPT !.pc = "again", !.h = history]
      /\ UNCHANGED <<cards, history, proposals, approvals, call, cache, made,
                     reads, announced>>
  BY DEF ReadHistory, files
<1>2. /\ reader' \in Readers /\ reader'.pc = "again"
      /\ reader'.key = reader.key /\ reader'.base = reader.base
      /\ reader'.h = history
  BY <1>1, TypeParts DEF IInv, Types, Readers
<1>3. ReaderInv'
  BY <1>1, <1>2 DEF IInv, ReaderInv, Earlier, Signature
<1>4. reads' \in 0..MaxReads
  BY <1>1 DEF IInv, Types
<1> QED
  BY <1>1, <1>2, <1>3, <1>4, CacheKeeps, ReaderStep

LEMMA ReadAgainStep ==
  ASSUME IInv, ReadAgain
  PROVE  IInv'
<1>1. /\ reader.pc = "again" /\ reader' = NoRead
      /\ UNCHANGED <<cards, history, proposals, approvals, call, made, reads,
                     announced>>
  BY DEF ReadAgain, files
<1>2. reader' \in Readers /\ reader'.pc = "idle"
  BY <1>1 DEF NoRead, Readers, Bases
<1>3. ReaderInv'
  BY <1>2 DEF ReaderInv
<1>4. CacheInv'
  <2>1. CASE UNCHANGED cache
    BY <1>1, <2>1, CacheKeeps
  <2>2. CASE /\ reader.key = Signature
             /\ cache' = Fresh(Views(reader.base, reader.h, history))
    <3>1. reader.base = cards /\ reader.h = history
      BY <1>1, <2>2 DEF IInv, ReaderInv
    <3>2. /\ cache'.key = Signature
          /\ cache'.views = Views(cards, history, history)
      BY <2>2, <3>1 DEF Fresh
    <3>3. /\ Signature' = Signature /\ Signature \in Nat \X Nat
          /\ Signature[1] <= Signature[1] /\ Signature[2] <= Signature[2]
      BY <1>1, TypeParts DEF Signature
    <3> QED
      BY <1>1, <3>2, <3>3 DEF CacheInv, CacheIsCurrent, Earlier
  <2> QED
    BY <2>1, <2>2 DEF ReadAgain
<1>5. reads' \in 0..MaxReads
  BY <1>1 DEF IInv, Types
<1> QED
  BY <1>1, <1>2, <1>3, <1>4, <1>5, ReaderStep

-----------------------------------------------------------------------------

LEMMA NextIInv == IInv /\ [Next]_storeVars => IInv'
<1> SUFFICES ASSUME IInv, [Next]_storeVars PROVE IInv'
  OBVIOUS
<1>1. ASSUME NEW k \in Added, AddCard(k)
      PROVE  IInv'
  BY <1>1, AddCardStep
<1>2. ASSUME NEW c \in Callers,
             \/ Propose(c) \/ Register(c) \/ Apply(c) \/ Approve(c)
             \/ ApplyMaintenance(c) \/ GiveUp(c)
      PROVE  IInv'
  BY <1>2, ProposeStep, RegisterStep, ApplyStep, ApproveStep,
     ApplyMaintenanceStep, GiveUpStep
<1>3. CASE ReadCards \/ ReadHistory \/ ReadAgain
  BY <1>3, ReadCardsStep, ReadHistoryStep, ReadAgainStep
<1>4. CASE UNCHANGED storeVars
  <2>1. UNCHANGED <<cards, history, proposals, approvals, call, reader, cache,
                    made, reads, announced>>
    BY <1>4 DEF storeVars
  <2>2. ReaderInv' /\ CacheInv'
    BY <2>1, CacheKeeps DEF IInv, ReaderInv, Earlier, Signature
  <2>3. reader' \in Readers /\ reads' \in 0..MaxReads
    BY <2>1 DEF IInv, Types
  <2> QED
    BY <2>1, <2>2, <2>3, ReaderStep
<1> QED
  BY <1>1, <1>2, <1>3, <1>4 DEF Next

LEMMA InductiveInvariant == Spec => []IInv
BY InitIInv, NextIInv, PTL DEF Spec

\* Nothing that is added, proposed, approved or applied, in whatever order,
\* makes the card views raise: no card is known twice, none has two successors,
\* no proposal is applied twice (memory.py).  The property includes the module's
\* type invariant.
THEOREM ViewsAlwaysCompute == Spec => []ViewsCompute
<1>1. IInv => ViewsCompute
  BY ImpliesProperties
<1> QED
  BY <1>1, InductiveInvariant, PTL

\* A maintenance proposal that the adapter classifies as sensitive, or that a
\* proposer was told awaits approval, is applied only with its approval on
\* record (maintenance.py).
THEOREM SensitiveNeedsApproval == Spec => []NothingUnapproved
<1>1. IInv => NothingUnapproved
  BY DEF IInv
<1> QED
  BY <1>1, InductiveInvariant, PTL

\* Views that _card_view_index finds under the signature of the files are the
\* views of the files, whatever was appended while they were computed.
THEOREM CacheNeverStale == Spec => []CacheIsCurrent
<1>1. IInv => CacheIsCurrent
  BY ImpliesProperties
<1> QED
  BY <1>1, InductiveInvariant, PTL

\* No append brings a card back that was superseded or archived (memory.py).
THEOREM NothingComesBack == Spec => HistoryOnlyGrows
<1> DEFINE A == <<cards, history>>' # <<cards, history>> =>
                  \A k \in Existing :
                    /\ Now(k)'.current => Now(k).current
                    /\ Now(k)'.active => Now(k).active
<1>1. ASSUME IInv, Grown, NEW k \in Existing
      PROVE  /\ Now(k)'.current => Now(k).current
             /\ Now(k)'.active => Now(k).active
  <2>1. PICK N \in SUBSET Cards, also \in SUBSET Existing :
          /\ Grows(CardRows(cards, history), CardRows(cards, history)', N)
          /\ ArchivedBy(history)' = ArchivedBy(history) \cup also
    BY <1>1 DEF Grown
  <2>2. k \in DOMAIN CardRows(cards, history)
    BY <1>1, TypeParts
  <2>3. Now(k)' = View(CardRows(cards, history)', ArchivedBy(history)', k)
    BY DEF Now
  <2> QED
    BY <2>1, <2>2, <2>3, ViewsOnlyGrow DEF Now
<1>2. IInv /\ [Next]_storeVars => [A]_storeVars
  <2> SUFFICES ASSUME IInv, Next, <<cards, history>>' # <<cards, history>>
               PROVE  Grown
    BY <1>1
  <2>1. ASSUME NEW k \in Added, AddCard(k)
        PROVE  Grown
    BY <2>1, AddCardStep
  <2>2. ASSUME NEW c \in Callers, ApplyMaintenance(c)
        PROVE  Grown
    BY <2>2, ApplyMaintenanceStep
  <2>3. ASSUME NEW c \in Callers,
               \/ Propose(c) \/ Register(c) \/ Apply(c) \/ Approve(c)
               \/ GiveUp(c)
        PROVE  FALSE
    BY <2>3 DEF Propose, Register, Apply, Start, Approve, GiveUp, files
  <2>4. ~ (ReadCards \/ ReadHistory \/ ReadAgain)
    BY DEF ReadCards, ReadHistory, ReadAgain, files
  <2> QED
    BY <2>1, <2>2, <2>3, <2>4 DEF Next
<1> QED
  BY <1>2, InductiveInvariant, PTL DEF Spec, HistoryOnlyGrows

=============================================================================
