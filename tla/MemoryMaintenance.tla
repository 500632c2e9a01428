--------------------------- MODULE MemoryMaintenance ---------------------------
(***************************************************************************)
(* The memory cards and their maintenance: MemoryStore                     *)
(* (moonbite_plugin/memory.py) behind MemoryMaintenanceFacade              *)
(* (_memory_orchestration/maintenance.py).                                 *)
(*                                                                         *)
(* Three append-only files: the cards, the maintenance proposals, and the  *)
(* history of what was applied, which may add a card or archive some.  The *)
(* state of a card is derived from all of them.  Each mutator of the store *)
(* is atomic under its locks; the facade strings them together with the    *)
(* approvals, a fourth file under a lock of its own, and may die or be     *)
(* overtaken in between; readers take no lock, and cache what they derive. *)
(***************************************************************************)
EXTENDS Integers, Sequences, FiniteSets, SequencesExt

CONSTANTS
  Cards,       \* card identifiers
  Requests,    \* request identifiers; a request makes one proposal
  Callers,
  Sensitive,   \* operations the approval adapter wants approved
  Added,       \* bound: the cards that add_card makes, and that rows relate to
  Merged,      \* bound: the cards that proposals name
  Births,      \* bound: the statuses cards are added with
  MaxLinks,    \* bound: how many relations a card that is added has
  MaxNamed,    \* bound: how many cards a merge or a distill names
  MaxCalls,    \* bound: how many facade calls a run makes
  MaxReads,    \* bound: how many times the views are computed
  None

Operations == {"merge", "retire", "distill"}

ASSUME AdapterAssumption == Sensitive \subseteq Operations
ASSUME BoundAssumption ==
  /\ Added \cup Merged \subseteq Cards
  /\ Births \subseteq {"live", "historical", "archived"}
  /\ MaxLinks \in Nat /\ MaxNamed \in Nat
  /\ MaxCalls \in Nat /\ MaxReads \in Nat

VARIABLES
  cards,     \* the cards file: the row of each card it holds
  history,   \* the history file
  proposals, \* the maintenance file: the proposal of each request
  approvals, \* the approvals file, replayed
  call,      \* the state of each caller of the facade
  reader,    \* the state of a reader
  cache,     \* _card_view_cache
  made,      \* facade calls made
  reads,     \* reads made
  announced  \* the requests a caller was told await approval: no guard reads it

storeVars == <<cards, history, proposals, approvals, call, reader, cache, made,
               reads, announced>>
files == <<cards, history, proposals, approvals>>

\* MemoryCard: the statuses a card is born with stand for history_status and
\* lifecycle_status.
Born == {"live", "historical", "archived"}
Rows == [supersedes : SUBSET Cards, related : SUBSET Cards, born : Born]

\* Proposals name the cards they are about and the card they would create, with
\* relations and statuses of its own.
Proposals == [operation : Operations, refs : SUBSET Cards,
              creates : Cards \cup {None}, related : SUBSET Cards, born : Born]
Events == [request : Requests, creates : Cards \cup {None},
           row : Rows \cup {None}, archives : SUBSET Cards]

\* None stands for what there is none of.
ASSUME NoneAssumption ==
  None \notin Cards \cup Requests \cup Rows \cup Proposals \cup (Nat \X Nat)

\* (required, approved), or "unregistered".
ApprovalStates == {"unregistered", "not_required", "pending", "approved"}

-----------------------------------------------------------------------------
(* The views of the cards: _card_rows and _compute_card_views, of the cards  *)
(* as one read of the file gives them and of the history as two reads do.    *)

Held(base) == {k \in Cards : base[k] # None}
Created(h) == {h[i].creates : i \in DOMAIN h} \ {None}
Known(base, h) == Held(base) \cup Created(h)
CardRows(base, h) ==
  [k \in Known(base, h) |->
     IF base[k] # None
       THEN base[k]
       ELSE h[CHOOSE i \in DOMAIN h : h[i].creates = k].row]

\* Bug: the last event alone says what is archived.
ArchivedByLast(h) == IF h = <<>> THEN {} ELSE Last(h).archives

ArchivedBy(h) == UNION {h[i].archives : i \in DOMAIN h}

\* What would raise a StateError: a card twice, a relation to none, a card
\* superseded twice, a proposal applied twice.
Computable(base, h, again) ==
  LET rows == CardRows(base, h) IN
  /\ Held(base) \cap Created(h) = {}
  /\ \A i, j \in DOMAIN h :
       i # j => /\ h[i].request # h[j].request
                /\ h[i].creates = None \/ h[i].creates # h[j].creates
  /\ \A k \in DOMAIN rows :
       /\ rows[k].supersedes \cup rows[k].related \subseteq DOMAIN rows
       /\ \A j \in DOMAIN rows \ {k} :
            rows[j].supersedes \cap rows[k].supersedes = {}
  /\ ArchivedBy(again) \subseteq DOMAIN rows

View(rows, archived, k) ==
  LET superseders == {j \in DOMAIN rows : k \in rows[j].supersedes} IN
  [current |-> rows[k].born # "historical" /\ superseders = {},
   active |-> rows[k].born # "archived" /\ k \notin archived,
   superseded_by |-> superseders]
Views(base, h, again) ==
  LET rows == CardRows(base, h)
      archived == ArchivedBy(again)
  IN  [k \in DOMAIN rows |-> View(rows, archived, k)]

Signature == <<Cardinality(Held(cards)), Len(history)>>

-----------------------------------------------------------------------------

Calls == [pc : {"idle", "registering", "approving", "applying"},
          request : Requests \cup {None}, required : BOOLEAN]
Idle == [pc |-> "idle", request |-> None, required |-> FALSE]

\* An event applies the proposal of its request, and does something.
TypeOK ==
  /\ cards \in [Cards -> Rows \cup {None}]
  /\ \A i \in DOMAIN history :
       /\ history[i] \in Events
       /\ proposals[history[i].request] # None
       /\ LET p == proposals[history[i].request] IN
            /\ p.operation = "retire" => history[i].archives # {}
            /\ (p.operation = "retire") = (history[i].creates = None)
  /\ proposals \in [Requests -> Proposals \cup {None}]
  /\ approvals \in [Requests -> ApprovalStates]
  /\ \A q \in Requests : approvals[q] # "unregistered" => proposals[q] # None
  /\ call \in [Callers -> Calls]
  /\ made \in 0..MaxCalls /\ reads \in 0..MaxReads
  /\ announced \subseteq Requests

NoRead == [pc |-> "idle", key |-> <<0, 0>>,
           base |-> [k \in Cards |-> None], h |-> <<>>]
NoCache == [key |-> None, views |-> None]

Init ==
  /\ cards = [k \in Cards |-> None]
  /\ history = <<>>
  /\ proposals = [q \in Requests |-> None]
  /\ approvals = [q \in Requests |-> "unregistered"]
  /\ call = [c \in Callers |-> Idle]
  /\ reader = NoRead
  /\ cache = NoCache
  /\ made = 0 /\ reads = 0
  /\ announced = {}

-----------------------------------------------------------------------------
(* The store. *)

Existing == Known(cards, history)
Now(k) == View(CardRows(cards, history), ArchivedBy(history), k)

\* Bug: what is superseded need not be current.
BuildOverHistory(k, row) ==
  /\ k \notin Existing
  /\ row.supersedes \cup row.related \subseteq Existing
  /\ row.supersedes # {} => row.born # "historical"
  /\ Computable(cards, history, history)

\* _build_card, under card_mutation_lock.
BuildCard(k, row) ==
  /\ k \notin Existing
  /\ row.supersedes \cup row.related \subseteq Existing
  /\ row.supersedes # {} => row.born # "historical"
  /\ \A j \in row.supersedes : Now(j).current /\ Now(j).active
  /\ Computable(cards, history, history)

AddCard(k) ==
  \E row \in [supersedes : SUBSET Added, related : SUBSET Added,
             born : Births] :
    /\ Cardinality(row.supersedes) + Cardinality(row.related) <= MaxLinks
    /\ BuildCard(k, row)
    /\ cards' = [cards EXCEPT ![k] = row]
    /\ UNCHANGED <<history, proposals, approvals, call, reader, cache, made, reads,
                   announced>>

Applied(q) == \E i \in DOMAIN history : history[i].request = q

Event(q, creates, row, archives) ==
  [request |-> q, creates |-> creates, row |-> row, archives |-> archives]

CreatedBy(p) ==
  [supersedes |-> IF p.operation = "merge" THEN p.refs ELSE {},
   related |-> IF p.operation = "merge" THEN p.related
                                        ELSE p.related \cup p.refs,
   born |-> p.born]

\* What apply_maintenance appends: nothing that the cards, as they are now, do
\* not allow.
ApplyEffect(q) ==
  LET p == proposals[q]
      archives == {k \in p.refs : Now(k).active}
  IN  IF p.operation = "retire"
        THEN /\ archives # {} /\ Computable(cards, history, history)
             /\ history' = Append(history, Event(q, None, None, archives))
        ELSE /\ BuildCard(p.creates, CreatedBy(p))
             /\ history' = Append(history,
                                  Event(q, p.creates, CreatedBy(p), {}))

-----------------------------------------------------------------------------
(* The facade. *)

Return(c) == call' = [call EXCEPT ![c] = Idle]
Begun(c) == call[c].pc = "idle" /\ made < MaxCalls /\ made' = made + 1

\* propose: the store's proposal comes first.  The request's proposal is found
\* again if it is this one.  The evidence must exist; the relations of the card
\* to be are looked at only when it is made.
Proposable(q) ==
  IF proposals[q] # None
    THEN {proposals[q]}
    ELSE LET refs == SUBSET Existing \ {{}} IN
         [operation : {"retire"}, refs : refs, creates : {None},
          related : {{}}, born : {"live"}]
         \cup {p \in [operation : {"merge", "distill"}, refs : refs,
                      creates : Merged, related : SUBSET Added, born : Births] :
                 Cardinality(p.refs) + Cardinality(p.related) <= MaxNamed}

Propose(c) ==
  \E q \in Requests :
    /\ Begun(c)
    /\ Computable(cards, history, history)
    /\ \E p \in Proposable(q) :
       \E explicit \in BOOLEAN :
         /\ proposals' = [proposals EXCEPT ![q] = p]
         /\ call' = [call EXCEPT ![c] =
              [Idle EXCEPT !.pc = "registering", !.request = q,
                           !.required = p.operation \in Sensitive \/ explicit]]
    /\ UNCHANGED <<cards, history, approvals, reader, cache, reads, announced>>

\* Bug: a proposal that is not approved yet is classified anew.
RegisterAgain(c) ==
  LET q == call[c].request IN
  /\ call[c].pc = "registering"
  /\ approvals' = [approvals EXCEPT ![q] =
       IF @ = "approved" THEN @
       ELSE IF call[c].required THEN "pending" ELSE "not_required"]
  /\ announced' = IF call[c].required THEN announced \cup {q} ELSE announced
  /\ Return(c)
  /\ UNCHANGED <<cards, history, proposals, reader, cache, made, reads>>

\* The first call to get here classifies the proposal, whoever made it; one that
\* classifies otherwise raises, and its caller is told nothing.
Register(c) ==
  LET q == call[c].request
      registered == approvals[q] # "unregistered"
  IN
  /\ call[c].pc = "registering"
  /\ approvals' = [approvals EXCEPT ![q] =
       IF registered THEN @
       ELSE IF call[c].required THEN "pending" ELSE "not_required"]
  /\ announced' = IF call[c].required /\ approvals'[q] # "not_required"
                    THEN announced \cup {q} ELSE announced
  /\ Return(c)
  /\ UNCHANGED <<cards, history, proposals, reader, cache, made, reads>>

Start(c, q, pc) ==
  /\ Begun(c)
  /\ call' = [call EXCEPT ![c] = [Idle EXCEPT !.pc = pc, !.request = q]]
  /\ UNCHANGED <<files, reader, cache, reads, announced>>

\* apply: an unregistered proposal is refused, one that awaits its approval is
\* returned as pending unless the call brings the evidence.
Apply(c) ==
  \E q \in Requests :
    \/ approvals[q] = "pending" /\ Start(c, q, "approving")
    \/ approvals[q] \in {"not_required", "approved"} /\ Start(c, q, "applying")

Approve(c) ==
  /\ call[c].pc = "approving"
  /\ approvals' = [approvals EXCEPT ![call[c].request] = "approved"]
  /\ call' = [call EXCEPT ![c].pc = "applying"]
  /\ UNCHANGED <<cards, history, proposals, reader, cache, made, reads,
                 announced>>

\* apply_maintenance, under both locks of the store.
ApplyMaintenance(c) ==
  LET q == call[c].request IN
  /\ call[c].pc = "applying"
  /\ ~ Applied(q) /\ proposals[q] # None
  /\ ApplyEffect(q)
  /\ Return(c)
  /\ UNCHANGED <<cards, proposals, approvals, reader, cache, made, reads,
                 announced>>

\* A call that raises (for the want of the permission its operation takes, say),
\* that finds its work done, or whose process dies.
GiveUp(c) ==
  /\ call[c].pc # "idle"
  /\ Return(c)
  /\ UNCHANGED <<files, reader, cache, made, reads, announced>>

-----------------------------------------------------------------------------
(* The reader: _card_view_index, one read of a file at a time. *)

ReadCards ==
  /\ reader.pc = "idle" /\ cache.key # Signature /\ reads < MaxReads
  /\ reads' = reads + 1
  /\ reader' = [reader EXCEPT !.pc = "history", !.key = Signature,
                              !.base = cards]
  /\ UNCHANGED <<files, call, cache, made, announced>>

ReadHistory ==
  /\ reader.pc = "history"
  /\ reader' = [reader EXCEPT !.pc = "again", !.h = history]
  /\ UNCHANGED <<files, call, cache, made, reads, announced>>

Fresh(views) == [key |-> reader.key, views |-> views]

\* Bug: the signature is taken once the files are read.
CacheLate ==
  /\ reader.pc = "again"
  /\ reader' = NoRead
  /\ cache' = IF Computable(reader.base, reader.h, history)
                THEN [key |-> Signature,
                      views |-> Views(reader.base, reader.h, history)]
                ELSE cache
  /\ UNCHANGED <<files, call, made, reads, announced>>

\* The second read of the history completes the views, or raises; they are
\* kept only if neither file has changed since the first.
ReadAgain ==
  /\ reader.pc = "again"
  /\ reader' = NoRead
  /\ cache' = IF /\ Computable(reader.base, reader.h, history)
                 /\ reader.key = Signature
                THEN Fresh(Views(reader.base, reader.h, history))
                ELSE cache
  /\ UNCHANGED <<files, call, made, reads, announced>>

Next ==
  \/ \E k \in Added : AddCard(k)
  \/ \E c \in Callers :
       \/ Propose(c) \/ Register(c) \/ Apply(c) \/ Approve(c)
       \/ ApplyMaintenance(c) \/ GiveUp(c)
  \/ ReadCards \/ ReadHistory \/ ReadAgain

Spec == Init /\ [][Next]_storeVars

-----------------------------------------------------------------------------
(* Properties. *)

\* Whatever is added and applied between a proposal and its application, the
\* files go on making sense together: no card has two successors, no proposal
\* is applied twice.  Otherwise every read of the memory raises for good.
ViewsCompute == TypeOK /\ Computable(cards, history, history)

\* What the adapter classifies as sensitive, and what a proposer was told awaits
\* approval, is applied only with the approval on record, whoever else proposes
\* it and whatever dies between a proposal and its registration.  (A proposer
\* that dies before it registers has announced nothing: its own classification
\* is lost with it.)
NothingUnapproved ==
  \A i \in DOMAIN history :
    LET q == history[i].request IN
    /\ approvals[q] \in {"not_required", "approved"}
    /\ proposals[q].operation \in Sensitive \/ q \in announced =>
         approvals[q] = "approved"

\* Views found in the cache are those of the files as they are.
CacheIsCurrent ==
  cache.key = Signature => cache.views = Views(cards, history, history)

\* What was superseded or archived never comes back.
HistoryOnlyGrows ==
  [][<<cards, history>>' # <<cards, history>> =>
       \A k \in Existing :
         /\ Now(k)'.current => Now(k).current
         /\ Now(k)'.active => Now(k).active]_storeVars

=============================================================================
