----------------------------- MODULE EntityPages -----------------------------
(***************************************************************************)
(* The entity list: basic_server's get_entities request and the scan       *)
(* behind it, EntitySnapshotQuery::list_entities                           *)
(* (src/source/basic_server.hpp, src/source/entity_snapshot.hpp).          *)
(*                                                                         *)
(* A request scans the engine's edict slots anew and cuts one page out of  *)
(* the entities that match.  The server keeps no cursor: a client that     *)
(* wants the whole list asks for page after page, and entities come and go *)
(* between two requests.  The game thread runs requests and game code in   *)
(* turn, so one request is one step.                                       *)
(***************************************************************************)
EXTENDS Integers, Sequences, FiniteSets

CONSTANTS
    MaxIndex,             \* edict slots 1..MaxIndex
    Classes,              \* class names entities have
    Free,                 \* the slot has no edict, or a free one
    Unnamed,              \* the edict has no class name
    kMaxEntityListLimit,  \* the handler's cap on a page
    kMaxPageLimit,        \* the scan's own cap
    MaxLimit,             \* limits a client asks for: 1..MaxLimit
    MaxChanges            \* entities that come or go during a listing

ASSUME ConstantsAssumption ==
    /\ MaxIndex \in Nat /\ MaxLimit \in Nat /\ MaxChanges \in Nat
    /\ Free \notin Classes /\ Unnamed \notin Classes /\ Free # Unnamed
    /\ kMaxEntityListLimit \in Nat \ {0} /\ kMaxPageLimit \in Nat
    /\ kMaxEntityListLimit <= kMaxPageLimit

VARIABLES
    edicts,   \* what each slot holds: a class, Unnamed or Free
    phase,    \* the client: "idle", "listing" or "done"
    filter,   \* the classes whose names contain the client's filter_class
    limit,    \* the limit it asks for
    reply,    \* the last reply: entities, total, offset and limit
    seen,     \* the entities on the pages of this listing, in order
    \* history, read by no step
    steady,   \* entities that have matched since the listing began
    removed, inserted  \* matching entities that went and came meanwhile

client == <<phase, filter, limit, reply, seen>>
vars == <<edicts, client, steady, removed, inserted>>

Indices == 1..MaxIndex
NoReply == [entities |-> <<>>, total |-> 0, offset |-> 0, limit |-> 0]

-----------------------------------------------------------------------------
(* EntitySnapshotQuery.                                                    *)

\* try_build_valid_summary: a used edict with a class name.
Valid(i) == edicts[i] \in Classes

\* matches_class_filter, a search that ignores case; f stands for the classes a
\* filter is part of, all of them for the empty one.
Matches(i, f) == edicts[i] \in f

\* IVEngineServer::GetEntityCount, which the scan takes for the last slot in use.
EntityCount ==
    IF \E i \in Indices : edicts[i] # Free
      THEN CHOOSE i \in Indices :
              edicts[i] # Free /\ \A j \in Indices : edicts[j] # Free => j <= i
      ELSE 0

CapPage(lim) == IF lim > kMaxPageLimit THEN kMaxPageLimit ELSE lim

\* Mutant: the page starts one entity late.
StartsAfter(matched, offset) == matched > offset

\* Mutant: the page starts one entity early.
StartsBefore(matched, offset) == matched + 1 >= offset

InPage(matched, offset) == matched >= offset

\* The scan after slot i: the entities matched and the page so far.
Scan(offset, lim, f) ==
    LET at[i \in 0..MaxIndex] ==
          IF i = 0 THEN [matched |-> 0, page |-> <<>>]
          ELSE LET before == at[i - 1]
               IN IF ~(Valid(i) /\ Matches(i, f)) THEN before
                  ELSE [matched |-> before.matched + 1,
                        page |-> IF InPage(before.matched, offset) /\ Len(before.page) < lim
                                   THEN Append(before.page, i) ELSE before.page]
    IN at[EntityCount]

LastTotal(scan) == scan.matched

\* One entity asked for by its index: a list of at most that one.
ListOne(offset, lim, id, f) ==
    LET found == id \in Indices /\ Valid(id) /\ Matches(id, f)
    IN [entities |-> IF found /\ offset = 0 /\ lim > 0 THEN <<id>> ELSE <<>>,
        total |-> IF found THEN 1 ELSE 0]

\* list_entities and the last_total it leaves.
ListEntities(offset, lim, id, f) ==
    LET from == IF offset < 0 THEN 0 ELSE offset
        capped == CapPage(lim)
        scan == Scan(from, capped, f)
    IN IF lim < 0 THEN [entities |-> <<>>, total |-> 0]
       ELSE IF id > 0 THEN ListOne(from, capped, id, f)
       ELSE [entities |-> scan.page, total |-> LastTotal(scan)]

-----------------------------------------------------------------------------
(* get_entities_request.                                                   *)

\* Mutant: the handler leaves the cap to the scan.
Uncapped(lim) == lim

CapLimit(lim) == IF lim > kMaxEntityListLimit THEN kMaxEntityListLimit ELSE lim

\* The reply repeats the offset and the limit that were used.
GetEntities(offset, lim, id, f) ==
    LET list == ListEntities(offset, CapLimit(lim), id, f)
    IN [entities |-> list.entities, total |-> list.total,
        offset |-> offset, limit |-> CapLimit(lim)]

-----------------------------------------------------------------------------
(* The client pages through the list.                                      *)

Init ==
    /\ edicts \in [Indices -> Classes \cup {Free, Unnamed}]
    /\ phase = "idle" /\ filter = {} /\ limit = 0 /\ reply = NoReply /\ seen = <<>>
    /\ steady = {} /\ removed = 0 /\ inserted = 0

Ask(offset, lim, f) ==
    LET page == GetEntities(offset, lim, 0, f)
        next == offset + Len(page.entities)
    IN /\ reply' = page
       /\ seen' = seen \o page.entities
       /\ phase' = IF page.entities = <<>> \/ next >= page.total THEN "done" ELSE "listing"

FirstPage ==
    /\ phase = "idle"
    /\ \E lim \in 1..MaxLimit, f \in SUBSET Classes :
          /\ limit' = lim /\ filter' = f
          /\ Ask(0, lim, f)
          /\ steady' = {i \in Indices : edicts[i] \in f}
    /\ UNCHANGED <<edicts, removed, inserted>>

NextPage ==
    /\ phase = "listing"
    /\ Ask(Len(seen), limit, filter)
    /\ UNCHANGED <<edicts, filter, limit, steady, removed, inserted>>

Finished == phase = "done" /\ UNCHANGED vars

-----------------------------------------------------------------------------
(* The game between two requests.                                          *)

Spawn(i) ==
    /\ phase = "listing" /\ removed + inserted < MaxChanges
    /\ edicts[i] = Free
    /\ \E c \in Classes \cup {Unnamed} :
          /\ edicts' = [edicts EXCEPT ![i] = c]
          /\ inserted' = IF c \in filter THEN inserted + 1 ELSE inserted
    /\ UNCHANGED <<client, steady, removed>>

Remove(i) ==
    /\ phase = "listing" /\ removed + inserted < MaxChanges
    /\ edicts[i] # Free
    /\ edicts' = [edicts EXCEPT ![i] = Free]
    /\ removed' = IF edicts[i] \in filter THEN removed + 1 ELSE removed
    /\ steady' = steady \ {i}
    /\ UNCHANGED <<client, inserted>>

Next ==
    \/ FirstPage \/ NextPage \/ Finished
    \/ \E i \in Indices : Spawn(i) \/ Remove(i)

Spec == Init /\ [][Next]_vars

-----------------------------------------------------------------------------
(* Properties.                                                             *)

\* The scan returns the slice of the matching entities, in the order of their
\* slots, that offset and limit ask for, and their number; negative arguments,
\* a limit over the cap and slots that are free or have no class included.
PageIsSlice ==
    \A f \in SUBSET Classes, offset \in -1..(MaxIndex + 1),
       lim \in -1..(kMaxPageLimit + 1), id \in 0..MaxIndex :
      LET all == {i \in Indices : edicts[i] \in f /\ id \in {0, i}}
          from == IF offset < 0 THEN 0 ELSE offset
          size == IF lim > kMaxPageLimit THEN kMaxPageLimit ELSE lim
          rank(i) == Cardinality({j \in all : j < i})
          list == ListEntities(offset, lim, id, f)
      IN IF lim < 0 THEN list.entities = <<>> /\ list.total = 0
         ELSE /\ list.total = Cardinality(all)
              /\ Len(list.entities) =
                    Cardinality({i \in all : rank(i) >= from /\ rank(i) < from + size})
              /\ \A k \in 1..Len(list.entities) :
                    list.entities[k] \in all /\ rank(list.entities[k]) = from + k - 1

\* A page shorter than the limit its reply repeats is the last one: the handler
\* caps what it repeats at least as low as the scan caps the page, so a client
\* may go on by that limit.
ShortPageIsLast ==
    Len(reply.entities) < reply.limit =>
        reply.offset + Len(reply.entities) >= reply.total

Twice == {k \in DOMAIN seen : seen[k] \in steady /\ \E j \in 1..(k - 1) : seen[j] = seen[k]}

\* Pages tile the list but for what changed under the client: a listing misses no more
\* of the entities that were there throughout than matching entities were removed while
\* it ran, and lists no more of them twice than matching entities were spawned.
OffByChangesOnly ==
    /\ phase = "done" =>
          Cardinality(steady \ {seen[k] : k \in DOMAIN seen}) <= removed
    /\ Cardinality(Twice) <= inserted
=============================================================================
