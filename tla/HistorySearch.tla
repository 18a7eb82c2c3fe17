---------------------------- MODULE HistorySearch ----------------------------
(* The history search (storage/search-store.ts, migrations 004 and 006) and  *)
(* the page that walks through its results (web api.ts usePage).  Documents  *)
(* are the sessions, and the tasks that have none, the most recently active  *)
(* first.  A session is matched through a text projection that triggers mark *)
(* dirty and the indexer rebuilds; a cursor is good for one generation of    *)
(* the searched data.                                                        *)
EXTENDS TaskStore, SequencesExt

CONSTANTS
  Hits,        \* the events whose text holds the searched term
  HitTitles,   \* the title values that hold it
  Title,       \* the field of a task that is searched
  Times,       \* times of activity, 0 when there is none
  Rank,        \* the order of the document identifiers
  PageSize

ASSUME SearchAssumption ==
  /\ Hits \subseteq Events /\ Title \in Fields
  /\ Times \subseteq Nat /\ 0 \in Times
  /\ PageSize \in Nat \ {0}
  /\ IsFiniteSet(Sessions) /\ IsFiniteSet(Tasks)
  /\ Rank \in [Sessions \cup Tasks -> Nat]
  /\ \A d, e \in Sessions \cup Tasks : Rank[d] = Rank[e] => d = e  \* ids are unique

VARIABLES
  activity,    \* sessions.last_event_at
  projection,  \* session_search: the events in the projected text
  dirty,       \* session_search.dirty
  generation,  \* search_state
  tab          \* the search page: its cursors, position and what it shows

searchTables == <<activity, projection, dirty, generation>>
searchVars == <<searchTables, tab>>

FirstPage == [cursors |-> <<None>>, index |-> 1, shown |-> None, asked |-> FALSE]

SearchInit ==
  /\ activity = [s \in Sessions |-> 0]
  /\ projection = [s \in Sessions |-> {}]
  /\ dirty = [s \in Sessions |-> TRUE]   \* no row: coalesce(dirty, 1)
  /\ generation = 0
  /\ tab = FirstPage

EventsOf(s, stored) == {e \in stored : sessionOf[e] = s}

-----------------------------------------------------------------------------
(* Triggers and the projection                                               *)

\* Any searched table that changes bumps the generation.
Bump == generation' = IF UNCHANGED <<task, owner, bound, events, activity>>
                      THEN generation ELSE generation + 1

\* Weakened form: there is no trigger on the events.
MarkNone(s) == dirty[s]

MarkDirty(s) == dirty[s] \/ EventsOf(s, events') # EventsOf(s, events)

\* saveInnerObservation and clearIndex only mark.
Marked == /\ dirty' = [s \in Sessions |-> MarkDirty(s)]
          /\ UNCHANGED projection

\* commitIndexPage rebuilds the text of its session and sets its last activity.
Indexed(s, at) ==
  /\ activity' = [activity EXCEPT ![s] = at]
  /\ projection' = [projection EXCEPT ![s] = EventsOf(s, events')]
  /\ dirty' = [dirty EXCEPT ![s] = FALSE]

-----------------------------------------------------------------------------
(* searchHistory                                                             *)

Documents == Sessions \cup {t \in Tasks : task[t] # None /\ LinkedTo(t, owner) = {}}

ActivityOf(d) == IF d \in Sessions THEN activity[d] ELSE 0

Before(d, e) ==
  ActivityOf(d) > ActivityOf(e) \/ (ActivityOf(d) = ActivityOf(e) /\ Rank[d] < Rank[e])

\* The documents of a set, one after the other.
InOrder(S) ==
  [n \in 1..Cardinality(S) |-> CHOOSE d \in S : Cardinality({e \in S : Before(e, d)}) = n - 1]

TaskOf(d) == IF d \in Sessions THEN owner[d] ELSE d

TitleHit(d) == TaskOf(d) # None /\ task[TaskOf(d)].body[Title] \in HitTitles

TextOf(s) == IF dirty[s] THEN EventsOf(s, events) ELSE projection[s]

Matches(d) == TitleHit(d) \/ (d \in Sessions /\ TextOf(d) \cap Hits # {})

After(cursor) ==
  {d \in Documents : cursor = None \/
     ActivityOf(d) < cursor.activity \/ (ActivityOf(d) = cursor.activity /\ Rank[d] > cursor.rank)}

\* Weakened form: a cursor is followed whatever has changed since.
Followed(cursor) == TRUE

\* SEARCH_STALE otherwise.
Fresh(cursor) == cursor = None \/ cursor.generation = generation

Slice(s, size) == SubSeq(s, 1, IF Len(s) < size THEN Len(s) ELSE size)

Search(cursor) ==
  LET found == InOrder({d \in After(cursor) : Matches(d)})
      items == Slice(found, PageSize)
  IN [items |-> items, refused |-> FALSE,
      next  |-> IF Len(found) <= PageSize THEN None
                ELSE [generation |-> generation, activity |-> ActivityOf(Last(items)),
                      rank |-> Rank[Last(items)]]]

-----------------------------------------------------------------------------
(* The search page                                                           *)

\* useLoad: a new position drops what was shown, a reload of the same does not.
Ask(position) == tab' = [position EXCEPT !.asked = TRUE]

Look ==
  /\ tab.shown = None /\ ~tab.asked /\ Spend("look")
  /\ Ask(tab)
  /\ UNCHANGED <<tables, form, call, searchTables>>

Answer ==
  /\ tab.asked
  /\ tab' = [tab EXCEPT !.asked = FALSE,
       !.shown = IF Fresh(tab.cursors[tab.index]) THEN Search(tab.cursors[tab.index])
                 ELSE [items |-> <<>>, refused |-> TRUE, next |-> None]]
  /\ UNCHANGED <<storeVars, searchTables>>

\* Weakened form: the cursor of the page that is left is dropped.
KeptBefore(cursors, index) == SubSeq(cursors, 1, index - 1)

Kept(cursors, index) == SubSeq(cursors, 1, index)

NextPage ==
  /\ tab.shown # None /\ ~tab.asked
  /\ tab.shown.next # None /\ Spend("look")
  /\ Ask([tab EXCEPT !.cursors = Append(Kept(@, tab.index), tab.shown.next),
                     !.index = @ + 1, !.shown = None])
  /\ UNCHANGED <<tables, form, call, searchTables>>

PreviousPage ==
  /\ tab.index > 1 /\ ~tab.asked /\ Spend("look")
  /\ Ask([tab EXCEPT !.index = @ - 1, !.shown = None])
  /\ UNCHANGED <<tables, form, call, searchTables>>

\* The page the user is on is asked for again: after a reconnection, or with
\* "Refresh results" on the first page; the old answer stays on the screen.
ReloadPage ==
  /\ tab.shown # None /\ ~tab.asked /\ Spend("look")
  /\ Ask(tab)
  /\ UNCHANGED <<tables, form, call, searchTables>>

Restart ==
  /\ tab.index > 1 /\ ~tab.asked /\ Spend("look")
  /\ Ask(FirstPage)
  /\ UNCHANGED <<tables, form, call, searchTables>>

TabNext == Look \/ Answer \/ NextPage \/ PreviousPage \/ ReloadPage \/ Restart

-----------------------------------------------------------------------------
(* Properties                                                                *)

\* The answer to the n-th page is the n-th slice of the whole result, taken
\* from the events themselves at that moment, or a refusal: pages never skip
\* or repeat a document, whatever is indexed, imported, saved or linked
\* between two of them.
TrueMatches(d) == TitleHit(d) \/ (d \in Sessions /\ EventsOf(d, events) \cap Hits # {})

TrueSlice(n) ==
  LET all == InOrder({d \in Documents : TrueMatches(d)})
      end == n * PageSize
  IN SubSeq(all, end - PageSize + 1, IF Len(all) < end THEN Len(all) ELSE end)

PagesAreSlices ==
  [][tab.asked /\ ~tab'.asked /\ ~tab'.shown.refused
       => tab'.shown.items = TrueSlice(tab.index)]_tab
=============================================================================
