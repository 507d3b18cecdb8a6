------------------------------- MODULE Feeds -------------------------------
(***************************************************************************)
(* FeedManager (feed.go): subscriptions with a cursor, checked by the      *)
(* background poller and by the run button, which do not exclude each      *)
(* other.  CheckFeed holds fm.mu only while it moves the cursor: it        *)
(* fetches, compares and creates jobs without it.  The other methods hold  *)
(* it from entry to return.                                                *)
(*                                                                         *)
(* All feeds watch one source, whose items are 1, 2, 3... in the order of  *)
(* publication; its document shows the newest ones.  A cursor is the GUID  *)
(* and the title of an item: GUIDs are all different, titles need not be.  *)
(* Items that match no filter would change nothing and are left out.       *)
(***************************************************************************)
EXTENDS Integers, Sequences, FiniteSets, FiniteSetsExt

CONSTANTS
  MaxItems,  \* bound: items the source publishes
  Shown,     \* how many items its document shows
  Rollover,  \* the limit when the cursor's item is gone (5 in the code)
  Repeaters, \* bound: the items that may bear the title of an earlier one
  MaxFeeds,  \* bound: identifiers of feeds
  MaxLives   \* bound: lives of the process

ASSUME FeedsAssumption ==
  /\ MaxItems \in Nat /\ MaxFeeds \in Nat /\ MaxLives \in Nat \ {0}
  /\ Shown \in Nat \ {0} /\ Rollover \in Nat \ {0}

Feed    == 1..MaxFeeds
Item    == 1..MaxItems
Checker == {"poller", "button"}

VARIABLES
  published,   \* how many items the source has published
  title,       \* the first item with the title of an item, which may be itself
  live,        \* the keys of fm.feeds
  feedCounter,
  cursor,      \* the item of f.LastGUID and f.LastTitle, or 0 for two empty strings
  paused,      \* the feeds with f.Paused
  row,         \* the feeds table: a cursor and a paused flag, or NoRow
  toPoll,      \* what is left of the poller's activeFeeds
  at,          \* where each checker is in CheckFeed
  feed,        \* the feed it checks
  newest,      \* the newest item of the document it fetched
  todo,        \* the new items it has not handled yet
  handled,     \* the items it has handled, whose jobs live under its context
  fate,        \* of an item: none yet, handled (its job works or is through, or
               \* there is none), or severed: its job's context ended before it
  since,       \* what the feed was to start after
  excused,     \* items the rollover rule passes over
  repeated,    \* pairs of a feed and an item handled more than once
  overlapped,  \* feeds checked twice at a time, or when the process died
  lives

sourceVars == <<published, title>>
tableVars == <<live, feedCounter, cursor, paused, row>>
checkVars == <<at, feed, newest, todo, handled>>
historyVars == <<since, excused, repeated, overlapped>>
vars == <<sourceVars, tableVars, toPoll, checkVars, fate, historyVars, lives>>

NoRow == [cursor |-> -1, paused |-> FALSE]

Titles ==
  {t \in [Item -> Item] : \A i \in Item :
     t[i] <= i /\ t[t[i]] = t[i] /\ (t[i] # i => i \in Repeaters)}

Init ==
  /\ published \in 0..MaxItems /\ title \in Titles
  /\ live = {} /\ feedCounter = 0
  /\ cursor = [f \in Feed |-> 0] /\ paused = {}
  /\ row = [f \in Feed |-> NoRow]
  /\ toPoll = {}
  /\ at = [c \in Checker |-> "idle"] /\ feed = [c \in Checker |-> 0]
  /\ newest = [c \in Checker |-> 0] /\ todo = [c \in Checker |-> {}]
  /\ handled = [c \in Checker |-> {}]
  /\ fate = [f \in Feed |-> [i \in Item |-> "none"]]
  /\ since = [f \in Feed |-> 0] /\ excused = [f \in Feed |-> {}]
  /\ repeated = {} /\ overlapped = {}
  /\ lives = 1

\* saveStateLocked: every feed of the table, as it is after the method.
SaveFeeds(rows) ==
  row' = [f \in Feed |-> IF f \in live'
                           THEN [cursor |-> cursor'[f], paused |-> f \in paused']
                           ELSE rows[f]]

Publish ==
  /\ published < MaxItems
  /\ published' = published + 1
  /\ UNCHANGED <<title, tableVars, toPoll, checkVars, fate, historyVars, lives>>
-----------------------------------------------------------------------------
(* The commands. *)

\* AddFeed fetches the document, so that what it shows already is passed over.
AddFeed ==
  /\ feedCounter < MaxFeeds
  /\ feedCounter' = feedCounter + 1
  /\ live' = live \cup {feedCounter'}
  /\ cursor' = [cursor EXCEPT ![feedCounter'] = published]
  /\ paused' = paused \ {feedCounter'}
  /\ since' = [since EXCEPT ![feedCounter'] = published]
  /\ excused' = [excused EXCEPT ![feedCounter'] = {}]
  /\ fate' = [fate EXCEPT ![feedCounter'] = [i \in Item |-> "none"]]
  /\ repeated' = {p \in repeated : p[1] # feedCounter'}
  /\ overlapped' = overlapped \ {feedCounter'}
  /\ UNCHANGED <<sourceVars, toPoll, checkVars, lives>>
  /\ SaveFeeds(row)

PauseFeed(f) ==
  /\ f \in live
  /\ paused' = paused \cup {f}
  /\ UNCHANGED <<sourceVars, live, feedCounter, cursor, toPoll, checkVars, fate,
                 historyVars, lives>>
  /\ SaveFeeds(row)

ResumeFeed(f) ==
  /\ f \in live
  /\ paused' = paused \ {f}
  /\ UNCHANGED <<sourceVars, live, feedCounter, cursor, toPoll, checkVars, fate,
                 historyVars, lives>>
  /\ SaveFeeds(row)

DeleteFeed(f) ==
  /\ f \in live
  /\ live' = live \ {f}
  /\ UNCHANGED <<sourceVars, feedCounter, cursor, paused, toPoll, checkVars, fate,
                 historyVars, lives>>
  /\ SaveFeeds([row EXCEPT ![f] = NoRow])
-----------------------------------------------------------------------------
(* CheckFeed. *)

Begin(c, f) ==
  /\ at[c] = "idle"
  /\ at' = [at EXCEPT ![c] = "fetching"]
  /\ feed' = [feed EXCEPT ![c] = f]
  /\ overlapped' = IF \E d \in Checker : at[d] # "idle" /\ feed[d] = f
                     THEN overlapped \cup {f} ELSE overlapped
  /\ UNCHANGED <<sourceVars, tableVars, newest, todo, handled, fate, since, excused,
                 repeated, lives>>

\* The poller's tick takes the feeds that are not paused.
TickPaused ==
  /\ at["poller"] = "idle" /\ toPoll = {}
  /\ toPoll' = live \cap paused
  /\ UNCHANGED <<sourceVars, tableVars, checkVars, fate, historyVars, lives>>
Tick ==
  /\ at["poller"] = "idle" /\ toPoll = {}
  /\ toPoll' = live \ paused
  /\ UNCHANGED <<sourceVars, tableVars, checkVars, fate, historyVars, lives>>

\* It checks them later, paused and deleted ones too.
Poll(f) == f \in toPoll /\ toPoll' = toPoll \ {f} /\ Begin("poller", f)

\* The run button.
PressRun(f) == f \in live /\ Begin("button", f) /\ UNCHANGED toPoll

Shows(n) == {i \in 1..n : i > n - Shown}

\* The source answers.  An error and an empty document end the check.
Fetch(c) ==
  /\ at[c] = "fetching" /\ published > 0
  /\ newest' = [newest EXCEPT ![c] = published]
  /\ at' = [at EXCEPT ![c] = "comparing"]
  /\ UNCHANGED <<sourceVars, tableVars, toPoll, feed, todo, handled, fate,
                 historyVars, lives>>

FetchFails(c) ==
  /\ at[c] = "fetching"
  /\ at' = [at EXCEPT ![c] = "idle"] /\ feed' = [feed EXCEPT ![c] = 0]
  /\ UNCHANGED <<sourceVars, tableVars, toPoll, newest, todo, handled, fate,
                 historyVars, lives>>

\* The items of the document n that are taken for the cursor k: its own, and
\* every one with its title.
Matches(k, n) == {i \in Shows(n) : k # 0 /\ (i = k \/ title[i] = title[k])}

\* Those above the newest match; without a match, as many as a rule allows.
UnmatchedItems(k, n) == IF k = 0 THEN {n} ELSE {i \in Shows(n) : i > n - Rollover}
NewSkippingOldest(k, n) ==
  IF Matches(k, n) = {} THEN UnmatchedItems(k, n)
  ELSE {i \in Shows(n) : \A m \in Matches(k, n) : m + 1 < i}
NewItems(k, n) ==
  IF Matches(k, n) = {} THEN UnmatchedItems(k, n)
  ELSE {i \in Shows(n) : \A m \in Matches(k, n) : m < i}

\* The cursor is read without fm.mu, after the document was fetched.
Compare(c) ==
  LET f   == feed[c]
      k   == cursor[f]
      new == NewItems(k, newest[c])
  IN /\ at[c] = "comparing"
     /\ at' = [at EXCEPT ![c] = "handling"]
     /\ todo' = [todo EXCEPT ![c] = new]
     /\ excused' = [excused EXCEPT ![f] = @ \cup
          IF Matches(k, newest[c]) # {} THEN {} ELSE {i \in 1..newest[c] : i > k} \ new]
     /\ UNCHANGED <<sourceVars, tableVars, toPoll, feed, newest, handled, fate, since,
                    repeated, overlapped, lives>>

\* createFeedMirrorJob or createFeedLeechJob, oldest item first.  An item without
\* a link, a torrent while the engine is off, and an error of CreateJob leave it
\* handled without a job; the check goes on, and its cursor passes the item.
Handle(c) ==
  LET f == feed[c]
      i == Min(todo[c])
  IN /\ at[c] = "handling" /\ todo[c] # {}
     /\ todo' = [todo EXCEPT ![c] = @ \ {i}]
     /\ handled' = [handled EXCEPT ![c] = @ \cup {i}]
     /\ repeated' = IF fate[f][i] = "none" THEN repeated ELSE repeated \cup {<<f, i>>}
     /\ fate' = [fate EXCEPT ![f][i] = "handled"]
     /\ UNCHANGED <<sourceVars, tableVars, toPoll, at, feed, newest, since, excused,
                    overlapped, lives>>

\* The cursor moves; then the checker cancels the context of the check, which
\* is the parent of the contexts of the jobs the check created: those of the
\* items that have a job which is not through by then, late, die of it.
Ends(c) ==
  LET f == feed[c] IN
  /\ at[c] = "handling" /\ todo[c] = {}
  /\ at' = [at EXCEPT ![c] = "idle"] /\ feed' = [feed EXCEPT ![c] = 0]
  /\ newest' = [newest EXCEPT ![c] = 0] /\ handled' = [handled EXCEPT ![c] = {}]
  /\ \E late \in SUBSET handled[c] :
       fate' = [fate EXCEPT ![f] = [i \in Item |->
                  IF i \in late THEN "severed" ELSE @[i]]]
  /\ UNCHANGED <<sourceVars, live, feedCounter, paused, toPoll, todo, historyVars,
                 lives>>
ForgetCursor(c) == Ends(c) /\ UNCHANGED cursor /\ SaveFeeds(row)
SaveUnlisted(c) ==
  /\ Ends(c)
  /\ cursor' = [cursor EXCEPT ![feed[c]] = newest[c]]
  /\ row' = [row EXCEPT ![feed[c]] =
               [cursor |-> newest[c], paused |-> feed[c] \in paused]]
MoveCursor(c) ==
  /\ Ends(c)
  /\ cursor' = [cursor EXCEPT ![feed[c]] = newest[c]]
  /\ SaveFeeds(row)

\* DB.LoadFeeds: the feeds that have a row.
LoadFeeds == {f \in Feed : row[f] # NoRow}

\* A crash, and SetDB of the next life.  Jobs are recovered (JobRecovery).
Restart ==
  /\ lives < MaxLives
  /\ lives' = lives + 1
  /\ live' = LoadFeeds
  /\ feedCounter' = IF live' = {} THEN 0 ELSE Max(live')
  /\ cursor' = [f \in Feed |-> IF f \in live' THEN row[f].cursor ELSE 0]
  /\ paused' = {f \in live' : row[f].paused}
  /\ toPoll' = {}
  /\ at' = [c \in Checker |-> "idle"] /\ feed' = [c \in Checker |-> 0]
  /\ newest' = [c \in Checker |-> 0]
  /\ todo' = [c \in Checker |-> {}] /\ handled' = [c \in Checker |-> {}]
  /\ overlapped' = overlapped \cup {feed[c] : c \in {d \in Checker : at[d] # "idle"}}
  /\ UNCHANGED <<sourceVars, row, fate, since, excused, repeated>>
-----------------------------------------------------------------------------
CheckStep(c) == Fetch(c) \/ FetchFails(c) \/ Compare(c) \/ Handle(c) \/ MoveCursor(c)

Next ==
  \/ Publish
  \/ AddFeed
  \/ \E f \in Feed : PauseFeed(f) \/ ResumeFeed(f) \/ DeleteFeed(f)
  \/ Tick
  \/ \E f \in Feed : Poll(f) \/ PressRun(f)
  \/ \E c \in Checker : CheckStep(c)
  \/ Restart

Spec == Init /\ [][Next]_vars

\* The ticker fires and the poller's goroutine goes on; of infinitely many
\* fetches by the poller some succeed.
PollerStep == Tick \/ (\E f \in Feed : Poll(f)) \/ CheckStep("poller")
FairSpec == Spec /\ WF_vars(PollerStep) /\ SF_vars(Fetch("poller"))
-----------------------------------------------------------------------------
TypeOK ==
  /\ published \in 0..MaxItems /\ title \in Titles
  /\ live \subseteq Feed /\ feedCounter \in 0..MaxFeeds
  /\ cursor \in [Feed -> 0..MaxItems] /\ paused \subseteq Feed
  /\ row \in [Feed -> [cursor : -1..MaxItems, paused : BOOLEAN]]
  /\ toPoll \subseteq Feed
  /\ at \in [Checker -> {"idle", "fetching", "comparing", "handling"}]
  /\ feed \in [Checker -> 0..MaxFeeds]
  /\ newest \in [Checker -> 0..MaxItems]
  /\ todo \in [Checker -> SUBSET Item] /\ handled \in [Checker -> SUBSET Item]
  /\ fate \in [Feed -> [Item -> {"none", "handled", "severed"}]]
  /\ since \in [Feed -> 0..MaxItems] /\ excused \in [Feed -> SUBSET Item]
  /\ repeated \subseteq Feed \X Item /\ overlapped \subseteq Feed
  /\ lives \in 1..MaxLives

\* What a restart would read is what the table holds, for every feed of the
\* table and no other: no check in flight brings a deleted feed back or undoes
\* a pause.
RowsFollowFeeds ==
  /\ TypeOK
  /\ \A f \in Feed :
       row[f] = IF f \in live THEN [cursor |-> cursor[f], paused |-> f \in paused]
                ELSE NoRow

\* An item between an earlier one and the next of the same title, or that one.
Namesake(i) ==
  \E h, j \in 1..published : h < i /\ i <= j /\ title[h] = title[j]

\* No item is lost but to a repeated title: whatever the checks in flight, the
\* pauses and the restarts, an item the cursor has passed was handled, unless
\* the rollover rule or the rule for an empty cursor passed over it, or a later
\* item bears the title of an earlier one.
NothingSkipped ==
  \A f \in live : \A i \in Item :
    since[f] < i /\ i <= cursor[f] =>
      fate[f][i] # "none" \/ i \in excused[f] \/ Namesake(i)

\* What the comment of CheckFeed says, for every source: it "executes matches
\* that appeared since LastGUID" (feed.go:481).
MatchesSinceLastGUID ==
  \A f \in live : \A i \in Item :
    since[f] < i /\ i <= cursor[f] => fate[f][i] # "none" \/ i \in excused[f]

\* Without overlapping checks and without a crash in the middle of a check no
\* item is handled twice, and none that the feed showed when it was added.
HandledOnce ==
  \A f \in live \ overlapped :
    /\ \A i \in Item : <<f, i>> \notin repeated
    /\ \A i \in Item : fate[f][i] # "none" => i > since[f]

\* The same for any checks (feed.go:351 "so past items are not
\* flood-downloaded"): what was shown when the feed was added is not handled.
PastItemsStay ==
  \A f \in live : \A i \in Item : fate[f][i] # "none" => i > since[f]

\* The job of a match is left to work once the cursor has passed it
\* (telegram.go:2711 "Future matches will trigger automatically.").
MatchesDelivered ==
  \A f \in live : \A i \in Item : i <= cursor[f] => fate[f][i] # "severed"

\* Item i is still in the document and feed f has not handled it, and no exception
\* of NothingSkipped applies to it.
Waits(f, i) ==
  /\ f \in live \ paused /\ since[f] < i /\ i \in Shows(published)
  /\ fate[f][i] = "none" /\ i \notin excused[f] /\ ~Namesake(i)

\* No item waits for ever: unless it leaves the document first, or its feed is
\* paused or deleted, a check of the poller handles it.
ItemsHandled == \A f \in Feed : \A i \in Item : []<>~Waits(f, i)

=============================================================================
