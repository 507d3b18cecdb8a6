----------------------------- MODULE FeedsProofs -----------------------------
(***************************************************************************)
(* What holds of FeedManager (feed.go) for any number of feeds, items and  *)
(* restarts and any interleaving of the poller and the run button: the     *)
(* database follows the table, no item is lost, and none is handled twice  *)
(* where checks do not overlap.                                            *)
(***************************************************************************)
EXTENDS Feeds, TLAPS, WellFoundedInduction

\* Identifiers in use are behind the counter; a check in flight knows its feed
\* and, once it has fetched, a document; only a check that handles items has
\* items, each of them handled or yet to be handled.
CheckInv ==
  /\ \A f \in live \cup toPoll : f <= feedCounter
  /\ \A c \in Checker :
       /\ at[c] # "idle" => feed[c] \in Feed /\ feed[c] <= feedCounter
       /\ at[c] \in {"comparing", "handling"} => newest[c] \in 1..published
       /\ at[c] # "handling" => todo[c] = {} /\ handled[c] = {}
       /\ at[c] = "handling" =>
            /\ handled[c] \cap todo[c] = {} /\ \A i \in todo[c] : i <= newest[c]
            /\ \A i \in handled[c] : i <= newest[c] /\ fate[feed[c]][i] # "none"

\* Handled, passed over by a rule, or lost to a repeated title.
Seen(f, i) == fate[f][i] # "none" \/ i \in excused[f] \/ Namesake(i)

\* Of the items up to the cursor of a feed, deleted feeds included, and up to
\* the document of a check, none is lost.
SkipInv ==
  /\ \A f \in Feed : \A i \in Item : since[f] < i /\ i <= cursor[f] => Seen(f, i)
  /\ \A c \in Checker : at[c] = "handling" =>
       \A i \in Item : since[feed[c]] < i /\ i <= newest[c] =>
         Seen(feed[c], i) \/ i \in todo[c]

Checks(c, f) == at[c] # "idle" /\ feed[c] = f

\* Where no checks overlap, one check at most has a feed; its items are ahead
\* of the cursor and what was handled is behind it or handled by that check.
OnceInv ==
  \A f \in live \ overlapped :
    /\ since[f] <= cursor[f] /\ cursor[f] <= published
    /\ \A c, d \in Checker : Checks(c, f) /\ Checks(d, f) => c = d
    /\ \A c \in Checker : Checks(c, f) =>
         /\ at[c] \in {"comparing", "handling"} => cursor[f] <= newest[c]
         /\ \A i \in todo[c] : cursor[f] < i
    /\ \A i \in Item : <<f, i>> \notin repeated
    /\ \A i \in Item : fate[f][i] # "none" =>
         /\ since[f] < i
         /\ i <= cursor[f] \/ \E c \in Checker : Checks(c, f) /\ i \in handled[c]

FeedsInv == RowsFollowFeeds /\ CheckInv /\ SkipInv /\ OnceInv
-----------------------------------------------------------------------------
(* Smallest and largest elements. *)

\* A set of naturals that is not empty has a smallest element.
LEMMA MinOfNat ==
  ASSUME NEW S \in SUBSET Nat, S # {}
  PROVE  Min(S) \in S /\ \A y \in S : Min(S) <= y
<1> DEFINE R == OpToRel(<, Nat)
<1>1. IsWellFoundedOn(R, Nat)
  BY NatLessThanWellFounded, Zenon
<1>2. \A x, y \in Nat : x < y => <<x, y>> \in R
  BY DEF OpToRel
<1> HIDE DEF R
<1>3. PICK x \in S : \A y \in S : ~(<<y, x>> \in R)
  BY <1>1, WFMin
<1>4. ASSUME NEW y \in S PROVE x <= y
  <2>1. x \in Nat /\ y \in Nat
    OBVIOUS
  <2>2. ~(y < x)
    BY <1>2, <1>3, <2>1
  <2> QED BY <2>1, <2>2
<1> QED BY <1>4 DEF Min

\* A set of numbers up to a bound that is not empty has a largest element.
LEMMA MaxOfInterval ==
  ASSUME NEW n \in Nat, NEW S \in SUBSET (1..n), S # {}
  PROVE  Max(S) \in S /\ \A y \in S : y <= Max(S)
<1> DEFINE T == {n - x : x \in S}
<1>1. T \in SUBSET Nat
  OBVIOUS
<1>2. T # {}
  <2>1. PICK x \in S : TRUE
    OBVIOUS
  <2>2. n - x \in T
    BY <2>1
  <2> QED BY <2>2
<1>3. PICK x \in S : \A t \in T : n - x <= t
  <2> HIDE DEF T
  <2>1. PICK m \in T : \A t \in T : m <= t
    BY <1>1, <1>2, MinOfNat
  <2> QED BY <2>1 DEF T
<1>4. ASSUME NEW y \in S PROVE x >= y
  <2>1. n - x <= n - y
    BY <1>3
  <2>2. x \in Int /\ y \in Int
    OBVIOUS
  <2> QED BY <2>1, <2>2
<1>5. Max(S) \in S /\ \A y \in S : Max(S) >= y
  BY <1>4 DEF Max
<1>6. \A y \in S : y \in Int
  OBVIOUS
<1> QED BY <1>5, <1>6
-----------------------------------------------------------------------------
(* The database. *)

\* What a method saves at its end is the table, if the rows it leaves alone
\* belong to no feed.
LEMMA SavedRows ==
  ASSUME NEW rows, SaveFeeds(rows), \A f \in Feed : f \notin live' => rows[f] = NoRow,
         cursor' \in [Feed -> 0..MaxItems]
  PROVE  /\ row' \in [Feed -> [cursor : -1..MaxItems, paused : BOOLEAN]]
         /\ \A f \in Feed :
              row'[f] = IF f \in live'
                          THEN [cursor |-> cursor'[f], paused |-> f \in paused']
                          ELSE NoRow
<1>1. ASSUME NEW f \in Feed
      PROVE  row'[f] = IF f \in live'
                         THEN [cursor |-> cursor'[f], paused |-> f \in paused']
                         ELSE NoRow
  BY <1>1 DEF SaveFeeds
<1>2. ASSUME NEW f \in Feed
      PROVE  row'[f] \in [cursor : -1..MaxItems, paused : BOOLEAN]
  <2>1. cursor'[f] \in -1..MaxItems /\ -1 \in -1..MaxItems
    BY FeedsAssumption
  <2>2. (f \in paused') \in BOOLEAN
    OBVIOUS
  <2>3. [cursor |-> cursor'[f], paused |-> f \in paused']
          \in [cursor : -1..MaxItems, paused : BOOLEAN]
    BY <2>1, <2>2
  <2>4. NoRow \in [cursor : -1..MaxItems, paused : BOOLEAN]
    BY <2>1 DEF NoRow
  <2> QED BY <1>1, <2>3, <2>4
<1>3. row' = [f \in Feed |-> row'[f]]
  BY DEF SaveFeeds
<1> QED BY <1>1, <1>2, <1>3

\* Before the first feed.
LEMMA InitInv == Init => FeedsInv
<1> SUFFICES ASSUME Init PROVE FeedsInv
  OBVIOUS
<1>1. TypeOK
  BY FeedsAssumption DEF Init, TypeOK, NoRow
<1>2. RowsFollowFeeds
  BY <1>1 DEF Init, RowsFollowFeeds
<1>3. CheckInv /\ OnceInv
  BY DEF Init, CheckInv, OnceInv
<1>4. SkipInv
  BY <1>1 DEF Init, SkipInv, Item, TypeOK
<1> QED BY <1>2, <1>3, <1>4 DEF FeedsInv
-----------------------------------------------------------------------------
(* Every action keeps the invariant. *)

\* A new item only widens what a fetch may bring.
LEMMA PublishKeeps == ASSUME FeedsInv, Publish PROVE FeedsInv'
<1>1. /\ published < MaxItems /\ published' = published + 1
      /\ UNCHANGED <<title, live, feedCounter, cursor, paused, row, toPoll, at, feed,
                     newest, todo, handled, fate, since, excused, repeated, overlapped, lives>>
  BY DEF Publish, tableVars, checkVars, historyVars
<1>2. TypeOK /\ RowsFollowFeeds /\ CheckInv /\ SkipInv /\ OnceInv
  BY DEF FeedsInv, RowsFollowFeeds
<1>3. TypeOK'
  BY <1>1, <1>2, FeedsAssumption DEF TypeOK
<1>4. RowsFollowFeeds'
  BY <1>1, <1>2, <1>3 DEF RowsFollowFeeds
<1>5. CheckInv'
  BY <1>1, <1>2 DEF CheckInv, TypeOK
<1>6. SkipInv'
  <2>1. \A i : Namesake(i) => Namesake(i)'
    BY <1>1, <1>2 DEF Namesake, TypeOK
  <2> QED BY <1>1, <1>2, <2>1 DEF SkipInv, Seen
<1>7. OnceInv'
  BY <1>1, <1>2 DEF OnceInv, Checks, TypeOK
<1> QED BY <1>4, <1>5, <1>6, <1>7 DEF FeedsInv

\* A new feed takes an identifier nobody uses; it starts after what is shown.
LEMMA AddFeedKeeps == ASSUME FeedsInv, AddFeed PROVE FeedsInv'
<1> DEFINE n == feedCounter + 1
<1>1. /\ feedCounter < MaxFeeds /\ feedCounter' = n /\ live' = live \cup {n}
      /\ cursor' = [cursor EXCEPT ![n] = published]
      /\ paused' = paused \ {n}
      /\ since' = [since EXCEPT ![n] = published]
      /\ excused' = [excused EXCEPT ![n] = {}]
      /\ fate' = [fate EXCEPT ![n] = [i \in Item |-> "none"]]
      /\ repeated' = {p \in repeated : p[1] # n}
      /\ overlapped' = overlapped \ {n}
      /\ UNCHANGED <<published, title, toPoll, at, feed, newest, todo, handled, lives>>
      /\ SaveFeeds(row)
  BY DEF AddFeed, sourceVars, checkVars
<1>2. TypeOK /\ RowsFollowFeeds /\ CheckInv /\ SkipInv /\ OnceInv
  BY DEF FeedsInv, RowsFollowFeeds
<1>3. /\ n \in Feed /\ n \notin live /\ n > feedCounter
      /\ \A c \in Checker : at[c] # "idle" => feed[c] # n
  BY <1>1, <1>2, FeedsAssumption DEF TypeOK, CheckInv, Feed
<1>4. feedCounter' \in 0..MaxFeeds /\ feedCounter \in Nat
  BY <1>1, <1>2, FeedsAssumption DEF TypeOK
<1> HIDE DEF n
<1>5. /\ cursor' \in [Feed -> 0..MaxItems] /\ since' \in [Feed -> 0..MaxItems]
      /\ fate' \in [Feed -> [Item -> {"none", "handled", "severed"}]]
      /\ excused' \in [Feed -> SUBSET Item]
  BY <1>1, <1>2, <1>3 DEF TypeOK
<1>6. /\ \A f \in Feed : f # n =>
           /\ cursor'[f] = cursor[f] /\ since'[f] = since[f]
           /\ fate'[f] = fate[f] /\ excused'[f] = excused[f]
           /\ f \in overlapped' <=> f \in overlapped
           /\ \A i \in Item : <<f, i>> \in repeated' <=> <<f, i>> \in repeated
      /\ cursor'[n] = published /\ since'[n] = published
      /\ \A i \in Item : fate'[n][i] = "none" /\ <<n, i>> \notin repeated'
  BY <1>1, <1>2, <1>3 DEF TypeOK
<1>7. RowsFollowFeeds'
  <2>1. \A f \in Feed : f \notin live' => row[f] = NoRow
    BY <1>1, <1>2 DEF RowsFollowFeeds
  <2>2. /\ row' \in [Feed -> [cursor : -1..MaxItems, paused : BOOLEAN]]
        /\ \A f \in Feed : row'[f] = IF f \in live'
             THEN [cursor |-> cursor'[f], paused |-> f \in paused'] ELSE NoRow
    BY <1>1, <1>5, <2>1, SavedRows
  <2>3. TypeOK'
    BY <1>1, <1>2, <1>3, <1>4, <1>5, <2>2 DEF TypeOK
  <2> QED BY <2>2, <2>3 DEF RowsFollowFeeds
<1>8. CheckInv'
  <2>1. \A f \in live' \cup toPoll' : f <= feedCounter'
    BY <1>1, <1>2, <1>3, <1>4 DEF CheckInv, TypeOK, Feed, n
  <2>2. \A c \in Checker : at[c] # "idle" => feed[c] <= feedCounter'
    BY <1>1, <1>2, <1>4 DEF CheckInv, Feed, n
  <2>3. \A c \in Checker : at[c] = "handling" => fate'[feed[c]] = fate[feed[c]]
    BY <1>2, <1>3, <1>6 DEF CheckInv
  <2>4. ASSUME NEW c \in Checker
        PROVE  /\ at'[c] # "idle" => feed'[c] \in Feed /\ feed'[c] <= feedCounter'
               /\ at'[c] \in {"comparing", "handling"} => newest'[c] \in 1..published'
               /\ at'[c] # "handling" => todo'[c] = {} /\ handled'[c] = {}
               /\ at'[c] = "handling" =>
                    /\ handled'[c] \cap todo'[c] = {} /\ \A i \in todo'[c] : i <= newest'[c]
                    /\ \A i \in handled'[c] : i <= newest'[c] /\ fate'[feed'[c]][i] # "none"
    BY <1>1, <1>2, <2>2, <2>3 DEF CheckInv
  <2> QED BY <2>1, <2>4 DEF CheckInv
<1>9. SkipInv'
  <2>1. ASSUME NEW f \in Feed, NEW i \in Item, since'[f] < i, i <= cursor'[f]
        PROVE  Seen(f, i)'
    <3>1. f # n
      BY <1>2, <1>6, <2>1 DEF TypeOK, Item
    <3> QED BY <1>1, <1>2, <1>6, <2>1, <3>1 DEF SkipInv, Seen, Namesake
  <2>2. ASSUME NEW c \in Checker, at'[c] = "handling", NEW i \in Item,
               since'[feed'[c]] < i, i <= newest'[c]
        PROVE  Seen(feed[c], i)' \/ i \in todo'[c]
    <3>1. feed[c] # n /\ feed[c] \in Feed
      BY <1>1, <1>2, <1>3, <2>2 DEF CheckInv
    <3> QED BY <1>1, <1>2, <1>6, <2>2, <3>1 DEF SkipInv, Seen, Namesake
  <2> QED BY <1>1, <2>1, <2>2 DEF SkipInv, Seen, Namesake
<1>10. OnceInv'
  <2>1. SUFFICES ASSUME NEW f \in Feed, f \in live' \ overlapped'
        PROVE /\ since'[f] <= cursor'[f] /\ cursor'[f] <= published
              /\ \A c, d \in Checker : Checks(c, f) /\ Checks(d, f) => c = d
              /\ \A c \in Checker : Checks(c, f) =>
                   /\ at[c] \in {"comparing", "handling"} => cursor'[f] <= newest[c]
                   /\ \A i \in todo[c] : cursor'[f] < i
              /\ \A i \in Item : <<f, i>> \notin repeated'
              /\ \A i \in Item : fate'[f][i] # "none" =>
                   /\ since'[f] < i
                   /\ i <= cursor'[f] \/ \E c \in Checker : Checks(c, f) /\ i \in handled[c]
    <3>1. live' \subseteq Feed
      BY <1>1, <1>2, <1>3 DEF TypeOK
    <3> QED BY <1>1, <3>1 DEF OnceInv, Checks
  <2>2. CASE f = n
    <3>1. \A c \in Checker : ~Checks(c, n)
      BY <1>3 DEF Checks
    <3>2. published \in Int
      BY <1>2 DEF TypeOK
    <3>3. /\ cursor'[f] = published /\ since'[f] = published
          /\ \A i \in Item : fate'[f][i] = "none" /\ <<f, i>> \notin repeated'
          /\ \A c \in Checker : ~Checks(c, f)
      BY <1>6, <2>2, <3>1
    <3>4. since'[f] <= cursor'[f] /\ cursor'[f] <= published
      BY <3>2, <3>3
    <3> QED BY <3>3, <3>4, Zenon
  <2>3. CASE f # n
    <3>1. f \in live \ overlapped
      BY <1>1, <2>1, <2>3
    <3> QED BY <1>2, <1>6, <2>3, <3>1 DEF OnceInv
  <2> QED BY <2>2, <2>3
<1> QED BY <1>7, <1>8, <1>9, <1>10 DEF FeedsInv
\* Pausing, resuming and deleting leave the items alone.
LEMMA TableKeeps ==
  ASSUME FeedsInv, NEW f \in Feed, PauseFeed(f) \/ ResumeFeed(f) \/ DeleteFeed(f)
  PROVE  FeedsInv'
<1>1. /\ live' \subseteq live /\ paused' \subseteq paused \cup {f}
      /\ UNCHANGED <<published, title, feedCounter, cursor, toPoll, at, feed, newest, todo,
                     handled, fate, since, excused, repeated, overlapped, lives>>
  BY DEF PauseFeed, ResumeFeed, DeleteFeed, sourceVars, checkVars, historyVars
<1>2. TypeOK /\ RowsFollowFeeds /\ CheckInv /\ SkipInv /\ OnceInv
  BY DEF FeedsInv, RowsFollowFeeds
<1>3. PICK rows : /\ SaveFeeds(rows)
                  /\ \A g \in Feed : g \notin live' => rows[g] = NoRow
  <2>1. CASE DeleteFeed(f)
    <3> DEFINE rows == [row EXCEPT ![f] = NoRow]
    <3>1. SaveFeeds(rows) /\ live' = live \ {f}
      BY <2>1 DEF DeleteFeed
    <3>2. \A g \in Feed : g \notin live' => rows[g] = NoRow
      BY <1>2, <3>1 DEF RowsFollowFeeds, TypeOK
    <3> QED BY <3>1, <3>2
  <2>2. CASE PauseFeed(f) \/ ResumeFeed(f)
    <3>1. SaveFeeds(row) /\ live' = live
      BY <2>2 DEF PauseFeed, ResumeFeed
    <3>2. \A g \in Feed : g \notin live' => row[g] = NoRow
      BY <1>2, <3>1 DEF RowsFollowFeeds
    <3> QED BY <3>1, <3>2
  <2> QED BY <2>1, <2>2
<1>4. RowsFollowFeeds'
  <2>1. cursor' \in [Feed -> 0..MaxItems]
    BY <1>1, <1>2 DEF TypeOK
  <2>2. /\ row' \in [Feed -> [cursor : -1..MaxItems, paused : BOOLEAN]]
        /\ \A g \in Feed : row'[g] = IF g \in live'
             THEN [cursor |-> cursor'[g], paused |-> g \in paused'] ELSE NoRow
    BY <1>3, <2>1, SavedRows
  <2>3. TypeOK'
    BY <1>1, <1>2, <2>2 DEF TypeOK
  <2> QED BY <2>2, <2>3 DEF RowsFollowFeeds
<1>5. CheckInv'
  BY <1>1, <1>2 DEF CheckInv
<1>6. SkipInv'
  BY <1>1, <1>2 DEF SkipInv, Seen, Namesake
<1>7. OnceInv'
  BY <1>1, <1>2 DEF OnceInv, Checks
<1> QED BY <1>4, <1>5, <1>6, <1>7 DEF FeedsInv

\* The poller's list holds feeds of the table.
LEMMA TickKeeps == ASSUME FeedsInv, Tick PROVE FeedsInv'
<1>1. /\ toPoll' = live \ paused
      /\ UNCHANGED <<published, title, live, feedCounter, cursor, paused, row, at, feed,
                     newest, todo, handled, fate, since, excused, repeated, overlapped, lives>>
  BY DEF Tick, sourceVars, tableVars, checkVars, historyVars
<1>2. TypeOK /\ RowsFollowFeeds /\ CheckInv /\ SkipInv /\ OnceInv
  BY DEF FeedsInv, RowsFollowFeeds
<1>3. RowsFollowFeeds'
  BY <1>1, <1>2 DEF RowsFollowFeeds, TypeOK
<1>4. CheckInv' /\ SkipInv' /\ OnceInv'
  BY <1>1, <1>2 DEF CheckInv, SkipInv, Seen, Namesake, OnceInv, Checks
<1> QED BY <1>3, <1>4 DEF FeedsInv

\* A check that finds another one at its feed makes the feed overlapped.
LEMMA BeginKeeps ==
  ASSUME FeedsInv, NEW c \in Checker, NEW f \in Feed, f \in live \cup toPoll,
         toPoll' \subseteq toPoll, Begin(c, f)
  PROVE  FeedsInv'
<1>1. /\ at[c] = "idle"
      /\ at' = [at EXCEPT ![c] = "fetching"] /\ feed' = [feed EXCEPT ![c] = f]
      /\ overlapped' = IF \E d \in Checker : Checks(d, f)
                         THEN overlapped \cup {f} ELSE overlapped
      /\ UNCHANGED <<published, title, live, feedCounter, cursor, paused, row, newest, todo,
                     handled, fate, since, excused, repeated, lives>>
  BY DEF Begin, sourceVars, tableVars, Checks
<1>2. TypeOK /\ RowsFollowFeeds /\ CheckInv /\ SkipInv /\ OnceInv
  BY DEF FeedsInv, RowsFollowFeeds
<1>3. /\ at'[c] = "fetching" /\ feed'[c] = f
      /\ \A d \in Checker : d # c => at'[d] = at[d] /\ feed'[d] = feed[d]
  BY <1>1, <1>2 DEF TypeOK
<1>4. RowsFollowFeeds'
  <2>1. /\ at' \in [Checker -> {"idle", "fetching", "comparing", "handling"}]
        /\ feed' \in [Checker -> 0..MaxFeeds]
        /\ toPoll' \subseteq Feed /\ overlapped' \subseteq Feed
    BY <1>1, <1>2 DEF TypeOK, Feed
  <2>2. TypeOK'
    BY <1>1, <1>2, <2>1 DEF TypeOK
  <2> QED BY <1>1, <1>2, <2>2 DEF RowsFollowFeeds
<1>5. CheckInv'
  BY <1>1, <1>2, <1>3 DEF CheckInv
<1>6. SkipInv'
  BY <1>1, <1>2, <1>3 DEF SkipInv, Seen, Namesake
<1>7. OnceInv'
  <2>1. SUFFICES ASSUME NEW g \in live' \ overlapped'
        PROVE /\ \A b, d \in Checker : Checks(b, g)' /\ Checks(d, g)' => b = d
              /\ \A d \in Checker : Checks(d, g)' =>
                   /\ at'[d] \in {"comparing", "handling"} => cursor[g] <= newest[d]
                   /\ \A i \in todo[d] : cursor[g] < i
              /\ \A i \in Item : fate[g][i] # "none" =>
                   i <= cursor[g] \/ \E d \in Checker : Checks(d, g)' /\ i \in handled[d]
    BY <1>1, <1>2 DEF OnceInv
  <2>2. g \in live \ overlapped
    BY <1>1, <2>1
  <2>3. \A d \in Checker : Checks(d, g)' <=> Checks(d, g) \/ (d = c /\ g = f)
    BY <1>1, <1>3 DEF Checks
  <2>4. todo[c] = {} /\ handled[c] = {}
    BY <1>1, <1>2 DEF CheckInv
  <2>5. g = f => \A d \in Checker : ~Checks(d, f)
    BY <1>1, <2>1
  <2> QED BY <1>1, <1>2, <1>3, <2>2, <2>3, <2>4, <2>5 DEF OnceInv
<1> QED BY <1>4, <1>5, <1>6, <1>7 DEF FeedsInv

\* The document that a fetch brings shows what is published by then.
LEMMA FetchKeeps ==
  ASSUME FeedsInv, NEW c \in Checker, Fetch(c) \/ FetchFails(c) PROVE FeedsInv'
<1>1. /\ at[c] = "fetching"
      /\ \/ /\ newest' = [newest EXCEPT ![c] = published] /\ published > 0
            /\ at' = [at EXCEPT ![c] = "comparing"] /\ feed' = feed
         \/ /\ at' = [at EXCEPT ![c] = "idle"] /\ feed' = [feed EXCEPT ![c] = 0]
            /\ newest' = newest
      /\ UNCHANGED <<published, title, live, feedCounter, cursor, paused, row, toPoll, todo,
                     handled, fate, since, excused, repeated, overlapped, lives>>
  BY DEF Fetch, FetchFails, sourceVars, tableVars, historyVars
<1>2. TypeOK /\ RowsFollowFeeds /\ CheckInv /\ SkipInv /\ OnceInv
  BY DEF FeedsInv, RowsFollowFeeds
<1>3. /\ \A d \in Checker : d # c =>
           at'[d] = at[d] /\ feed'[d] = feed[d] /\ newest'[d] = newest[d]
      /\ \/ at'[c] = "comparing" /\ feed'[c] = feed[c] /\ newest'[c] = published
            /\ published > 0
         \/ at'[c] = "idle"
  BY <1>1, <1>2 DEF TypeOK
<1>4. RowsFollowFeeds'
  <2>1. /\ at' \in [Checker -> {"idle", "fetching", "comparing", "handling"}]
        /\ feed' \in [Checker -> 0..MaxFeeds]
        /\ newest' \in [Checker -> 0..MaxItems]
    <3>1. published \in 0..MaxItems /\ 0 \in 0..MaxFeeds
      BY <1>2, FeedsAssumption DEF TypeOK
    <3>2. CASE newest' = [newest EXCEPT ![c] = published] /\ feed' = feed
      BY <1>1, <1>2, <3>1, <3>2 DEF TypeOK
    <3>3. CASE newest' = newest /\ feed' = [feed EXCEPT ![c] = 0]
      BY <1>1, <1>2, <3>1, <3>3 DEF TypeOK
    <3> QED BY <1>1, <3>2, <3>3
  <2>2. TypeOK'
    BY <1>1, <1>2, <2>1 DEF TypeOK
  <2> QED BY <1>1, <1>2, <2>2 DEF RowsFollowFeeds
<1>5. CheckInv'
  BY <1>1, <1>2, <1>3 DEF CheckInv, TypeOK
<1>6. SkipInv'
  BY <1>1, <1>2, <1>3 DEF SkipInv, Seen, Namesake
<1>7. todo[c] = {} /\ handled[c] = {}
  BY <1>1, <1>2 DEF CheckInv
<1>8. \A d \in Checker, g \in live : Checks(d, g)' => Checks(d, g)
  BY <1>1, <1>3 DEF Checks
<1>9. \A d \in Checker, g \in live : Checks(d, g) => Checks(d, g)' \/ d = c
  BY <1>3 DEF Checks
<1>10. OnceInv'
  <2>1. SUFFICES ASSUME NEW g \in live \ overlapped
        PROVE /\ \A b, d \in Checker : Checks(b, g)' /\ Checks(d, g)' => b = d
              /\ \A d \in Checker : Checks(d, g)' =>
                   /\ at'[d] \in {"comparing", "handling"} => cursor[g] <= newest'[d]
                   /\ \A i \in todo[d] : cursor[g] < i
              /\ \A i \in Item : fate[g][i] # "none" =>
                   i <= cursor[g] \/ \E d \in Checker : Checks(d, g)' /\ i \in handled[d]
    BY <1>1, <1>2 DEF OnceInv
  <2>2. /\ cursor[g] <= published
        /\ \A b, d \in Checker : Checks(b, g) /\ Checks(d, g) => b = d
        /\ \A d \in Checker : Checks(d, g) =>
             /\ at[d] \in {"comparing", "handling"} => cursor[g] <= newest[d]
             /\ \A i \in todo[d] : cursor[g] < i
        /\ \A i \in Item : fate[g][i] # "none" =>
             i <= cursor[g] \/ \E d \in Checker : Checks(d, g) /\ i \in handled[d]
    BY <1>2, <2>1 DEF OnceInv
  <2>3. \A d \in Checker : Checks(d, g)' =>
          (at'[d] \in {"comparing", "handling"} => cursor[g] <= newest'[d])
    BY <1>3, <1>8, <2>1, <2>2 DEF Checks
  <2>4. \A i \in Item : fate[g][i] # "none" =>
          i <= cursor[g] \/ \E d \in Checker : Checks(d, g)' /\ i \in handled[d]
    BY <1>7, <1>9, <2>1, <2>2
  <2> QED BY <1>8, <2>1, <2>2, <2>3, <2>4
<1> QED BY <1>4, <1>5, <1>6, <1>10 DEF FeedsInv
\* What NewItems takes of the document n: nothing behind the cursor k, and all
\* that is newer, but for a repeated title, if an item is taken for the cursor.
LEMMA NewItemsCover ==
  ASSUME NEW k \in 0..MaxItems, NEW n \in 1..MaxItems
  PROVE  /\ \A i \in NewItems(k, n) : i \in Item /\ i <= n
         /\ k <= n => \A i \in NewItems(k, n) : k < i
         /\ n <= published /\ published \in Nat /\ Matches(k, n) # {} =>
              \A i \in Item : k < i /\ i <= n => i \in NewItems(k, n) \/ Namesake(i)
<1>1. k \in Int /\ n \in Int /\ MaxItems \in Int /\ Shown \in Int /\ Shown > 0
  BY FeedsAssumption
<1>2. \A i : i \in Shows(n) <=> i \in 1..n /\ i > n - Shown
  BY DEF Shows
<1>3. \A m : m \in Matches(k, n) <=> m \in Shows(n) /\ k # 0 /\ (m = k \/ title[m] = title[k])
  BY DEF Matches
<1>4. CASE Matches(k, n) # {}
  <2>1. \A i : i \in NewItems(k, n) <=>
                 i \in Shows(n) /\ \A m \in Matches(k, n) : m < i
    BY <1>4 DEF NewItems
  <2>2. PICK m \in Matches(k, n) : TRUE
    BY <1>4
  <2>3. ASSUME k <= n, NEW i \in NewItems(k, n) PROVE k < i
    <3>1. CASE k \in Shows(n)
      BY <1>3, <2>1, <2>2, <2>3, <3>1
    <3>2. CASE k \notin Shows(n)
      BY <1>1, <1>2, <1>3, <2>1, <2>2, <2>3, <3>2
    <3> QED BY <3>1, <3>2
  <2>4. ASSUME n <= published, published \in Nat, NEW i \in Item, k < i, i <= n,
               i \notin NewItems(k, n)
        PROVE  Namesake(i)
    <3>1. i \in 1..n
      BY <1>1, <2>4 DEF Item
    <3>2. PICK j \in Matches(k, n) : i <= j
      <4>1. CASE i \notin Shows(n)
        <5>1. i <= n - Shown
          BY <1>1, <1>2, <3>1, <4>1
        <5>2. m \in 1..n /\ m > n - Shown
          BY <1>2, <1>3, <2>2
        <5> QED BY <1>1, <2>2, <3>1, <5>1, <5>2
      <4>2. CASE i \in Shows(n)
        <5>1. PICK j \in Matches(k, n) : ~(j < i)
          BY <2>1, <2>4, <4>2
        <5>2. j \in 1..n
          BY <1>2, <1>3, <5>1
        <5> QED BY <1>1, <3>1, <5>1, <5>2
      <4> QED BY <4>1, <4>2
    <3>3. j \in 1..n /\ k \in 1..MaxItems /\ (j = k \/ title[j] = title[k])
      BY <1>2, <1>3, <3>2
    <3>4. k < j /\ title[k] = title[j]
      BY <1>1, <2>4, <3>1, <3>2, <3>3
    <3>5. j \in 1..published /\ k \in 1..published
      BY <1>1, <2>4, <3>3, <3>4
    <3> QED BY <2>4, <3>2, <3>4, <3>5 DEF Namesake
  <2> QED BY <1>1, <1>2, <2>1, <2>3, <2>4 DEF Item
<1>5. CASE Matches(k, n) = {} /\ k = 0
  <2>1. NewItems(k, n) = {n}
    BY <1>5 DEF NewItems, UnmatchedItems
  <2> QED BY <1>1, <1>5, <2>1 DEF Item
<1>6. CASE Matches(k, n) = {} /\ k # 0
  <2>1. \A i \in NewItems(k, n) : i \in Shows(n)
    BY <1>6 DEF NewItems, UnmatchedItems
  <2>2. k <= n => k <= n - Shown
    BY <1>1, <1>2, <1>3, <1>6
  <2> QED BY <1>1, <1>2, <1>6, <2>1, <2>2 DEF Item
<1> QED BY <1>4, <1>5, <1>6

\* The comparison may use a cursor that moved since the fetch: whatever it
\* passes over was handled or is excused.
LEMMA CompareKeeps ==
  ASSUME FeedsInv, NEW c \in Checker, Compare(c) PROVE FeedsInv'
<1> DEFINE f == feed[c]
           n == newest[c]
           k == cursor[f]
           new == NewItems(k, n)
           passed == IF Matches(k, n) # {} THEN {} ELSE {i \in 1..n : i > k} \ new
<1>1. /\ at[c] = "comparing" /\ at' = [at EXCEPT ![c] = "handling"]
      /\ todo' = [todo EXCEPT ![c] = new]
      /\ excused' = [excused EXCEPT ![f] = @ \cup passed]
      /\ UNCHANGED <<published, title, live, feedCounter, cursor, paused, row, toPoll, feed,
                     newest, handled, fate, since, repeated, overlapped, lives>>
  BY DEF Compare, sourceVars, tableVars
<1>2. TypeOK /\ RowsFollowFeeds /\ CheckInv /\ SkipInv /\ OnceInv
  BY DEF FeedsInv, RowsFollowFeeds
<1>3. f \in Feed /\ n \in 1..published /\ n \in 1..MaxItems /\ k \in 0..MaxItems
      /\ handled[c] = {}
  <2>1. f \in Feed /\ n \in 1..published /\ handled[c] = {}
    BY <1>1, <1>2 DEF CheckInv
  <2>2. published \in 0..MaxItems /\ cursor \in [Feed -> 0..MaxItems]
    BY <1>2 DEF TypeOK
  <2> HIDE DEF f, n
  <2>3. n \in 1..MaxItems
    BY <2>1, <2>2, FeedsAssumption
  <2> QED BY <2>1, <2>2, <2>3
<1>4. /\ new \subseteq Item /\ \A i \in new : i <= n
      /\ k <= n => \A i \in new : k < i
      /\ \A i \in Item : k < i /\ i <= n => i \in new \/ i \in passed \/ Namesake(i)
      /\ passed \subseteq Item
  <2>1. /\ \A i \in new : i \in Item /\ i <= n
        /\ k <= n => \A i \in new : k < i
        /\ Matches(k, n) # {} =>
             \A i \in Item : k < i /\ i <= n => i \in new \/ Namesake(i)
    <3>1. n <= published /\ published \in Nat
      BY <1>2, <1>3, FeedsAssumption DEF TypeOK
    <3> QED BY <1>3, <3>1, NewItemsCover
  <2> HIDE DEF new
  <2>2. passed \subseteq Item
    <3> HIDE DEF k, n
    <3>1. \A i \in 1..n : i \in Item
      BY <1>3, FeedsAssumption DEF Item
    <3> QED BY <3>1
  <2>3. ASSUME NEW i \in Item, k < i, i <= n, i \notin new
        PROVE  i \in passed \/ Namesake(i)
    BY <1>3, <2>1, <2>3 DEF Item
  <2> QED BY <2>1, <2>2, <2>3
<1> HIDE DEF f, n, k, new, passed
<1>5. /\ at' \in [Checker -> {"idle", "fetching", "comparing", "handling"}]
      /\ todo' \in [Checker -> SUBSET Item] /\ excused' \in [Feed -> SUBSET Item]
      /\ at'[c] = "handling" /\ todo'[c] = new
      /\ \A d \in Checker : d # c => at'[d] = at[d] /\ todo'[d] = todo[d]
      /\ \A g \in Feed : excused[g] \subseteq excused'[g]
      /\ passed \subseteq excused'[f]
  BY <1>1, <1>2, <1>3, <1>4 DEF TypeOK
<1>6. RowsFollowFeeds'
  <2>1. TypeOK'
    BY <1>1, <1>2, <1>5 DEF TypeOK
  <2> QED BY <1>1, <1>2, <2>1 DEF RowsFollowFeeds
<1>7. CheckInv'
  <2>1. ASSUME NEW d \in Checker
        PROVE  /\ at'[d] # "idle" => feed'[d] \in Feed /\ feed'[d] <= feedCounter'
               /\ at'[d] \in {"comparing", "handling"} => newest'[d] \in 1..published'
               /\ at'[d] # "handling" => todo'[d] = {} /\ handled'[d] = {}
               /\ at'[d] = "handling" =>
                    /\ handled'[d] \cap todo'[d] = {} /\ \A i \in todo'[d] : i <= newest'[d]
                    /\ \A i \in handled'[d] : i <= newest'[d] /\ fate'[feed'[d]][i] # "none"
    <3>1. CASE d = c
      BY <1>1, <1>2, <1>3, <1>4, <1>5, <3>1 DEF CheckInv, n
    <3>2. CASE d # c
      BY <1>1, <1>2, <1>5, <3>2 DEF CheckInv
    <3> QED BY <3>1, <3>2
  <2> QED BY <1>1, <1>2, <2>1 DEF CheckInv
<1>8. SkipInv'
  <2>1. \A g \in Feed, i \in Item : Seen(g, i) => Seen(g, i)'
    BY <1>1, <1>5 DEF Seen, Namesake
  <2>2. ASSUME NEW g \in Feed, NEW i \in Item, since'[g] < i, i <= cursor'[g]
        PROVE  Seen(g, i)'
    BY <1>1, <1>2, <2>1, <2>2 DEF SkipInv
  <2>3. ASSUME NEW d \in Checker, at'[d] = "handling", NEW i \in Item,
               since'[feed'[d]] < i, i <= newest'[d]
        PROVE  Seen(feed[d], i)' \/ i \in todo'[d]
    <3>1. CASE d = c
      <4>1. CASE i <= k
        <5>1. Seen(f, i)
          BY <1>1, <1>2, <1>3, <2>3, <3>1, <4>1 DEF SkipInv, f, k
        <5> QED BY <1>1, <1>3, <2>1, <3>1, <5>1 DEF f
      <4>2. CASE k < i
        <5>1. i \in new \/ i \in passed \/ Namesake(i)
          BY <1>1, <1>4, <2>3, <3>1, <4>2 DEF n
        <5> QED BY <1>1, <1>5, <3>1, <5>1 DEF Seen, Namesake, f
      <4>3. k \in Int /\ i \in Int
        BY <1>3 DEF Item
      <4> QED BY <4>1, <4>2, <4>3
    <3>2. CASE d # c
      <4>1. at[d] = "handling" /\ feed[d] \in Feed
        BY <1>2, <1>5, <2>3, <3>2 DEF CheckInv
      <4>2. Seen(feed[d], i) \/ i \in todo[d]
        BY <1>1, <1>2, <2>3, <4>1 DEF SkipInv
      <4> QED BY <1>1, <1>5, <2>1, <3>2, <4>1, <4>2
    <3> QED BY <3>1, <3>2
  <2> QED BY <1>1, <2>2, <2>3 DEF SkipInv, Seen, Namesake
<1>9. OnceInv'
  <2>1. SUFFICES ASSUME NEW g \in live \ overlapped, NEW d \in Checker, Checks(d, g)
        PROVE /\ at'[d] \in {"comparing", "handling"} => cursor[g] <= newest[d]
              /\ \A i \in todo'[d] : cursor[g] < i
    <3>1. \A d \in Checker : \A g \in Feed : Checks(d, g)' <=> Checks(d, g)
      BY <1>1, <1>5 DEF Checks
    <3> QED BY <1>1, <1>2, <2>1, <3>1 DEF OnceInv, TypeOK
  <2>2. CASE d = c
    <3>1. g = f /\ cursor[g] = k /\ k <= n
      BY <1>1, <1>2, <2>1, <2>2 DEF OnceInv, Checks, f, k, n
    <3> QED BY <1>4, <1>5, <2>2, <3>1 DEF n
  <2>3. CASE d # c
    BY <1>2, <1>5, <2>1, <2>3 DEF OnceInv
  <2> QED BY <2>2, <2>3
<1> QED BY <1>6, <1>7, <1>8, <1>9 DEF FeedsInv
\* Handling an item makes it seen; where no checks overlap it is the first time.
LEMMA HandleKeeps ==
  ASSUME FeedsInv, NEW c \in Checker, Handle(c) PROVE FeedsInv'
<1> DEFINE f == feed[c]
           i == Min(todo[c])
<1>1. /\ at[c] = "handling" /\ todo[c] # {}
      /\ todo' = [todo EXCEPT ![c] = @ \ {i}]
      /\ handled' = [handled EXCEPT ![c] = @ \cup {i}]
      /\ repeated' = IF fate[f][i] = "none" THEN repeated ELSE repeated \cup {<<f, i>>}
      /\ fate' = [fate EXCEPT ![f][i] = "handled"]
      /\ UNCHANGED <<published, title, live, feedCounter, cursor, paused, row, toPoll, at,
                     feed, newest, since, excused, overlapped, lives>>
  BY DEF Handle, sourceVars, tableVars
<1>2. TypeOK /\ RowsFollowFeeds /\ CheckInv /\ SkipInv /\ OnceInv
  BY DEF FeedsInv, RowsFollowFeeds
<1>3. f \in Feed /\ i \in todo[c] /\ i \in Item /\ i <= newest[c]
  <2>1. todo[c] \in SUBSET Nat /\ todo[c] \subseteq Item
    BY <1>2 DEF TypeOK, Item
  <2>2. i \in todo[c]
    BY <1>1, <2>1, MinOfNat
  <2> QED BY <1>1, <1>2, <2>1, <2>2 DEF CheckInv
<1> HIDE DEF f, i
<1>4. /\ todo' \in [Checker -> SUBSET Item] /\ handled' \in [Checker -> SUBSET Item]
      /\ repeated' \subseteq Feed \X Item
      /\ todo'[c] = todo[c] \ {i} /\ handled'[c] = handled[c] \cup {i}
      /\ \A d \in Checker : d # c => todo'[d] = todo[d] /\ handled'[d] = handled[d]
  BY <1>1, <1>2, <1>3 DEF TypeOK
<1>5. /\ fate' \in [Feed -> [Item -> {"none", "handled", "severed"}]]
      /\ fate'[f][i] = "handled"
      /\ \A g \in Feed, j \in Item : g # f \/ j # i => fate'[g][j] = fate[g][j]
  BY <1>1, <1>2, <1>3 DEF TypeOK
<1>6. RowsFollowFeeds'
  <2>1. TypeOK'
    BY <1>1, <1>2, <1>4, <1>5 DEF TypeOK
  <2> QED BY <1>1, <1>2, <2>1 DEF RowsFollowFeeds
<1>7. \A g \in Feed, j \in Item : fate[g][j] # "none" => fate'[g][j] # "none"
  BY <1>5
<1>8. CheckInv'
  <2>1. ASSUME NEW d \in Checker
        PROVE  /\ at'[d] # "idle" => feed'[d] \in Feed /\ feed'[d] <= feedCounter'
               /\ at'[d] \in {"comparing", "handling"} => newest'[d] \in 1..published'
               /\ at'[d] # "handling" => todo'[d] = {} /\ handled'[d] = {}
               /\ at'[d] = "handling" =>
                    /\ handled'[d] \cap todo'[d] = {} /\ \A j \in todo'[d] : j <= newest'[d]
                    /\ \A j \in handled'[d] : j <= newest'[d] /\ fate'[feed'[d]][j] # "none"
    <3>1. handled[d] \subseteq Item /\ (at[d] # "idle" => feed[d] \in Feed)
      BY <1>2 DEF TypeOK, CheckInv
    <3>2. CASE d = c
      BY <1>1, <1>2, <1>3, <1>4, <1>5, <1>7, <3>1, <3>2 DEF CheckInv, f
    <3>3. CASE d # c
      BY <1>1, <1>2, <1>4, <1>7, <3>1, <3>3 DEF CheckInv
    <3> QED BY <3>2, <3>3
  <2> QED BY <1>1, <1>2, <2>1 DEF CheckInv
<1>9. SkipInv'
  <2>1. \A g \in Feed, j \in Item : Seen(g, j) => Seen(g, j)'
    BY <1>1, <1>7 DEF Seen, Namesake
  <2>2. fate'[f][i] # "none"
    BY <1>5
  <2>3. ASSUME NEW g \in Feed, NEW j \in Item, since'[g] < j, j <= cursor'[g]
        PROVE  Seen(g, j)'
    BY <1>1, <1>2, <2>1, <2>3 DEF SkipInv
  <2>4. ASSUME NEW d \in Checker, at'[d] = "handling", NEW j \in Item,
               since'[feed'[d]] < j, j <= newest'[d]
        PROVE  Seen(feed[d], j)' \/ j \in todo'[d]
    <3>1. feed[d] \in Feed /\ (Seen(feed[d], j) \/ j \in todo[d])
      BY <1>1, <1>2, <2>4 DEF SkipInv, CheckInv
    <3>2. CASE Seen(feed[d], j)
      BY <1>1, <2>1, <3>1, <3>2
    <3>3. CASE j \in todo[d] /\ d = c /\ j = i
      BY <1>1, <2>2, <3>3 DEF f, Seen
    <3>4. CASE j \in todo[d] /\ (d # c \/ j # i)
      BY <1>4, <3>4
    <3> QED BY <3>1, <3>2, <3>3, <3>4
  <2> QED BY <1>1, <2>3, <2>4 DEF SkipInv, Seen, Namesake
<1>10. OnceInv'
  <2>1. SUFFICES ASSUME NEW g \in live \ overlapped
        PROVE /\ \A d \in Checker : Checks(d, g) => \A j \in todo'[d] : cursor[g] < j
              /\ \A j \in Item : <<g, j>> \notin repeated'
              /\ \A j \in Item : fate'[g][j] # "none" =>
                   /\ since[g] < j
                   /\ j <= cursor[g] \/ \E d \in Checker : Checks(d, g) /\ j \in handled'[d]
    BY <1>1, <1>2 DEF OnceInv, Checks
  <2>2. /\ since[g] <= cursor[g] /\ g \in Feed
        /\ \A d, e \in Checker : Checks(d, g) /\ Checks(e, g) => d = e
        /\ \A d \in Checker : Checks(d, g) => \A j \in todo[d] : cursor[g] < j
        /\ \A j \in Item : <<g, j>> \notin repeated
        /\ \A j \in Item : fate[g][j] # "none" =>
             /\ since[g] < j
             /\ j <= cursor[g] \/ \E d \in Checker : Checks(d, g) /\ j \in handled[d]
    BY <1>2, <2>1 DEF OnceInv, TypeOK
  <2>3. since[g] \in Int /\ cursor[g] \in Int /\ i \in Int
    BY <1>2, <1>3, <2>2 DEF TypeOK, Item
  <2>4. g = f => Checks(c, g) /\ fate[f][i] = "none" /\ since[g] < i
    <3>1. SUFFICES ASSUME g = f PROVE Checks(c, g) /\ fate[f][i] = "none" /\ since[g] < i
      OBVIOUS
    <3>2. Checks(c, g)
      BY <1>1, <3>1 DEF Checks, f
    <3>3. cursor[g] < i
      BY <1>3, <2>2, <3>2
    <3>4. i \notin handled[c]
      BY <1>1, <1>2, <1>3 DEF CheckInv
    <3>5. fate[f][i] = "none"
      <4>1. ~(i <= cursor[g]) /\ ~\E d \in Checker : Checks(d, g) /\ i \in handled[d]
        BY <2>2, <2>3, <3>2, <3>3, <3>4
      <4> QED BY <1>3, <2>2, <3>1, <4>1
    <3> QED BY <2>2, <2>3, <3>2, <3>3, <3>5
  <2>5. \A d \in Checker : todo'[d] \subseteq todo[d] /\ handled[d] \subseteq handled'[d]
    BY <1>4
  <2>6. \A j \in Item : <<g, j>> \notin repeated'
    BY <1>1, <2>2, <2>4
  <2>7. ASSUME NEW j \in Item, fate'[g][j] # "none"
        PROVE  /\ since[g] < j
               /\ j <= cursor[g] \/ \E d \in Checker : Checks(d, g) /\ j \in handled'[d]
    <3>1. CASE g = f /\ j = i
      BY <1>4, <2>4, <3>1
    <3>2. CASE g # f \/ j # i
      BY <1>5, <2>2, <2>5, <2>7, <3>2
    <3> QED BY <3>1, <3>2
  <2> QED BY <2>2, <2>5, <2>6, <2>7
<1> QED BY <1>6, <1>8, <1>9, <1>10 DEF FeedsInv

\* The cursor moves to the document's newest item once all its items are seen,
\* of a feed that is gone too, whose row stays away.
LEMMA MoveCursorKeeps ==
  ASSUME FeedsInv, NEW c \in Checker, MoveCursor(c) PROVE FeedsInv'
<1> DEFINE f == feed[c]
           n == newest[c]
<1>1. PICK late \in SUBSET handled[c] :
        /\ at[c] = "handling" /\ todo[c] = {}
        /\ at' = [at EXCEPT ![c] = "idle"] /\ feed' = [feed EXCEPT ![c] = 0]
        /\ newest' = [newest EXCEPT ![c] = 0] /\ handled' = [handled EXCEPT ![c] = {}]
        /\ fate' = [fate EXCEPT ![f] = [i \in Item |->
                      IF i \in late THEN "severed" ELSE fate[f][i]]]
        /\ cursor' = [cursor EXCEPT ![f] = n]
        /\ UNCHANGED <<published, title, live, feedCounter, paused, toPoll, todo, since,
                       excused, repeated, overlapped, lives>>
        /\ SaveFeeds(row)
  BY DEF MoveCursor, Ends, sourceVars, historyVars
<1>2. TypeOK /\ RowsFollowFeeds /\ CheckInv /\ SkipInv /\ OnceInv
  BY DEF FeedsInv, RowsFollowFeeds
<1>3. /\ f \in Feed /\ n \in 1..published /\ n \in 0..MaxItems
      /\ \A i \in handled[c] : i <= n /\ fate[f][i] # "none"
  BY <1>1, <1>2 DEF CheckInv, TypeOK
<1> HIDE DEF f, n
<1>4. /\ at' \in [Checker -> {"idle", "fetching", "comparing", "handling"}]
      /\ feed' \in [Checker -> 0..MaxFeeds] /\ newest' \in [Checker -> 0..MaxItems]
      /\ handled' \in [Checker -> SUBSET Item] /\ cursor' \in [Feed -> 0..MaxItems]
      /\ at'[c] = "idle" /\ handled'[c] = {} /\ cursor'[f] = n
      /\ \A d \in Checker : d # c => /\ at'[d] = at[d] /\ feed'[d] = feed[d]
                                     /\ newest'[d] = newest[d] /\ handled'[d] = handled[d]
      /\ \A g \in Feed : g # f => cursor'[g] = cursor[g]
  BY <1>1, <1>2, <1>3, FeedsAssumption DEF TypeOK
<1>5. /\ fate' \in [Feed -> [Item -> {"none", "handled", "severed"}]]
      /\ \A g \in Feed, i \in Item : fate'[g][i] # "none" <=> fate[g][i] # "none"
  <2>1. [i \in Item |-> IF i \in late THEN "severed" ELSE fate[f][i]]
          \in [Item -> {"none", "handled", "severed"}]
    BY <1>2, <1>3 DEF TypeOK
  <2>2. fate' \in [Feed -> [Item -> {"none", "handled", "severed"}]]
    BY <1>1, <1>2, <1>3, <2>1 DEF TypeOK
  <2>3. ASSUME NEW i \in Item PROVE fate'[f][i] # "none" <=> fate[f][i] # "none"
    <3>1. fate'[f][i] = IF i \in late THEN "severed" ELSE fate[f][i]
      BY <1>1, <1>2, <1>3 DEF TypeOK
    <3> QED BY <1>3, <3>1
  <2>4. \A g \in Feed : g # f => fate'[g] = fate[g]
    BY <1>1, <1>2, <1>3 DEF TypeOK
  <2> QED BY <2>2, <2>3, <2>4
<1>6. RowsFollowFeeds'
  <2>1. \A g \in Feed : g \notin live' => row[g] = NoRow
    BY <1>1, <1>2 DEF RowsFollowFeeds
  <2>2. /\ row' \in [Feed -> [cursor : -1..MaxItems, paused : BOOLEAN]]
        /\ \A g \in Feed : row'[g] = IF g \in live'
             THEN [cursor |-> cursor'[g], paused |-> g \in paused'] ELSE NoRow
    BY <1>1, <1>4, <2>1, SavedRows
  <2>3. TypeOK'
    BY <1>1, <1>2, <1>4, <1>5, <2>2 DEF TypeOK
  <2> QED BY <2>2, <2>3 DEF RowsFollowFeeds
<1>7. CheckInv'
  <2>1. ASSUME NEW d \in Checker
        PROVE  /\ at'[d] # "idle" => feed'[d] \in Feed /\ feed'[d] <= feedCounter'
               /\ at'[d] \in {"comparing", "handling"} => newest'[d] \in 1..published'
               /\ at'[d] # "handling" => todo'[d] = {} /\ handled'[d] = {}
               /\ at'[d] = "handling" =>
                    /\ handled'[d] \cap todo'[d] = {} /\ \A j \in todo'[d] : j <= newest'[d]
                    /\ \A j \in handled'[d] : j <= newest'[d] /\ fate'[feed'[d]][j] # "none"
    <3>1. handled[d] \subseteq Item /\ (at[d] # "idle" => feed[d] \in Feed)
      BY <1>2 DEF TypeOK, CheckInv
    <3>2. CASE d = c
      BY <1>1, <1>4, <3>2
    <3>3. CASE d # c
      BY <1>1, <1>2, <1>4, <1>5, <3>1, <3>3 DEF CheckInv
    <3> QED BY <3>2, <3>3
  <2> QED BY <1>1, <1>2, <2>1 DEF CheckInv
<1>8. SkipInv'
  <2>1. \A g \in Feed, i \in Item : Seen(g, i)' <=> Seen(g, i)
    BY <1>1, <1>5 DEF Seen, Namesake
  <2>2. ASSUME NEW g \in Feed, NEW i \in Item, since'[g] < i, i <= cursor'[g]
        PROVE  Seen(g, i)'
    <3>1. CASE g = f
      <4>1. Seen(f, i)
        BY <1>1, <1>2, <1>4, <2>2, <3>1 DEF SkipInv, f, n
      <4> QED BY <2>1, <3>1, <4>1
    <3>2. CASE g # f
      BY <1>1, <1>2, <1>4, <2>1, <2>2, <3>2 DEF SkipInv
    <3> QED BY <3>1, <3>2
  <2>3. ASSUME NEW d \in Checker, at'[d] = "handling", NEW i \in Item,
               since'[feed'[d]] < i, i <= newest'[d]
        PROVE  Seen(feed[d], i)' \/ i \in todo'[d]
    <3>1. d # c /\ at[d] = "handling" /\ feed'[d] = feed[d] /\ newest'[d] = newest[d]
      BY <1>4, <2>3
    <3>2. feed[d] \in Feed
      BY <1>2, <3>1 DEF CheckInv
    <3>3. Seen(feed[d], i) \/ i \in todo[d]
      BY <1>1, <1>2, <2>3, <3>1 DEF SkipInv
    <3>4. Seen(feed[d], i) => Seen(feed[d], i)'
      BY <1>1, <1>5, <3>1, <3>2 DEF Seen, Namesake
    <3> QED BY <1>1, <3>3, <3>4
  <2> QED BY <2>2, <2>3 DEF SkipInv, Seen, Namesake
<1>9. OnceInv'
  <2>1. SUFFICES ASSUME NEW g \in live \ overlapped
        PROVE /\ since[g] <= cursor'[g] /\ cursor'[g] <= published
              /\ \A d, e \in Checker : Checks(d, g)' /\ Checks(e, g)' => d = e
              /\ \A d \in Checker : Checks(d, g)' =>
                   /\ at'[d] \in {"comparing", "handling"} => cursor'[g] <= newest'[d]
                   /\ \A j \in todo[d] : cursor'[g] < j
              /\ \A j \in Item : <<g, j>> \notin repeated
              /\ \A j \in Item : fate'[g][j] # "none" =>
                   /\ since[g] < j
                   /\ \/ j <= cursor'[g]
                      \/ \E d \in Checker : Checks(d, g)' /\ j \in handled'[d]
    BY <1>1 DEF OnceInv
  <2>2. /\ since[g] <= cursor[g] /\ cursor[g] <= published /\ g \in Feed
        /\ \A d, e \in Checker : Checks(d, g) /\ Checks(e, g) => d = e
        /\ \A d \in Checker : Checks(d, g) =>
             /\ at[d] \in {"comparing", "handling"} => cursor[g] <= newest[d]
             /\ \A j \in todo[d] : cursor[g] < j
        /\ \A j \in Item : <<g, j>> \notin repeated
        /\ \A j \in Item : fate[g][j] # "none" =>
             /\ since[g] < j
             /\ j <= cursor[g] \/ \E d \in Checker : Checks(d, g) /\ j \in handled[d]
    BY <1>2, <2>1 DEF OnceInv, TypeOK
  <2>3. \A d \in Checker : Checks(d, g)' <=> Checks(d, g) /\ d # c
    BY <1>4, <2>2 DEF Checks
  <2>4. CASE g = f
    <3>1. Checks(c, f) /\ cursor[f] <= n
      BY <1>1, <2>2, <2>4 DEF Checks, f, n
    <3>2. \A d \in Checker : ~Checks(d, g)'
      BY <2>2, <2>3, <2>4, <3>1
    <3>3. since[g] \in Int /\ cursor[g] \in Int /\ n \in Int /\ published \in Int
      BY <1>2, <1>3, <2>2 DEF TypeOK
    <3>4. since[g] <= cursor'[g] /\ cursor'[g] <= published
      BY <1>3, <1>4, <2>2, <2>4, <3>1, <3>3
    <3>5. ASSUME NEW j \in Item, fate'[g][j] # "none"
          PROVE  since[g] < j /\ j <= cursor'[g]
      <4>1. since[g] < j /\ (j <= cursor[g] \/ j \in handled[c])
        BY <1>5, <2>2, <2>4, <3>1, <3>5
      <4>2. j <= n
        BY <1>3, <2>4, <3>1, <3>3, <4>1 DEF Item
      <4> QED BY <1>4, <2>4, <4>1, <4>2
    <3> QED BY <2>2, <3>2, <3>4, <3>5
  <2>5. CASE g # f
    <3>1. \A d \in Checker : Checks(d, g)' <=> Checks(d, g)
      BY <2>3, <2>5 DEF Checks, f
    <3>2. \A d \in Checker : Checks(d, g) => d # c
      BY <2>5 DEF Checks, f
    <3>3. cursor'[g] = cursor[g]
      BY <1>4, <2>2, <2>5
    <3>4. ASSUME NEW d \in Checker, Checks(d, g)'
          PROVE  /\ at'[d] \in {"comparing", "handling"} => cursor'[g] <= newest'[d]
                 /\ \A j \in todo[d] : cursor'[g] < j
      BY <1>4, <2>2, <3>1, <3>2, <3>3, <3>4
    <3>5. ASSUME NEW j \in Item, fate'[g][j] # "none"
          PROVE  since[g] < j /\ (j <= cursor'[g]
                                   \/ \E d \in Checker : Checks(d, g)' /\ j \in handled'[d])
      <4>1. since[g] < j /\ (j <= cursor[g]
                               \/ \E d \in Checker : Checks(d, g) /\ j \in handled[d])
        BY <1>5, <2>2, <3>5
      <4> QED BY <1>4, <3>1, <3>2, <3>3, <4>1
    <3> QED BY <2>2, <3>1, <3>3, <3>4, <3>5
  <2> QED BY <2>4, <2>5
<1> QED BY <1>6, <1>7, <1>8, <1>9 DEF FeedsInv

\* The next life reads back the table and the cursors; the checks are gone,
\* each of whose feeds counts as overlapped.
LEMMA RestartKeeps == ASSUME FeedsInv, Restart PROVE FeedsInv'
<1>1. /\ lives < MaxLives /\ lives' = lives + 1
      /\ live' = {f \in Feed : row[f] # NoRow}
      /\ feedCounter' = IF live' = {} THEN 0 ELSE Max(live')
      /\ cursor' = [f \in Feed |-> IF f \in live' THEN row[f].cursor ELSE 0]
      /\ paused' = {f \in live' : row[f].paused}
      /\ toPoll' = {}
      /\ at' = [c \in Checker |-> "idle"] /\ feed' = [c \in Checker |-> 0]
      /\ newest' = [c \in Checker |-> 0]
      /\ todo' = [c \in Checker |-> {}] /\ handled' = [c \in Checker |-> {}]
      /\ overlapped' = overlapped \cup {feed[c] : c \in {d \in Checker : at[d] # "idle"}}
      /\ UNCHANGED <<published, title, row, fate, since, excused, repeated>>
  BY DEF Restart, sourceVars, LoadFeeds
<1>2. TypeOK /\ RowsFollowFeeds /\ CheckInv /\ SkipInv /\ OnceInv
  BY DEF FeedsInv, RowsFollowFeeds
<1>3. \A f \in Feed : f \in live => /\ row[f].cursor = cursor[f]
                                    /\ row[f].paused = (f \in paused) /\ row[f] # NoRow
  <2>1. ASSUME NEW f \in Feed, f \in live
        PROVE  /\ row[f].cursor = cursor[f] /\ row[f].paused = (f \in paused)
               /\ row[f] # NoRow
    <3>1. row[f] = [cursor |-> cursor[f], paused |-> f \in paused]
      BY <1>2, <2>1 DEF RowsFollowFeeds
    <3>2. cursor[f] \in 0..MaxItems
      BY <1>2 DEF TypeOK
    <3>3. cursor[f] # -1
      BY <3>2
    <3> QED BY <3>1, <3>3 DEF NoRow
  <2> QED BY <2>1
<1>4. live' = live /\ live \subseteq Feed
  BY <1>1, <1>2, <1>3 DEF RowsFollowFeeds, TypeOK
<1>5. /\ \A f \in Feed : cursor'[f] = IF f \in live THEN cursor[f] ELSE 0
      /\ \A f \in live : f \in paused' <=> f \in paused
      /\ paused' \subseteq Feed
  BY <1>1, <1>3, <1>4
<1>6. feedCounter' \in 0..MaxFeeds /\ \A f \in live : f <= feedCounter'
  <2>1. CASE live = {}
    BY <1>1, <1>4, <2>1, FeedsAssumption
  <2>2. CASE live # {}
    <3>1. MaxFeeds \in Nat /\ live \in SUBSET (1..MaxFeeds)
      BY <1>4, FeedsAssumption DEF Feed
    <3>2. Max(live) \in live /\ \A f \in live : f <= Max(live)
      BY <2>2, <3>1, MaxOfInterval
    <3>3. feedCounter' = Max(live)
      BY <1>1, <1>4, <2>2
    <3>4. feedCounter' \in 1..MaxFeeds
      BY <3>1, <3>2, <3>3, Zenon
    <3>5. feedCounter' \in 0..MaxFeeds
      BY <3>4
    <3> QED BY <3>2, <3>3, <3>5, Zenon
  <2> QED BY <2>1, <2>2
<1>7. RowsFollowFeeds'
  <2>1. cursor' \in [Feed -> 0..MaxItems]
    <3>1. \A f \in Feed : cursor'[f] \in 0..MaxItems
      <4>1. 0 \in 0..MaxItems /\ \A f \in Feed : cursor[f] \in 0..MaxItems
        BY <1>2, FeedsAssumption DEF TypeOK
      <4> QED BY <1>5, <4>1, Zenon
    <3>2. cursor' = [f \in Feed |-> cursor'[f]]
      BY <1>1
    <3> QED BY <3>1, <3>2
  <2>2. overlapped' \subseteq Feed
    BY <1>1, <1>2 DEF TypeOK, CheckInv
  <2>3. lives' \in 1..MaxLives
    BY <1>1, <1>2, FeedsAssumption DEF TypeOK
  <2>4. /\ at' \in [Checker -> {"idle", "fetching", "comparing", "handling"}]
        /\ feed' \in [Checker -> 0..MaxFeeds] /\ newest' \in [Checker -> 0..MaxItems]
        /\ todo' \in [Checker -> SUBSET Item] /\ handled' \in [Checker -> SUBSET Item]
    BY <1>1, FeedsAssumption
  <2>5. TypeOK'
    BY <1>1, <1>2, <1>4, <1>5, <1>6, <2>1, <2>2, <2>3, <2>4 DEF TypeOK
  <2>6. ASSUME NEW f \in Feed
        PROVE  row'[f] = IF f \in live'
                           THEN [cursor |-> cursor'[f], paused |-> f \in paused']
                           ELSE NoRow
    <3>1. row'[f] = IF f \in live THEN [cursor |-> cursor[f], paused |-> f \in paused]
                    ELSE NoRow
      BY <1>1, <1>2 DEF RowsFollowFeeds
    <3>2. CASE f \in live
      <4>1. cursor'[f] = cursor[f] /\ (f \in paused' <=> f \in paused)
        BY <1>5, <3>2
      <4>2. (f \in paused') = (f \in paused)
        BY <4>1, SMT
      <4>3. row'[f] = [cursor |-> cursor'[f], paused |-> f \in paused']
        BY <3>1, <3>2, <4>1, <4>2, Zenon
      <4> QED BY <1>4, <3>2, <4>3, Zenon
    <3>3. CASE f \notin live
      BY <1>4, <3>1, <3>3, Zenon
    <3> QED BY <3>2, <3>3
  <2> QED BY <2>5, <2>6 DEF RowsFollowFeeds
<1>8. CheckInv'
  BY <1>1, <1>4, <1>6 DEF CheckInv
<1>9. SkipInv'
  <2>1. ASSUME NEW f \in Feed, NEW i \in Item, since'[f] < i, i <= cursor'[f]
        PROVE  Seen(f, i)'
    <3>1. CASE f \in live
      BY <1>1, <1>2, <1>5, <2>1, <3>1 DEF SkipInv, Seen, Namesake
    <3>2. CASE f \notin live
      <4>1. i <= 0
        BY <1>5, <2>1, <3>2
      <4> QED BY <4>1 DEF Item
    <3> QED BY <3>1, <3>2
  <2>2. \A c \in Checker : at'[c] # "handling"
    BY <1>1
  <2> QED BY <2>1, <2>2 DEF SkipInv
<1>10. OnceInv'
  <2>1. SUFFICES ASSUME NEW f \in live, f \notin overlapped'
        PROVE /\ since[f] <= cursor'[f] /\ cursor'[f] <= published
              /\ \A c \in Checker : ~Checks(c, f)'
              /\ \A i \in Item : <<f, i>> \notin repeated
              /\ \A i \in Item : fate[f][i] # "none" => since[f] < i /\ i <= cursor'[f]
    BY <1>1, <1>4 DEF OnceInv
  <2>2. f \in live \ overlapped /\ f \in Feed /\ cursor'[f] = cursor[f]
    BY <1>1, <1>4, <1>5, <2>1
  <2>3. \A c \in Checker : ~Checks(c, f)
    BY <1>1, <2>1 DEF Checks
  <2>4. \A c \in Checker : ~Checks(c, f)'
    BY <1>1 DEF Checks
  <2> QED BY <1>2, <2>2, <2>3, <2>4 DEF OnceInv
<1> QED BY <1>7, <1>8, <1>9, <1>10 DEF FeedsInv
-----------------------------------------------------------------------------
\* Every step keeps the invariant.
LEMMA NextKeeps == FeedsInv /\ [Next]_vars => FeedsInv'
<1> SUFFICES ASSUME FeedsInv, [Next]_vars PROVE FeedsInv'
  OBVIOUS
<1>1. CASE Publish
  BY <1>1, PublishKeeps
<1>2. CASE AddFeed
  BY <1>2, AddFeedKeeps
<1>3. CASE \E f \in Feed : PauseFeed(f) \/ ResumeFeed(f) \/ DeleteFeed(f)
  BY <1>3, TableKeeps
<1>4. CASE Tick
  BY <1>4, TickKeeps
<1>5. ASSUME NEW f \in Feed, Poll(f) PROVE FeedsInv'
  <2>1. f \in toPoll /\ toPoll' \subseteq toPoll /\ Begin("poller", f)
    BY <1>5 DEF Poll
  <2> QED BY <2>1, BeginKeeps DEF Checker
<1>6. ASSUME NEW f \in Feed, PressRun(f) PROVE FeedsInv'
  <2>1. f \in live /\ toPoll' \subseteq toPoll /\ Begin("button", f)
    BY <1>6 DEF PressRun
  <2> QED BY <2>1, BeginKeeps DEF Checker
<1>7. ASSUME NEW c \in Checker, CheckStep(c) PROVE FeedsInv'
  BY <1>7, FetchKeeps, CompareKeeps, HandleKeeps, MoveCursorKeeps DEF CheckStep
<1>8. CASE Restart
  BY <1>8, RestartKeeps
<1>9. CASE UNCHANGED vars
  <2>1. UNCHANGED <<published, title, live, feedCounter, cursor, paused, row, toPoll, at,
                    feed, newest, todo, handled, fate, since, excused, repeated,
                    overlapped, lives>>
    BY <1>9 DEF vars, sourceVars, tableVars, checkVars, historyVars
  <2>2. RowsFollowFeeds' <=> RowsFollowFeeds
    BY <2>1 DEF RowsFollowFeeds, TypeOK
  <2>3. CheckInv' /\ SkipInv' /\ OnceInv'
    BY <2>1 DEF FeedsInv, CheckInv, SkipInv, Seen, Namesake, OnceInv, Checks
  <2> QED BY <2>2, <2>3 DEF FeedsInv
<1> QED BY <1>1, <1>2, <1>3, <1>4, <1>5, <1>6, <1>7, <1>8, <1>9 DEF Next

\* The invariant behind the three properties of the feeds.
THEOREM InvHolds == Spec => []FeedsInv
<1> QED BY InitInv, NextKeeps, PTL DEF Spec

\* What a restart would read is the table, at every moment: no check in flight
\* brings a deleted feed back or undoes a pause (feed.go saveStateLocked).
THEOREM RowsFollowFeedsHolds == Spec => []RowsFollowFeeds
<1>1. FeedsInv => RowsFollowFeeds
  BY DEF FeedsInv
<1> QED BY <1>1, InvHolds, PTL

\* An item the cursor of a feed has passed was handled, passed over by one of
\* the two rules, or lost to a repeated title (feed.go CheckFeed), whatever
\* checks, commands and restarts.
THEOREM NothingSkippedHolds == Spec => []NothingSkipped
<1>1. FeedsInv => NothingSkipped
  BY DEF FeedsInv, SkipInv, Seen, Namesake, NothingSkipped, RowsFollowFeeds, TypeOK
<1> QED BY <1>1, InvHolds, PTL

\* Without overlapping checks and crashes within a check no item is handled
\* twice, and none that was shown when the feed was added.
THEOREM HandledOnceHolds == Spec => []HandledOnce
<1>1. FeedsInv => HandledOnce
  <2>1. FeedsInv => \A f \in live \ overlapped : \A i \in Item : since[f] < i => i > since[f]
    BY DEF FeedsInv, RowsFollowFeeds, TypeOK, Item
  <2> QED BY <2>1 DEF FeedsInv, OnceInv, HandledOnce
<1> QED BY <1>1, InvHolds, PTL
=============================================================================
