\* One feed, the poller and the run button, a source that outruns both rules
\* and repeats titles.
CONSTANTS
  MaxItems = 3
  Shown = 2
  Rollover = 1
  Repeaters = {2, 3}
  MaxFeeds = 1
  MaxLives = 2
SPECIFICATION FairSpec
INVARIANTS
  RowsFollowFeeds
  NothingSkipped
  HandledOnce
PROPERTIES
  ItemsHandled
CHECK_DEADLOCK FALSE
