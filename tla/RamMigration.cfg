\* Two RAM blocks of two pages, the one at RAM offset 0 last in ram_list
\* (blocks are inserted at the head), so the scan merges KVM's log in the
\* middle of a pass; one fill byte and the Mixed content, so pages go both
\* compressed and whole.
CONSTANTS
  NB = 2
  PB = 2
  ZeroBlock = 2
  Fills = {0}
  Mixed = Mixed
  RateCap = 2
  MaxWrites = 3
SPECIFICATION FairSpec
INVARIANTS TypeOK NoLostWrite NoNullBlock
PROPERTIES MigrationConverges
CHECK_DEADLOCK FALSE
