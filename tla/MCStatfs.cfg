CONSTANTS
  Pages = {"test", "sizefirst", "nothing", "titled", "plaindiv", "twice"}
  Document <- MCDocument
  MaxIndexnodes = 3
  ULONG_MOD = 16
  BLKSIZE = 2
SPECIFICATION Spec
INVARIANTS ReplyIsTheSum FreedOnlyByRepeats AnsweredUnlessSilent
CHECK_DEADLOCK FALSE
