SPECIFICATION Spec
CONSTANTS
  Members = {1, 2, 3}
  Scores = {0, 1}
  ZSKIPLIST_MAXLEVEL = 3
  Keys = {0, 2, 4, 5}
  DICT_HT_INITIAL_SIZE = 1
  EmptyVisits = 2
  dict_force_resize_ratio = 1
  REDIS_HT_MINFILL = 20
  CursorBits = 4
  Numbers <- MCNumbers
  INT16_MAX = 7
  INT32_MAX = 31
  INT64_MAX = 127
  Elements <- MCElements
  MaxEntries = 5
  ZIP_BIGLEN = 8
  HalfRange <- MCHalfRange
  ZIP_INT_IMM = 0
  UINT16_MAX = 3
INVARIANT NeverTorn
