---------------------------- MODULE PreparedCall ----------------------------
(***************************************************************************)
(* A call of sol_attn whose summaries and thresholds are prepared before   *)
(* the thread blocks of its attention kernel start.                        *)
(***************************************************************************)
EXTENDS SolTile

CONSTANTS
  Junk,   \* what memory holds that nobody has written
  Calls   \* the calls that may be made

VARIABLES call, step, tail, kc, vc, stats, bar, threshold   \* see SolPrepare

Prepare == INSTANCE SolPrepare

ASSUME CallsNumbered == Prepare!Numbered

\* When the attention kernel starts, every summary it loads, in whole groups,
\* is the mean of exactly the block's own keys and the sum of its values, or
\* zero beyond the last block, and every query tile's threshold is made of its
\* own rows and of all key blocks (prepare, _pad_to_bucket; "Leaving them
\* uninitialized permits NaNs to enter the score tile", preprocess.py:378).
SummariesPrepared == Prepare!SummariesPrepared
=============================================================================
