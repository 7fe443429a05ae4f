---------------------------- MODULE MCMigration -----------------------------
\* Small instance of Migration: a record that converts to nothing and one that
\* converts to two records, in two segments; the source may grow by two more.
EXTENDS Migration

CONSTANTS r, s, x, y

MCConvert == [z \in Rec |-> IF z = r THEN <<x, y>> ELSE << >>]
MCSource == <<<<r>>, <<s, r>>>>
=============================================================================
