----------------------------- MODULE MCListView -----------------------------
\* Three items on pages of two, the one of the second page internal.
EXTENDS ListView
MCNames == {"a", "b", "i"}
MCSorted == [S \in SUBSET MCNames |->
                SelectSeq(<<"a", "b", "i">>, LAMBDA r : r \in S)]
MCMatching == [x |-> {"a", "i"}, f |-> {"b"}]
=============================================================================
