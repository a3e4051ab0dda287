------------------------------ MODULE MCBrowse ------------------------------
\* Two partitions of unequal length with a transaction marker, an offset that
\* is compacted away and a tail still to be produced; pages of two messages.
EXTENDS Browse

MCLog == (1 :> <<"hit", "control", "plain", "plain">>) @@ (2 :> <<"hit", "gap">>)
MCFirstEnd == (1 :> 2) @@ (2 :> 1)
MCQueries == {
    [mode |-> "EARLIEST", text |-> "", at |-> 0],
    [mode |-> "TAILING", text |-> "", at |-> 0],
    [mode |-> "TO_TIMESTAMP", text |-> "hit", at |-> 2] }
MCLanding == {q \in MCQueries : q.mode = "EARLIEST"}
=============================================================================
