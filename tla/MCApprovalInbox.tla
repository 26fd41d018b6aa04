--------------------------- MODULE MCApprovalInbox ---------------------------
EXTENDS ApprovalInbox

Config(n, a) == [name |-> n, allowed |-> a]

\* A search that may be approved for good, a tool that can only be edited or
\* rejected, and both together with their configs in the other order.
MCRequests ==
    {[tools |-> <<"search">>, configs |-> <<Config("search", Types)>>],
     [tools |-> <<"sql">>, configs |-> <<Config("sql", {"edit", "reject"})>>],
     [tools |-> <<"search", "sql">>,
      configs |-> <<Config("sql", {"approve", "reject"}), Config("search", Types)>>]}
=============================================================================
