-------------------------------- MODULE MCPages --------------------------------
EXTENDS Pages

\* A search that may be approved for good, a tool that can only be edited or
\* rejected, and both together with their configs in the other order.
Config(n, a) == [name |-> n, allowed |-> a]
MCRequests ==
    {[tools |-> <<"search">>, configs |-> <<Config("search", {"approve", "edit", "reject"})>>],
     [tools |-> <<"sql">>, configs |-> <<Config("sql", {"edit", "reject"})>>],
     [tools |-> <<"search", "sql">>,
      configs |-> <<Config("sql", {"approve", "reject"}),
                    Config("search", {"approve", "edit", "reject"})>>]}

MCStores == {<<>>, <<"ann">>, <<"ann", "bob">>}

\* A folder with a file that may be sent and one that may not, and one with none to send.
Source(kind, ignored) == [kind |-> kind, ignored |-> ignored]
MCFolders == {[files |-> {Source("source", FALSE), Source("secret", FALSE)}, many |-> FALSE],
              [files |-> {Source("source", TRUE)}, many |-> FALSE]}

\* A large picture with one that is not supported, a text with a PDF.
File(name, mime, ext, large) == [name |-> name, mime |-> mime, ext |-> ext, large |-> large]
MCPicks == {{File("a", "image/png", "image", TRUE), File("c", "image/heic", "image", FALSE)},
            {File("b", "text/plain", "code", FALSE), File("d", "application/pdf", "other", FALSE)}}
MCLists == {[models |-> {"m1", "m2"}, current |-> "m2"], [models |-> {"m1"}, current |-> "m1"]}

\* A run that timed out, a pause that was already answered, a quota that is used up.
Failed == [timeout |-> FALSE, consumed |-> FALSE, policy |-> "none", busy |-> FALSE,
           fetch |-> FALSE, failed |-> TRUE]
MCErrors == {[Failed EXCEPT !.timeout = TRUE], [Failed EXCEPT !.consumed = TRUE],
             [Failed EXCEPT !.policy = "quota"]}

MCUploads == <<"f1", "f2">>

MCBound ==
    [inbox |-> [pauses |-> 2, retries |-> 1, events |-> 2],
     accounts |-> [calls |-> 2, events |-> 2, shared |-> 1],
     threads |-> [loads |-> 2, jobs |-> 2, events |-> 2],
     coding |-> [runs |-> 1, calls |-> 4, events |-> 2],
     composer |-> [reads |-> 2, sends |-> 2, events |-> 2],
     transcript |-> [messages |-> 6, events |-> 3],
     beside |-> [work |-> 2, events |-> 4]]
=============================================================================
