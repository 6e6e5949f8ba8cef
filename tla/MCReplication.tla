--------------------------- MODULE MCReplication ---------------------------
EXTENDS Replication

CONSTANTS a, b, f, g

Setup(k, file, writable, pingers) ==
    [kind |-> (a :> "writer") @@ (b :> k), home |-> (a :> f) @@ (b :> file),
     writable |-> writable, pingers |-> pingers]

\* a is a writer on the file f.
AllSetups ==
    {Setup("writer", f, TRUE, {}), Setup("writer", g, TRUE, {}),
     Setup("server_file", g, TRUE, {b}), Setup("follower", g, TRUE, {}),
     Setup("follower", g, FALSE, {b})}

TwoSetups == {Setup("writer", g, TRUE, {}), Setup("follower", g, TRUE, {})}
=============================================================================
