---------------------------------- MODULE MCBot ----------------------------------
(* A bot whose pool starts with two threads and may grow by one.           *)
EXTENDS Bot

Process(n, m, c) == [shards |-> n, clusters |-> m, cluster |-> c]

\* A bot of one process, alone or as a cluster of its own.
MCAlone == {Process(3, 0, 0), Process(2, 1, 0)}

\* Processes of bots of two and of three clusters.
MCClustered == {Process(4, 2, 0), Process(4, 2, 1), Process(8, 3, 2)}
=============================================================================
