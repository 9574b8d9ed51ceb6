------------------------ MODULE MCPartitionedRequest ------------------------
EXTENDS PartitionedRequest

Run(begin, end, kv) == [begin |-> begin, end |-> end, kv |-> kv]
Wire(q, kv, sink, runs) == [kv |-> kv, q |-> q, sink |-> sink, runs |-> runs]

\* Two tiles of queries, the first of them met by two runs; a tile whose runs
\* lie too far apart; and a map for too many tiles for the descriptor cache.
Window == Wire(4, 10, 2, <<Run(0, 1, 2), Run(1, 4, 4)>>)
Shifted == Wire(4, 10, 2, <<Run(0, 4, 5)>>)
Torn == Wire(4, 10, 2, <<Run(0, 1, 0), Run(1, 4, 7)>>)

Flow(wire, forced, prefix, measure, local) ==
  [kv |-> 10, q |-> 4, sink |-> 2, wire |-> wire, forced |-> forced, prefix |-> prefix,
   measure |-> measure, local |-> local, api |-> "flow", digest |-> "d"]
Vdn(wire) ==
  [kv |-> 10, q |-> 4, sink |-> 2, wire |-> wire, forced |-> FALSE, prefix |-> None,
   measure |-> 0, local |-> TRUE, api |-> "vdn", digest |-> "d"]

MCCalls ==
  {Flow(Window, FALSE, <<2, 4>>, -1, TRUE),
   Flow(Shifted, FALSE, None, 0, TRUE),
   Flow(None, FALSE, <<0, 4>>, -2, FALSE),
   Flow(Torn, TRUE, <<2, 4>>, -1, FALSE),
   Vdn(Window)}

MCLengths == {<<3, 0>>, <<2, 1>>, <<1, 3>>}
MCMaxBias == [entries |-> 2, bytes |-> 15]
MCMaxMapped == [entries |-> 1, bytes |-> 6]

MCSymmetry ==
  Permutations(Streams) \union Permutations(Pairs)
=============================================================================
