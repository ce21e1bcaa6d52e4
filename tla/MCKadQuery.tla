---- MODULE MCKadQuery ----
EXTENDS KadQuery

Op(type, count, seeds, local) == [type |-> type, count |-> count, seeds |-> seeds, local |-> local]
\* Every operation, with and without seeds, with and without a local answer.
All ==
    {Op(type, 0, {1, 2}, << >>) : type \in {"PutRecord", "AddProvider", "FindPeer"}}
    \cup {Op("GetClosestPeers", 0, {0, 1, 2}, << >>), Op("PutRecord", 0, {}, << >>), Op("GetProviders", 1, {1, 2}, <<Self>>),
          Op("GetProviders", 2, {1, 2}, <<Self>>), Op("GetProviders", 0, {1, 2}, << >>),
          Op("GetRecord", 1, {1, 2}, << >>), Op("GetRecord", 2, {1, 2}, <<Self>>), Op("GetRecord", 1, {}, <<Self>>)}
Answers == {{}, {0, Self}, {1}}
Lists == {<< >>, <<2>>, <<2, 1>>}
====
