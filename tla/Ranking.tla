------------------------------- MODULE Ranking -------------------------------
(* What the account server promises of a table of its database: a map from    *)
(* keys to values, and the file it was last written to.  A crash while the    *)
(* file is written leaves a part of it; a restart reads what is there.        *)
CONSTANTS Keys, Values, None

VARIABLES entries, saved

rankingVars == <<entries, saved>>

RankingInit == entries = [k \in Keys |-> None] /\ saved = [k \in Keys |-> None]

Put(k, v) == entries' = [entries EXCEPT ![k] = v] /\ UNCHANGED saved

Remove(k) == entries' = [entries EXCEPT ![k] = None] /\ UNCHANGED saved

Save == saved' = entries /\ UNCHANGED entries

Restart == entries' = saved /\ UNCHANGED saved

\* The process ends while it writes and is started again.
SaveCut ==
    \E written \in SUBSET Keys :
        /\ saved' = [k \in Keys |-> IF k \in written THEN entries[k] ELSE None]
        /\ entries' = saved'

RankingNext == \/ Save \/ Restart
               \/ \E k \in Keys : Remove(k)
               \/ \E k \in Keys, v \in Values : Put(k, v)
               \/ SaveCut

RankingSpec == RankingInit /\ [][RankingNext]_rankingVars
==============================================================================
