---------------------------- MODULE MCInitOrder ----------------------------
(* Small instances of InitOrder for TLC.                                   *)
EXTENDS InitOrder

\* At most one name on either side and two priorities: the name of a pending
\* plugin, of an initialized one (0) or of none (9).
Names == PlugId \cup Other
SmallDecl ==
    [before : {{}} \cup {{n} : n \in Names}, after : {{}} \cup {{n} : n \in Names},
     priority : {1, 2}]

\* One name before and one after, of pending plugins alone, for longer walks.
WalkDecl == [before : {{}} \cup {{n} : n \in PlugId}, after : {{}} \cup {{n} : n \in PlugId},
             priority : {1}]
=============================================================================
