---------------------------- MODULE Stewardship ----------------------------
(***************************************************************************)
(* What a managed resource promises about what it creates: at any time it  *)
(* stands for one external resource at most, it creates another only when  *)
(* that one is no longer live, and it goes only when that one has gone.    *)
(* The two ways to lose sight of a resource are the two faults no client   *)
(* of the API can mask: the reply to its creation is lost, or the process  *)
(* ends before the identifier is written down; after the latter nothing is *)
(* created any more.                                                       *)
(*                                                                         *)
(* Nothing is said of caches, copies, locks, annotations or finalizers:    *)
(* module ManagedResource has them, and implements this.                   *)
(***************************************************************************)
CONSTANTS
    ID,        \* external resources
    None       \* the object stands for none

VARIABLES
    here,      \* the object exists
    held,      \* the resource it stands for
    live,      \* the resources created for it that are live
    orphans,   \* those it has lost sight of
    stopped    \* it creates no more

svars == <<here, held, live, orphans, stopped>>

Init ==
    /\ here = TRUE /\ held \in ID \cup {None}
    /\ live = {} /\ orphans = {} /\ stopped = FALSE

\* A resource is created, and held unless the reply is lost.
Create(i) ==
    /\ here /\ ~stopped /\ held \notin live
    /\ i \notin live \cup orphans
    /\ live' = live \cup {i}
    /\ \/ held' = i /\ UNCHANGED orphans
       \/ orphans' = orphans \cup {i} /\ UNCHANGED held
    /\ UNCHANGED <<here, stopped>>

\* The process ends before the identifier is recorded.
Crash ==
    /\ here /\ ~stopped
    /\ orphans' = orphans \cup {held} /\ stopped' = TRUE
    /\ held' \in (ID \cup {None}) \ live
    /\ UNCHANGED <<here, live>>

\* A resource is archived or deleted, by the provider or by hand.
Retire(i) == i \in live /\ live' = live \ {i} /\ UNCHANGED <<here, held, orphans, stopped>>

LetGo == here /\ held \notin live /\ here' = FALSE /\ UNCHANGED <<held, live, orphans, stopped>>

Next ==
    \/ \E i \in ID : Create(i) \/ Retire(i)
    \/ Crash \/ LetGo

Spec == Init /\ [][Next]_svars
============================================================================
