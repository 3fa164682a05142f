------------------------------ MODULE PageStore ------------------------------
(***************************************************************************)
(* What the processes may expect of the memory, however pages move between *)
(* frames and disk: each page has one holder, nobody but its holder, while *)
(* it is the one that uses the memory, changes what the page holds, nobody *)
(* takes a page that is held unless it belongs to a shared region, and the *)
(* store may at worst forget a page.  Nothing here says what a page holds  *)
(* that comes back after it was forgotten.                                 *)
(***************************************************************************)
CONSTANTS
    Pages, Processes, Values, Nobody, Unknown,
    Shared   \* pages of shared regions

VARIABLES
    store,   \* what each page holds, or Unknown
    holder,  \* the process each page belongs to, or Nobody
    actor    \* the process that uses the memory

storeVars == <<store, holder, actor>>

Init ==
    /\ store \in [Pages -> Values \cup {Unknown}]
    /\ holder \in [Pages -> Processes \cup {Nobody}]
    /\ actor \in Processes

\* The actor writes one of its pages.
Write ==
    /\ \E v \in Pages, x \in Values :
          /\ holder[v] = actor
          /\ store[v] # Unknown
          /\ store' = [store EXCEPT ![v] = x]
    /\ UNCHANGED <<holder, actor>>

\* A page of the actor comes into memory.
Recall ==
    /\ \E v \in Pages, x \in Values :
          /\ holder[v] = actor
          /\ store[v] = Unknown
          /\ store' = [store EXCEPT ![v] = x]
    /\ UNCHANGED <<holder, actor>>

Keeps(v) == store'[v] = store[v] /\ holder'[v] = holder[v]

Loses(v) ==
    /\ store'[v] = Unknown
    /\ \/ holder'[v] = holder[v]
       \/ holder[v] = Nobody /\ holder'[v] = actor'
       \/ v \in Shared

\* Pages are forgotten.  One that nobody holds may go to the actor, one of a
\* shared region to anybody.  The actor may change.
Forget ==
    /\ actor' \in Processes
    /\ store' \in [Pages -> Values \cup {Unknown}]
    /\ holder' \in [Pages -> Processes \cup {Nobody}]
    /\ \A v \in Pages : Keeps(v) \/ Loses(v)

\* The store gives up every page at once.
GiveUp ==
    /\ actor' \in Processes
    /\ store' = [v \in Pages |-> Unknown]
    /\ holder' = [v \in Pages |-> Nobody]

Next == Write \/ Recall \/ Forget \/ GiveUp

Spec == Init /\ [][Next]_storeVars

=============================================================================
