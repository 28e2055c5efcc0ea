---------------------------- MODULE AbstractLock ----------------------------
(***************************************************************************)
(* What the write lock of the game manager promises its clients: it has at *)
(* most one holder, it is given only to a call that is waiting for it,     *)
(* only while nobody holds it, and a holder gives way to nobody but        *)
(* through a release.  A call that waits cannot be withdrawn: the RPC      *)
(* blocks in sync.Mutex.Lock, which has no timeout and no cancellation.    *)
(***************************************************************************)
CONSTANTS Client,   \* the connections, by the id TagConn gives them
          Call,     \* the RPC calls that can be inside the server at once
          NoClient  \* nobody

VARIABLES holder,   \* the client that holds the lock, or NoClient
          asking    \* the pairs <<call, client>> that wait for the lock

vars == <<holder, asking>>

TypeOK == /\ holder \in Client \cup {NoClient}
          /\ asking \subseteq Call \X Client

Init == holder = NoClient /\ asking = {}

Ask(k, c) == /\ \A d \in Client : <<k, d>> \notin asking
             /\ asking' = asking \cup {<<k, c>>}
             /\ UNCHANGED holder

Grant(k, c) == /\ <<k, c>> \in asking
               /\ holder = NoClient
               /\ holder' = c
               /\ asking' = asking \ {<<k, c>>}

Release == /\ holder # NoClient
           /\ holder' = NoClient
           /\ UNCHANGED asking

Next == \/ \E k \in Call, c \in Client : Ask(k, c) \/ Grant(k, c)
        \/ Release

Spec == Init /\ [][Next]_vars
=============================================================================
