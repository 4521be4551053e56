------------------------- MODULE PlatformaticConnection -------------------------
(***************************************************************************)
(* connect() and disconnect() of src/src/adapters/platformatic/index.ts:   *)
(* one attempt at a time opens the producer and the admin client, and a    *)
(* disconnect may overtake it.  The harbor calls disconnect() once, and    *)
(* connect() never after it.                                               *)
(***************************************************************************)

VARIABLES
    attempt,      \* the await open() stands at: none, loading, brokers
    overtaken,    \* whether its `opening` is aborted
    clients,      \* whether there are clients, of the attempt or the connection
    connected,    \* whether `state` is set
    released      \* whether disconnect() was called

connection == <<attempt, overtaken, clients, connected, released>>

Connect ==
    /\ ~connected /\ attempt = "none" /\ ~released
    /\ attempt' = "loading"
    /\ overtaken' = FALSE
    /\ UNCHANGED <<clients, connected, released>>

\* The module is loaded: the clients are built, unless a disconnect came first.
Loaded ==
    /\ attempt = "loading"
    /\ attempt' = IF overtaken THEN "none" ELSE "brokers"
    /\ clients' = ~overtaken
    /\ UNCHANGED <<overtaken, connected, released>>

\* The brokers answered all clients.  Nobody would close those of an attempt
\* that was overtaken, so it does.
Reached ==
    /\ attempt = "brokers"
    /\ attempt' = "none"
    /\ connected' = ~overtaken
    /\ clients' = ~overtaken
    /\ UNCHANGED <<overtaken, released>>

AttemptFails ==
    /\ attempt \in {"loading", "brokers"}
    /\ attempt' = "none"
    /\ clients' = FALSE
    /\ UNCHANGED <<overtaken, connected, released>>

\* disconnect(), the consumptions apart.
Disconnect ==
    /\ ~released
    /\ released' = TRUE
    /\ overtaken' = (attempt # "none")
    /\ connected' = FALSE
    /\ clients' = (clients /\ ~connected)
    /\ UNCHANGED attempt

Disconnected == attempt = "none" /\ overtaken = FALSE /\ clients = FALSE
                /\ connected = FALSE /\ released = FALSE

ConnectionTypeOK ==
    /\ attempt \in {"none", "loading", "brokers"}
    /\ {overtaken, clients, connected, released} \subseteq BOOLEAN
=============================================================================
