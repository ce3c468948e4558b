---------------------------- MODULE SharedStream ----------------------------
(***************************************************************************)
(* What a client of a durable stream promises those who watch a device:    *)
(* there is one stream, shared by whoever watches it.                      *)
(* It is held only while somebody watches, it is looked for as long as     *)
(* somebody does and the backend may serve it, and only the backend's word *)
(* that the device is gone parks the search, until the next card comes.    *)
(* SubscriptionStore implements this for the cards of a page and every     *)
(* device, LiveStreams for the panel and a core stream of its session.     *)
(***************************************************************************)
CONSTANT Cards  \* who may watch: the cards of a page, or the panel

VARIABLES
    watchers,   \* the cards that watch the device
    feed,       \* "off", "seeking", "held" or "parked"
    serving     \* the backend would accept a subscription

vars == <<watchers, feed, serving>>

Init == watchers = {} /\ feed = "off" /\ serving \in BOOLEAN

\* The feed once cards W watch: a card that comes revives a parked search, and
\* may know a newer connection than the one the stream is held on.
FeedsOf(W) ==
    IF W = {} THEN {"off"}
    ELSE IF W \subseteq watchers THEN {feed}
    ELSE {"seeking"} \cup ({feed} \cap {"held"})

\* Who comes or goes may come from, or go to, what the backend serves or does not.
Rewatch ==
    /\ watchers' # watchers
    /\ watchers' \subseteq Cards
    /\ feed' \in FeedsOf(watchers')
    /\ serving' \in BOOLEAN

Attach == feed = "seeking" /\ feed' = "held" /\ UNCHANGED <<watchers, serving>>

\* The backend does not know the device, or does not answer.
Park == ~serving /\ feed = "seeking" /\ feed' = "parked" /\ UNCHANGED <<watchers, serving>>

\* The stream, or the place it was parked, is left for a new search.
Lose == feed \in {"held", "parked"} /\ feed' = "seeking" /\ UNCHANGED <<watchers, serving>>

Backend == serving' = ~serving /\ UNCHANGED <<watchers, feed>>

Next == Rewatch \/ Attach \/ Park \/ Lose \/ Backend

\* A search succeeds where the backend stays ready for it.
Spec == Init /\ [][Next]_vars /\ WF_vars(serving /\ Attach)
=============================================================================
