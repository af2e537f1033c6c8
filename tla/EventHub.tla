------------------------------ MODULE EventHub ------------------------------
(***************************************************************************)
(* Realtime hints (internal/events/hub.go, eventStream): a change is       *)
(* committed and then announced to the streams of the organization, each   *)
(* with a bounded buffer that drops what does not fit.  A page reacts to a *)
(* hint by fetching again, and fetches every few seconds anyway (web/lib). *)
(* Hints carry a topic and no data.                                        *)
(***************************************************************************)
EXTENDS Naturals, Sequences, SequencesExt

CONSTANTS
    Page,         \* open pages of one organization
    Topic,        \* topics
    Cap,          \* capacity of a subscriber's channel
    MaxVersion    \* bound: changes of a topic

ASSUME EventHubAssumption == Cap \in Nat \ {0} /\ MaxVersion \in Nat

VARIABLES
    version,      \* the data behind each topic
    due,          \* committed changes whose hint is not published yet
    subs,         \* pages with a subscribed stream
    buffer,       \* the channels
    fetch,        \* fetches of a page: none, asked for, or the answer under way
    shown,        \* what each page shows
    missed        \* topics whose hint a page did not get (history)

hubVars == <<version, due, subs, buffer, fetch, shown, missed>>

-----------------------------------------------------------------------------
Version == 0 .. MaxVersion

NoFetch == [at |-> "none", got |-> 0]
Asked   == [at |-> "asked", got |-> 0]

HTypeOK ==
    /\ version \in [Topic -> Version]
    /\ due \subseteq Topic
    /\ subs \subseteq Page
    /\ buffer \in [Page -> Seq(Topic)]
    /\ \A p \in Page : Len(buffer[p]) <= Cap
    /\ fetch \in [Page -> [Topic -> [at: {"none", "asked", "read"}, got: Version]]]
    /\ shown \in [Page -> [Topic -> Version]]
    /\ missed \in [Page -> SUBSET Topic]

HInit ==
    /\ version = [t \in Topic |-> 0]
    /\ due = {}
    /\ subs = {}
    /\ buffer = [p \in Page |-> <<>>]
    /\ fetch = [p \in Page |-> [t \in Topic |-> NoFetch]]
    /\ shown = [p \in Page |-> [t \in Topic |-> 0]]
    /\ missed = [p \in Page |-> {}]

-----------------------------------------------------------------------------
\* Mutant of Change: the change is not announced.
ChangeSilent(t) ==
    /\ version[t] < MaxVersion
    /\ version' = [version EXCEPT ![t] = @ + 1]
    /\ UNCHANGED <<due, subs, buffer, fetch, shown, missed>>

\* A change that the code announces is committed: a transition of a workload, a
\* stream or inventory of a node, a change of the members.
Change(t) ==
    /\ version[t] < MaxVersion
    /\ version' = [version EXCEPT ![t] = @ + 1]
    /\ due' = due \cup {t}
    /\ UNCHANGED <<subs, buffer, fetch, shown, missed>>

\* Mutant of Room: one place too many.
RoomPlus(p) == Len(buffer[p]) <= Cap

Room(p) == Len(buffer[p]) < Cap

\* Publish never waits: a full channel drops the hint.
Publish(t) ==
    /\ t \in due
    /\ due' = due \ {t}
    /\ buffer' = [p \in Page |->
           IF p \in subs /\ Room(p) THEN Append(buffer[p], t) ELSE buffer[p]]
    /\ missed' = [p \in Page |->
           IF p \in subs /\ (Room(p) \/ t \in ToSet(buffer[p])) THEN missed[p] ELSE missed[p] \cup {t}]
    /\ UNCHANGED <<version, subs, fetch, shown>>

Subscribe(p) ==
    /\ p \notin subs
    /\ subs' = subs \cup {p}
    /\ UNCHANGED <<version, due, buffer, fetch, shown, missed>>

\* The stream ends; what is in the channel is gone.
Cancel(p) ==
    /\ p \in subs
    /\ subs' = subs \ {p}
    /\ missed' = [missed EXCEPT ![p] = @ \cup ToSet(buffer[p])]
    /\ buffer' = [buffer EXCEPT ![p] = <<>>]
    /\ UNCHANGED <<version, due, fetch, shown>>

\* eventStream hands the next hint on: the page drops a fetch under way and
\* fetches again.
eventStream(p) ==
    /\ p \in subs /\ buffer[p] # <<>>
    /\ buffer' = [buffer EXCEPT ![p] = Tail(@)]
    /\ fetch' = [fetch EXCEPT ![p][Head(buffer[p])] = Asked]
    /\ UNCHANGED <<version, due, subs, shown, missed>>

\* The interval of the query.
Poll(p, t) ==
    /\ fetch[p][t].at = "none"
    /\ fetch' = [fetch EXCEPT ![p][t] = Asked]
    /\ UNCHANGED <<version, due, subs, buffer, shown, missed>>

Read(p, t) ==
    /\ fetch[p][t].at = "asked"
    /\ fetch' = [fetch EXCEPT ![p][t] = [at |-> "read", got |-> version[t]]]
    /\ missed' = [missed EXCEPT ![p] = @ \ {t}]
    /\ UNCHANGED <<version, due, subs, buffer, shown>>

Show(p, t) ==
    /\ fetch[p][t].at = "read"
    /\ shown' = [shown EXCEPT ![p][t] = fetch[p][t].got]
    /\ fetch' = [fetch EXCEPT ![p][t] = NoFetch]
    /\ UNCHANGED <<version, due, subs, buffer, missed>>

HNext ==
    \/ \E t \in Topic : Change(t) \/ Publish(t)
    \/ \E p \in Page :
          \/ Subscribe(p) \/ Cancel(p) \/ eventStream(p)
          \/ \E t \in Topic : Poll(p, t) \/ Read(p, t) \/ Show(p, t)

HSpec == HInit /\ [][HNext]_hubVars

-----------------------------------------------------------------------------
\* A page that shows old data has the hint ahead of it (to be published, in its
\* channel, or being fetched for), or it missed one: a full channel loses a
\* topic only when it holds nothing of that topic.
StaleIsAnnounced ==
    \A p \in Page, t \in Topic :
        shown[p][t] # version[t] =>
            \/ t \in due \cup ToSet(buffer[p]) \cup missed[p]
            \/ fetch[p][t].at = "asked"
            \/ fetch[p][t].at = "read" /\ fetch[p][t].got = version[t]
=============================================================================
