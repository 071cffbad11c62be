------------------------------ MODULE Terminal ------------------------------
(* One browser: the session, the page on screen, the query cache and the     *)
(* requests under way, against an API that other people use too. Queries do  *)
(* not influence one another, so a behaviour watches one query and one       *)
(* mutation of the interface; users log in and out and move between pages.   *)
(* The cache behaves as TanStack Query does with the options given here.     *)
EXTENDS Interface, Integers

CONSTANTS
    MaxWrites,       \* bound: successful mutations
    None

Parameters == MaxWrites \in Nat /\ None \notin Anyone

VARIABLES
    watched, offered,  \* the query and the mutation of this behaviour
    session,           \* role of the user logged in, or None
    page,
    data,              \* version of what the API would answer
    cache,             \* <<>> or <<[by, version]>>: by whom and when it was read
    invalid,           \* the entry has been invalidated
    get,               \* the query under way: None or [by, version], -1 before it is read
    write,             \* the mutation under way: None or [by, version]
    needed,            \* version the user has been told of, with no older answer under way
    forbidden          \* some answer was 403

vars == <<watched, offered, session, page, data, cache, invalid, get, write, needed, forbidden>>

Unread == -1
Fresh(user) == [by |-> user, version |-> Unread]
\* The queries mounted with a page and the mutations offered on it.
Mounted(user, p) ==
    Layout \cup p.queries \cup (IF user = "ADMIN" THEN p.adminQueries ELSE {})
OnOffer(user, p) == p.offers \cup (IF user = "ADMIN" THEN p.adminOffers ELSE {})
OnScreen == session # None /\ watched.name \in Mounted(session, page)
\* Where a session starts, and where AdminRoute lets it go.
Home(user) == IF user = "ADMIN" THEN DashboardPage ELSE NewSalePage
Landing(user, p) == IF user = "ADMIN" \/ p \in OpenPages THEN p ELSE NewSalePage

\* Pages a behaviour moves between: those where something can happen.
Related == {p \in Pages :
    \/ watched.name \in p.queries \cup p.adminQueries
    \/ offered.name \in p.offers \cup p.adminOffers}
\* Pairs worth watching: a mutation that touches the query, any query with a
\* sale, any mutation with the query of the layout.
Worthwhile(query, hook) ==
    Stale(hook, query) \/ Seeded(hook, query) \/ hook.name = "checkout" \/ query.name = "timeTrust"

Init ==
    /\ watched \in Queries /\ offered \in Mutations /\ Worthwhile(watched, offered)
    /\ session = None /\ page = NewSalePage
    /\ data = 0 /\ cache = <<>> /\ invalid = FALSE
    /\ get = None /\ write = None /\ needed = 0 /\ forbidden = FALSE

-----------------------------------------------------------------------------
\* A query mounts: it is fetched unless one is under way or the entry is fresh.
Mount(user, p, stale) ==
    IF watched.name \in Mounted(user, p) /\ get = None /\ (cache = <<>> \/ invalid \/ stale)
    THEN get' = Fresh(user) ELSE UNCHANGED get

Login(user) ==
    /\ session = None
    /\ session' = user
    /\ page' \in {Home(user)} \cup {Landing(user, p) : p \in Related}
    /\ Mount(user, page', FALSE)
    /\ UNCHANGED <<watched, offered, data, cache, invalid, write, needed, forbidden>>

\* authStore.clear: its subscriber clears the cache, which cancels the queries.
\* Variant with a mistake: only the subscription of React is notified.
EndSessionOnly ==
    /\ session' = None
    /\ UNCHANGED <<cache, invalid, get>>
EndSession ==
    /\ session' = None
    /\ cache' = <<>> /\ invalid' = FALSE /\ get' = None
Logout ==
    /\ session # None /\ EndSession
    /\ UNCHANGED <<watched, offered, page, data, write, needed, forbidden>>
\* 401 for a query or a mutation under way, whoever sent the mutation.
Unauthorized ==
    /\ session # None
    /\ \/ get # None /\ EndSession /\ UNCHANGED write
       \/ write # None /\ EndSession /\ write' = None
    /\ UNCHANGED <<watched, offered, page, data, needed, forbidden>>

\* Links, or the address typed; an entry older than 30 s is stale.
Visit(p) ==
    /\ session # None
    /\ page' = Landing(session, p)
    /\ \E stale \in BOOLEAN : Mount(session, page', stale)
    /\ UNCHANGED <<watched, offered, session, data, cache, invalid, write, needed, forbidden>>

\* The session comes back from the storage; the requests are abandoned, and
\* the mutation may reach the API all the same.
Reload ==
    /\ session # None
    /\ cache' = <<>> /\ invalid' = FALSE /\ write' = None
    /\ get' = IF watched.name \in Mounted(session, page) THEN Fresh(session) ELSE None
    /\ data' \in {data} \cup
         (IF write # None /\ write.version = Unread /\ write.by \in offered.roles
          THEN {data + 1} ELSE {})
    /\ UNCHANGED <<watched, offered, session, page, needed, forbidden>>

-----------------------------------------------------------------------------
\* The API reads, if the role of the token suffices.
AnswerQuery ==
    /\ get # None /\ get.version = Unread
    /\ IF get.by \in watched.roles
       THEN get' = [get EXCEPT !.version = data] /\ UNCHANGED forbidden
       ELSE get' = None /\ forbidden' = TRUE
    /\ UNCHANGED <<watched, offered, session, page, data, cache, invalid, write, needed>>
QueryArrives ==
    /\ get # None /\ get.version # Unread
    /\ cache' = <<get>> /\ invalid' = FALSE /\ get' = None
    /\ UNCHANGED <<watched, offered, session, page, data, write, needed, forbidden>>
\* After the retries; the entry stays as it is.
QueryFails ==
    /\ get # None /\ get' = None
    /\ UNCHANGED <<watched, offered, session, page, data, cache, invalid, write, needed, forbidden>>

Submit ==
    /\ session # None /\ offered.name \in OnOffer(session, page)
    /\ write = None /\ data < MaxWrites
    /\ write' = Fresh(session)
    /\ UNCHANGED <<watched, offered, session, page, data, cache, invalid, get, needed, forbidden>>
ApplyWrite ==
    /\ write # None /\ write.version = Unread
    /\ IF write.by \in offered.roles
       THEN /\ data' = data + 1 /\ write' = [write EXCEPT !.version = data']
            /\ UNCHANGED forbidden
       ELSE write' = None /\ forbidden' = TRUE /\ UNCHANGED data
    /\ UNCHANGED <<watched, offered, session, page, cache, invalid, get, needed>>
WriteFails ==
    /\ write # None /\ write.version = Unread /\ write' = None
    /\ UNCHANGED <<watched, offered, session, page, data, cache, invalid, get, needed, forbidden>>

\* Invalidation fetches again what is on screen. A query under way is
\* cancelled only if its entry has data: a first load goes on, and so does a
\* query that is off screen.
Refetch(stale) ==
    get' = IF stale /\ OnScreen /\ (get = None \/ cache # <<>>) THEN Fresh(session) ELSE get
Invalidate(stale) ==
    /\ invalid' = IF stale THEN cache # <<>> ELSE invalid
    /\ Refetch(stale)
\* An answer read before the given version, on its way.
Outdated(answer, version) ==
    answer # None /\ answer.version # Unread /\ answer.version < version
\* onSuccess: invalidate, then write the answer itself into its entry.
WriteSucceeds ==
    LET stale == Stale(offered, watched) IN
    /\ write # None /\ write.version # Unread
    /\ write' = None
    /\ IF Seeded(offered, watched)
       THEN cache' = <<write>> /\ invalid' = FALSE /\ Refetch(stale)
       ELSE UNCHANGED cache /\ Invalidate(stale)
    /\ needed' = IF stale /\ ~Outdated(get', write.version) THEN write.version ELSE needed
    /\ UNCHANGED <<watched, offered, session, page, data, forbidden>>

-----------------------------------------------------------------------------
Next ==
    \/ \E u \in Anyone : Login(u)
    \/ Logout \/ Unauthorized
    \/ \E p \in Related : Visit(p)
    \/ Reload
    \/ AnswerQuery \/ QueryArrives \/ QueryFails
    \/ Submit \/ ApplyWrite \/ WriteFails \/ WriteSucceeds

Spec == Init /\ [][Next]_vars

-----------------------------------------------------------------------------
\* Types of the variables.
TypeOK ==
    /\ watched \in Queries /\ offered \in Mutations
    /\ session \in Anyone \cup {None} /\ page \in Pages
    /\ data \in 0 .. MaxWrites /\ needed \in 0 .. data
    /\ get = None \/ get.version \in Unread .. data
    /\ write = None \/ write.version \in Unread .. data
    /\ cache = <<>> \/ cache[1].version \in 0 .. data
    /\ {invalid, forbidden} \subseteq BOOLEAN

(* Routes and buttons agree with the guards of the controllers: whatever a   *)
(* page shows or offers to a user, the API does not refuse it for the role   *)
(* (App.tsx, AdminRoute.tsx, isAdmin in the pages, roles.guard.ts).          *)
NeverForbidden == ~forbidden

(* Nothing on screen was read in an earlier session: the cache is cleared    *)
(* with the session (query-client.ts). Entries that a mutation still under   *)
(* way at logout writes with setQueryData are not covered.                   *)
NoStrangersData ==
    OnScreen /\ cache # <<>> /\ ~Seeded(offered, watched) =>
        cache[1].by = session

(* What a hook invalidates is seen: after the user's own change, a settled   *)
(* page shows nothing older, even if an answer read before the change was on *)
(* its way to an entry on screen that already had data (invalidateQueries in *)
(* the hooks). An older answer to a first load, or to a query off screen, is *)
(* not cancelled and makes the entry count as fresh (Refetch).               *)
OwnWritesShown ==
    OnScreen /\ get = None /\ cache # <<>> /\ ~invalid => cache[1].version >= needed
=============================================================================
