------------------------------ MODULE QueryCache ------------------------------
(***************************************************************************)
(* One query of the front end, as the React Query cache (lib/queryClient.js) *)
(* keeps it, and the mutations of the page that shows it.  Any of the      *)
(* project's queries, on any of the pages of module Hooks: the run starts  *)
(* with each of them.                                                      *)
(*                                                                         *)
(* The data of the query are numbered: `version` counts the writes the     *)
(* server has made to what the query reads.                                *)
(***************************************************************************)
EXTENDS Naturals, Hooks

CONSTANTS
  Requests,     \* mutations that may be in flight at once (a bound)
  MaxVersion    \* writes to what the query reads (a bound)

ASSUME VersionAssumption == MaxVersion \in Nat \ {0}

VARIABLES
  screen,     \* the page the user is on
  query,      \* the query followed, one of those the page shows
  version,    \* at the server
  due,        \* the last version written by an answered mutation of this page
              \* that is to tell the query
  shown,      \* version in the cache, 0 before any
  stale,      \* invalidated, or older than staleTime
  mounted,
  fetch,      \* the fetch in progress
  mut,        \* the mutations in progress
  missed      \* an invalidation came during a fetch it could not cancel, or an
              \* answer or a fetch was lost

cacheVars == <<screen, query, version, due, shown, stale, mounted, fetch, mut, missed>>

NoFetch == [at |-> "none", got |-> 0, retried |-> FALSE]
Sent == [at |-> "sent", got |-> 0, retried |-> FALSE]
NoMutation == [at |-> "idle", name |-> "none"]

\* A fetch in progress is given up for a newer one, but only when there are data.
Uncancelled == fetch.at # "none" /\ (~mounted \/ shown = 0)

CacheInit ==
  /\ screen \in Screens
  /\ query \in screen.shows
  /\ version = 1
  /\ due = 1
  /\ shown = 0
  /\ stale = TRUE
  /\ mounted = FALSE
  /\ fetch = NoFetch
  /\ mut = [c \in Requests |-> NoMutation]
  /\ missed = FALSE

-----------------------------------------------------------------------------
(* The query *)

\* The page is opened: what is not there or stale is fetched, unless it is being
\* fetched.
Mount ==
  /\ ~mounted
  /\ mounted' = TRUE
  /\ fetch' = IF stale /\ fetch.at = "none" THEN Sent ELSE fetch
  /\ UNCHANGED <<screen, query, version, due, shown, stale, mut, missed>>

\* The page is left; a fetch in progress goes on.
Unmount ==
  /\ mounted
  /\ mounted' = FALSE
  /\ UNCHANGED <<screen, query, version, due, shown, stale, fetch, mut, missed>>

\* staleTime passes; or, once nothing shows the query, its data are dropped.
Age ==
  /\ ~stale
  /\ stale' = TRUE
  /\ shown' \in {shown} \cup IF mounted \/ fetch.at # "none" THEN {} ELSE {0}
  /\ UNCHANGED <<screen, query, version, due, mounted, fetch, mut, missed>>

\* The server reads.
FetchRead ==
  /\ fetch.at = "sent"
  /\ fetch' = [fetch EXCEPT !.at = "answered", !.got = version]
  /\ UNCHANGED <<screen, query, version, due, shown, stale, mounted, mut, missed>>

\* The answer arrives: it is the data of the query and they are fresh, whatever
\* was invalidated meanwhile.
FetchLands ==
  /\ fetch.at = "answered"
  /\ shown' = fetch.got
  /\ stale' = FALSE
  /\ fetch' = NoFetch
  /\ UNCHANGED <<screen, query, version, due, mounted, mut, missed>>

\* The fetch fails: it is tried once more, then given up.
LastTry == fetch.retried \/ query \in NoRetry
FetchFails ==
  /\ fetch.at \in {"sent", "answered"}
  /\ fetch' = IF LastTry THEN NoFetch ELSE [Sent EXCEPT !.retried = TRUE]
  /\ missed' = (missed \/ LastTry)
  /\ UNCHANGED <<screen, query, version, due, shown, stale, mounted, mut>>

-----------------------------------------------------------------------------
(* The mutations of the page *)

\* The user starts one, on the page or on one that leads back to it; they may
\* leave before it is answered.
Mutate(c) ==
  /\ mut[c].at = "idle"
  /\ \E m \in screen.starts :
       mut' = [mut EXCEPT ![c] = [at |-> "sent", name |-> m]]
  /\ UNCHANGED <<screen, query, version, due, shown, stale, mounted, fetch, missed>>

\* The server carries it out.
Apply(c) ==
  /\ mut[c].at = "sent"
  /\ version < MaxVersion
  /\ IF Touches(mut[c].name, query)
     THEN /\ version' = version + 1
          /\ due' = IF <<mut[c].name, query>> \in Left THEN due ELSE version'
     ELSE UNCHANGED <<version, due>>
  /\ mut' = [mut EXCEPT ![c].at = "answered"]
  /\ UNCHANGED <<screen, query, shown, stale, mounted, fetch, missed>>

\* onSuccess: the keys of the mutation are invalidated.  A query on the screen is
\* fetched again, in place of a fetch in progress; the others wait for a mount.
Settle(c) ==
  /\ mut[c].at = "answered"
  /\ IF Tells(mut[c].name, query)
     THEN /\ stale' = TRUE
          /\ fetch' = IF mounted /\ ~Uncancelled THEN Sent ELSE fetch
          /\ missed' = (missed \/ Uncancelled)
     ELSE UNCHANGED <<stale, fetch, missed>>
  /\ mut' = [mut EXCEPT ![c] = NoMutation]
  /\ UNCHANGED <<screen, query, version, due, shown, mounted>>

\* The mutation fails, before or after the server has carried it out: mutations
\* are not tried again, and onSuccess is not called.
Fail(c) ==
  /\ mut[c].at # "idle"
  /\ mut' = [mut EXCEPT ![c] = NoMutation]
  /\ missed' = (missed \/ mut[c].at = "answered")
  /\ UNCHANGED <<screen, query, version, due, shown, stale, mounted, fetch>>

\* Another member, a job or a webhook writes; nobody tells this browser.
OthersWrite ==
  /\ version < MaxVersion
  /\ version' = version + 1
  /\ UNCHANGED <<screen, query, due, shown, stale, mounted, fetch, mut, missed>>

CacheNext ==
  \/ Mount
  \/ Unmount
  \/ Age
  \/ FetchRead
  \/ FetchLands
  \/ FetchFails
  \/ OthersWrite
  \/ \E c \in Requests : Mutate(c) \/ Apply(c) \/ Settle(c) \/ Fail(c)

CacheSpec == CacheInit /\ [][CacheNext]_cacheVars

-----------------------------------------------------------------------------
(* Properties *)

\* Once a page is quiet (no fetch and no mutation in progress) each of its
\* queries shows what the user's own answered mutations have written: every
\* mutation hook invalidates the keys of all it changes on its page, but for the
\* pairs of Left, and the cache fetches again, unless an invalidation came while
\* the first fetch of the query, or a fetch left behind by a closed page, was on
\* its way (features/*/hooks, lib/queryClient.js).
FreshWhenQuiet ==
  (mounted /\ ~missed /\ fetch = NoFetch /\ \A c \in Requests : mut[c] = NoMutation)
    => shown >= due
=============================================================================
