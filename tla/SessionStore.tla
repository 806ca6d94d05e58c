---------------------------- MODULE SessionStore ----------------------------
(* networkio::http::session_store: get(), run by the threads that handle    *)
(* requests, on one map behind a shared_mutex.                              *)
EXTENDS Integers, FiniteSets

CONSTANTS Requests,    \* requests, each handled by a thread of its own
          Cookies      \* the session ids that browsers may send

Generated == "implement_me"   \* all that generate_session_id() returns
Absent == "absent"            \* the map has no such key
Null == "null"                \* the key is there, its pointer is null

Sids == Cookies \cup {Generated}
Locks == {"shared", "exclusive"}

VARIABLES
  sessions,   \* m_sessions: per id absent, null, or the request it was made for
  cookie,     \* the session id a request came with
  found,      \* the session get() has for a request, Null for none
  holds,      \* requests that hold m_mutex, and how
  pc

vars == <<sessions, cookie, found, holds, pc>>

Init == /\ sessions = [sid \in Sids |-> Absent]
        /\ cookie \in [Requests -> Sids]
        /\ found = [r \in Requests |-> Null]
        /\ holds = [r \in Requests |-> "none"]
        /\ pc = [r \in Requests |-> "start"]

Goto(r, l) == pc' = [pc EXCEPT ![r] = l]
IsSession(x) == x \notin {Absent, Null}

LockShared(r) ==
  /\ pc[r] = "start"
  /\ \A q \in Requests : holds[q] # "exclusive"
  /\ holds' = [holds EXCEPT ![r] = "shared"]
  /\ Goto(r, "lookup")
  /\ UNCHANGED <<sessions, cookie, found>>

(* m_sessions[sid] under the shared lock: operator[] adds a missing key.    *)
Lookup(r) ==
  /\ pc[r] = "lookup"
  /\ LET sid == cookie[r]
     IN /\ sessions' = [sessions EXCEPT ![sid] = IF @ = Absent THEN Null ELSE @]
        /\ found' = [found EXCEPT ![r] = sessions'[sid]]
  /\ Goto(r, "unlock")
  /\ UNCHANGED <<cookie, holds>>

(* unlock_shared(), and the test whether the session is there and valid.    *)
UnlockShared(r) ==
  /\ pc[r] = "unlock"
  /\ holds' = [holds EXCEPT ![r] = "none"]
  /\ Goto(r, IF IsSession(found[r]) THEN "done" ELSE "create")
  /\ UNCHANGED <<sessions, cookie, found>>

LockExclusive(r) ==
  /\ pc[r] = "create"
  /\ \A q \in Requests : holds[q] = "none"
  /\ holds' = [holds EXCEPT ![r] = "exclusive"]
  /\ Goto(r, "search")
  /\ UNCHANGED <<sessions, cookie, found>>

(* Mutant of Create: the id is not tested again under the exclusive lock.   *)
CreateUnchecked(r) ==
  /\ pc[r] = "search"
  /\ sessions' = [sessions EXCEPT ![Generated] = r]
  /\ found' = [found EXCEPT ![r] = r]
  /\ holds' = [holds EXCEPT ![r] = "none"]
  /\ Goto(r, "done")
  /\ UNCHANGED cookie

(* The generated id is free: the session is made, stored and returned, and  *)
(* its cookie set.                                                          *)
Create(r) ==
  /\ pc[r] = "search"
  /\ ~IsSession(sessions[Generated])
  /\ sessions' = [sessions EXCEPT ![Generated] = r]
  /\ found' = [found EXCEPT ![r] = r]
  /\ holds' = [holds EXCEPT ![r] = "none"]
  /\ Goto(r, "done")
  /\ UNCHANGED cookie

(* It is taken: the loop generates the next one, with the lock held.        *)
TryNext(r) ==
  /\ pc[r] = "search"
  /\ IsSession(sessions[Generated])
  /\ UNCHANGED vars

Get(r) == \/ LockShared(r) \/ Lookup(r) \/ UnlockShared(r)
          \/ LockExclusive(r) \/ Create(r) \/ TryNext(r)

Next == \E r \in Requests : Get(r)

Spec == Init /\ [][Next]_vars

-----------------------------------------------------------------------------
(* The variables keep their types.                                          *)
TypeOK ==
  /\ sessions \in [Sids -> Requests \cup {Absent, Null}]
  /\ cookie \in [Requests -> Sids]
  /\ found \in [Requests -> Requests \cup {Null}]
  /\ holds \in [Requests -> Locks \cup {"none"}]
  /\ pc \in [Requests -> {"start", "lookup", "unlock", "create", "search",
                          "done"}]

(* The exclusive lock excludes every other holder, so that the search and   *)
(* the insertion are one step for the readers                               *)
(* (http_session_store.cpp:31-33, 37-50).                                   *)
ExclusiveLock ==
  \A r, q \in Requests :
    holds[r] = "exclusive" /\ q # r => holds[q] = "none"

(* A session that was handed out keeps its id: no later request takes over  *)
(* or replaces it, although each looked the id up before it got the         *)
(* exclusive lock (http_session_store.cpp:36-47).                           *)
NeverReplaced ==
  [][\A sid \in Sids : IsSession(sessions[sid])
                         => sessions'[sid] = sessions[sid]]_vars
=============================================================================
