------------------------------- MODULE Session -------------------------------
(***************************************************************************)
(* The cookie session (middleware/session.go). A request decodes the cookie*)
(* its browser sends into a map of its own, changes it, and a wrapper      *)
(* around the response writer puts it into a Set-Cookie header just before *)
(* the response begins. Requests of one browser overlap, and the cookie    *)
(* they were sent with may be replaced while they run.                     *)
(***************************************************************************)
EXTENDS Naturals, FiniteSets

CONSTANTS
  SessionRequests,  \* requests of one browser
  Keys,             \* the keys of a session; a session is the set it holds
  Capacity,         \* keys that fit in maxCookieValueLen
  MaxAge,           \* ticks until a cookie expires
  LastTick          \* bound: the last tick

\* withDefaults puts a day where MaxAge is 0; an empty session fits.
ASSUME SessionAssumption == MaxAge \in Nat \ {0} /\ LastTick \in Nat /\ Capacity \in Nat

VARIABLES
  jar,        \* the browser's cookie
  today,      \* the clock
  at,         \* where each request is
  data,       \* Session.data, the keys that are set
  dirty,      \* Session.dirty
  persisted,  \* sessionResponseWriter.persisted
  begun,      \* the status line and headers of the response are out
  cookie,     \* the Set-Cookie header, the last if there are several
  change      \* history: the last change, "none", "open" or too "late" to be saved

sessionVars == <<jar, today, at, data, dirty, persisted, begun, cookie, change>>
responseVars == <<persisted, begun, cookie>>

Sessions == SUBSET Keys
NoCookie == [keys |-> {}, expires |-> 0]  \* no cookie, or a deleted one
Cookies == [keys : Sessions, expires : 0..LastTick + MaxAge]

SessionTypeOK ==
  /\ jar \in Cookies /\ today \in 0..LastTick
  /\ at \in [SessionRequests -> {"new", "handler", "done"}]
  /\ data \in [SessionRequests -> Sessions]
  /\ cookie \in [SessionRequests -> Cookies]
  /\ \A f \in {dirty, persisted, begun} : f \in [SessionRequests -> BOOLEAN]
  /\ change \in [SessionRequests -> {"none", "open", "late"}]
  \* What has gone out was within the limit, in the browser as in the response.
  /\ \A c \in {jar} \cup {cookie[r] : r \in SessionRequests} : Cardinality(c.keys) <= Capacity

SessionInit ==
  /\ jar = NoCookie /\ today = 0
  /\ at = [r \in SessionRequests |-> "new"]
  /\ data = [r \in SessionRequests |-> {}]
  /\ dirty = [r \in SessionRequests |-> FALSE]
  /\ persisted = dirty /\ begun = dirty
  /\ change = [r \in SessionRequests |-> "none"]
  /\ cookie = [r \in SessionRequests |-> NoCookie]

With(f, r, x) == f' = [f EXCEPT ![r] = x]

SessionTick ==
  /\ today < LastTick
  /\ today' = today + 1
  /\ UNCHANGED <<jar, at, data, dirty, change, responseVars>>

\* decodeSession gives back what was signed, and nothing once the time in it has come.
Decoded(c) == IF today < c.expires THEN c.keys ELSE {}

\* SessionMiddleware up to c.Next.
LoadSession(r) ==
  /\ at[r] = "new"
  /\ With(at, r, "handler")
  /\ With(data, r, Decoded(jar))
  /\ UNCHANGED <<jar, today, dirty, change, responseVars>>

\* Set, Delete of a key there is, and Clear. A change after the session was
\* put into the response, or the response has begun, only marks the session dirty again.
ChangeSession(r) ==
  /\ at[r] = "handler"
  /\ \E k \in Keys :
       \/ With(data, r, data[r] \cup {k})
       \/ k \in data[r] /\ With(data, r, data[r] \ {k})
       \/ With(data, r, {})
  /\ With(dirty, r, TRUE)
  /\ With(change, r, IF begun[r] \/ (persisted[r] /\ cookie[r] # NoCookie)
                     THEN "late" ELSE "open")
  /\ UNCHANGED <<jar, today, at, responseVars>>

\* What http.SetCookie leaves in the response; nothing once the headers are out.
NewCookie(r) ==
  IF begun[r] THEN cookie[r] ELSE [keys |-> data[r], expires |-> today + MaxAge]

Fits(r) == Cardinality(data[r]) <= Capacity

\* Save, by the handler. A session that is too large is an error.
SaveSession(r) ==
  /\ at[r] = "handler" /\ Fits(r)
  /\ With(cookie, r, NewCookie(r))
  /\ With(dirty, r, FALSE)
  /\ With(change, r, IF begun[r] THEN change[r] ELSE "open")
  /\ UNCHANGED <<jar, today, at, data, persisted, begun>>

\* A plausible bug: a session that did not fit counts as persisted.
EnsureSessionSavedOnce(r) ==
  IF persisted[r] \/ ~dirty[r]
  THEN UNCHANGED <<dirty, cookie, persisted>>
  ELSE /\ With(persisted, r, TRUE)
       /\ IF Fits(r) THEN With(dirty, r, FALSE) /\ With(cookie, r, NewCookie(r))
                     ELSE UNCHANGED <<dirty, cookie>>

\* ensureSessionSaved: at most one Save that succeeds.
EnsureSessionSaved(r) ==
  IF persisted[r] \/ ~dirty[r] \/ ~Fits(r)
  THEN UNCHANGED <<dirty, cookie, persisted>>
  ELSE With(dirty, r, FALSE) /\ With(cookie, r, NewCookie(r)) /\ With(persisted, r, TRUE)

\* WriteHeader of the wrapper, as gin's c.Status calls it: the headers stay open.
SetStatus(r) ==
  /\ at[r] = "handler"
  /\ EnsureSessionSaved(r)
  /\ UNCHANGED <<jar, today, at, data, begun, change>>

\* WriteHeaderNow, Write and WriteString of the wrapper.
WriteBody(r) ==
  /\ at[r] = "handler"
  /\ EnsureSessionSaved(r)
  /\ With(begun, r, TRUE)
  /\ UNCHANGED <<jar, today, at, data, change>>

\* Flush is gin's own, under the wrapper: it begins the response unsaved.
FlushBody(r) ==
  /\ at[r] = "handler"
  /\ With(begun, r, TRUE)
  /\ With(change, r, IF dirty[r] /\ ~begun[r] THEN "late" ELSE change[r])
  /\ UNCHANGED <<jar, today, at, data, dirty, persisted, cookie>>

\* The end of SessionMiddleware; then gin ends the response, and the browser
\* keeps the cookie in it.
FinishSession(r) ==
  /\ at[r] = "handler"
  /\ EnsureSessionSaved(r)
  /\ With(at, r, "done")
  /\ With(begun, r, TRUE)
  /\ jar' = IF cookie'[r] = NoCookie THEN jar ELSE cookie'[r]
  /\ UNCHANGED <<today, data, change>>

SessionNext ==
  \/ SessionTick
  \/ \E r \in SessionRequests :
       \/ LoadSession(r) \/ ChangeSession(r) \/ SaveSession(r)
       \/ SetStatus(r) \/ WriteBody(r) \/ FlushBody(r) \/ FinishSession(r)

SessionSpec == SessionInit /\ [][SessionNext]_sessionVars

-----------------------------------------------------------------------------

\* A request that changed its session, in whatever order it saved, set a status
\* and wrote, sends the session back as it left it. Only a change made after the
\* status or the first byte, or flushed past the wrapper, is lost, or a session
\* that did not fit when the response began. One that shrank again before fits.
SessionReachesBrowser ==
  \A r \in SessionRequests :
    at[r] = "done" /\ change[r] = "open" /\ Fits(r) =>
      ~dirty[r] /\ cookie[r] # NoCookie /\ cookie[r].keys = data[r]
=============================================================================
