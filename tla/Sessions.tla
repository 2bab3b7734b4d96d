------------------------------- MODULE Sessions -------------------------------
(***************************************************************************)
(* SessionManager (internal/server/session.go): the session tokens and the *)
(* time each user was last heard of.                                       *)
(*                                                                         *)
(* users maps a token to its owner and lastSeen a username to a time; both *)
(* are Go maps, so their domains are the keys present.  Each operator is a *)
(* method that holds SessionManager.mu from beginning to end; time.Now()   *)
(* is read under the lock and is passed in as now.                         *)
(***************************************************************************)
EXTENDS Naturals, Usernames

CONSTANT TicksPerSecond  \* clock ticks in one second, the resolution of a token

ASSUME TicksAssumption == TicksPerSecond \in Nat \ {0}

Tokens == Names \X Nat

NewSessionManager == [users |-> [t \in {} |-> NoName], lastSeen |-> [u \in {} |-> 0]]

\* "token-<username>-<time.Now().Unix()>": two logins of a user within one second
\* get the same token.
TokenFor(u, now) == <<u, now \div TicksPerSecond>>

CreateSession(users, u, now) ==
  IF u = NoName
  THEN users
  ELSE [t \in DOMAIN users \cup {TokenFor(u, now)} |->
          IF t = TokenFor(u, now) THEN u ELSE users[t]]

\* Faulty variant: without the test for the empty name.
TouchAnyone(lastSeen, u, now) ==
  [n \in DOMAIN lastSeen \cup {u} |-> IF n = u THEN now ELSE lastSeen[n]]

TouchUser(lastSeen, u, now) ==
  IF u = NoName
  THEN lastSeen
  ELSE [n \in DOMAIN lastSeen \cup {u} |-> IF n = u THEN now ELSE lastSeen[n]]

\* Faulty variant: RemoveUser without delete(sm.lastSeen, username).
ForgetNothing(lastSeen, u) == lastSeen

Forget(lastSeen, u) == [n \in DOMAIN lastSeen \ {u} |-> lastSeen[n]]

TokensOf(users, u) == {t \in DOMAIN users : users[t] = u}

\* Faulty variant: RemoveUser leaves the tokens alone.
WithoutNoToken(users, u) == {users}

\* RemoveUser ranges over the map in an unspecified order and stops at the first
\* token of u: the results it can have.
WithoutOneToken(users, u) ==
  IF TokensOf(users, u) = {}
  THEN {users}
  ELSE {[s \in DOMAIN users \ {t} |-> users[s]] : t \in TokensOf(users, u)}

\* Faulty variant: silent for the whole timeout, where the code wants longer.
GetDeadUsersEarly(lastSeen, now, timeout) ==
  {u \in DOMAIN lastSeen : now >= lastSeen[u] + timeout}

GetDeadUsers(lastSeen, now, timeout) ==
  {u \in DOMAIN lastSeen : now > lastSeen[u] + timeout}
===============================================================================
