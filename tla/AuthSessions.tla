---------------------------- MODULE AuthSessions ----------------------------
(***************************************************************************)
(* Signing in, refresh tokens, password changes and account deletion,      *)
(* translated from AuthService (app/services/auth.py).                     *)
(*                                                                         *)
(* Every operation loads and tests rows, then commits; nothing it has read *)
(* is locked.  A password is the number of its changes; each token carries *)
(* the password its session was opened with.                               *)
(*                                                                         *)
(* Left out: hashes and access tokens, which are not stored; the password  *)
(* policy; the audit events, committed afterwards.  A token that expires   *)
(* is revoked when it is presented, which is Logout.                       *)
(***************************************************************************)
EXTENDS Naturals, FiniteSets

CONSTANTS
  Sessions,
  Users,
  Tokens,       \* ids of refresh tokens; used up, which bounds the model
  MaxPassword,  \* bound on the number of password changes
  None

TokenRows == [user : Users, live : BOOLEAN, password : 0..MaxPassword,
              parent : Tokens \cup {None}]

AuthAssumption ==
  /\ None \notin Sessions \cup Users \cup Tokens \cup TokenRows
  /\ IsFiniteSet(Sessions)
  /\ MaxPassword \in Nat

VARIABLES
  active,    \* users.is_active
  password,
  token,     \* refresh_tokens: a row, or None
  overlap,   \* history variable: users with two operations at a time
  pc,
  task

vars == <<active, password, token, overlap, pc, task>>
Rows == <<active, password, token>>

Operations == {"login", "rotate", "logout", "change", "delete"}
Tasks == [op : Operations, user : Users, token : Tokens \cup {None},
          password : 0..MaxPassword, seen : SUBSET Tokens]

Live(u) == {t \in Tokens : token[t] # None /\ token[t].user = u /\ token[t].live}

Init ==
  /\ active = [u \in Users |-> TRUE]
  /\ password = [u \in Users |-> 0]
  /\ token = [t \in Tokens |-> None]
  /\ overlap = {}
  /\ pc = [s \in Sessions |-> "idle"]
  /\ task = [s \in Sessions |-> None]

Finish(s) ==
  /\ pc' = [pc EXCEPT ![s] = "idle"]
  /\ task' = [task EXCEPT ![s] = None]

(* What the operation has read when it comes to its commit: the token that *)
(* is presented or the password that is verified, and, where all of them   *)
(* are to be revoked, the live tokens.                                     *)
Take(s, op, u, t) ==
  /\ pc[s] = "idle"
  /\ pc' = [pc EXCEPT ![s] = "commit"]
  /\ task' = [task EXCEPT ![s] =
       [op |-> op, user |-> u, token |-> t,
        password |-> IF t = None THEN password[u] ELSE token[t].password,
        seen |-> IF op \in {"change", "delete"} THEN Live(u) ELSE {}]]
  /\ UNCHANGED <<Rows, overlap>>

Begin(s, u) ==
  \/ active[u] /\ Take(s, "login", u, None)
  \/ \E t \in Live(u) : active[u] /\ Take(s, "rotate", u, t)
  \/ \E t \in Live(u) : Take(s, "logout", u, t)
  \/ active[u] /\ password[u] < MaxPassword /\ Take(s, "change", u, None)
  \/ active[u] /\ Take(s, "delete", u, None)

Commits(s, op) ==
  /\ pc[s] = "commit" /\ task[s].op = op
  /\ overlap' = IF \E r \in Sessions \ {s} : pc[r] = "commit" /\ task[r].user = task[s].user
                THEN overlap \cup {task[s].user} ELSE overlap
  /\ Finish(s)

Issue(t, s, parent) ==
  [token EXCEPT ![t] = [user |-> task[s].user, live |-> TRUE,
                        password |-> task[s].password, parent |-> parent]]

Login(s) ==
  /\ Commits(s, "login")
  /\ \E t \in Tokens : token[t] = None /\ token' = Issue(t, s, None)
  /\ UNCHANGED <<active, password>>

(* Bug: the token that was presented stays valid.                          *)
RotateOnly(s) ==
  /\ Commits(s, "rotate")
  /\ \E t \in Tokens : token[t] = None /\ token' = Issue(t, s, task[s].token)
  /\ UNCHANGED <<active, password>>

Rotate(s) ==
  /\ Commits(s, "rotate")
  /\ \E t \in Tokens :
       /\ token[t] = None
       /\ token' = [Issue(t, s, task[s].token) EXCEPT ![task[s].token].live = FALSE]
  /\ UNCHANGED <<active, password>>

Logout(s) ==
  /\ Commits(s, "logout")
  /\ token' = [token EXCEPT ![task[s].token].live = FALSE]
  /\ UNCHANGED <<active, password>>

(* revoke_all_for_user: the tokens that were live when they were selected. *)
RevokeSeen(s) ==
  token' = [t \in Tokens |-> IF t \in task[s].seen THEN [token[t] EXCEPT !.live = FALSE]
                             ELSE token[t]]

(* Bug: sessions that are open outlive the password.                       *)
ChangePasswordOnly(s) ==
  LET u == task[s].user IN
  /\ Commits(s, "change")
  /\ password[u] < MaxPassword
  /\ password' = [password EXCEPT ![u] = @ + 1]
  /\ UNCHANGED <<active, token>>

ChangePassword(s) ==
  LET u == task[s].user IN
  /\ Commits(s, "change")
  /\ password[u] < MaxPassword
  /\ password' = [password EXCEPT ![u] = @ + 1]
  /\ RevokeSeen(s)
  /\ UNCHANGED active

DeleteAccount(s) ==
  /\ Commits(s, "delete")
  /\ active' = [active EXCEPT ![task[s].user] = FALSE]
  /\ RevokeSeen(s)
  /\ UNCHANGED password

(* A constraint is violated, the process dies, or the client has gone.     *)
Abort(s) ==
  /\ pc[s] = "commit"
  /\ Finish(s)
  /\ UNCHANGED <<Rows, overlap>>

(* An administrator, from PlatformAdmins; the tokens stay as they are.     *)
SetActive(u) ==
  /\ active' = [active EXCEPT ![u] = ~@]
  /\ UNCHANGED <<password, token, overlap, pc, task>>

Next ==
  \/ \E s \in Sessions :
       \/ \E u \in Users : Begin(s, u)
       \/ Login(s) \/ Rotate(s) \/ Logout(s) \/ ChangePassword(s) \/ DeleteAccount(s)
       \/ Abort(s)
  \/ \E u \in Users : SetActive(u)

Spec == Init /\ [][Next]_vars
-----------------------------------------------------------------------------
(* Type invariant.                                                         *)
AuthTypeOK ==
  /\ active \in [Users -> BOOLEAN]
  /\ password \in [Users -> 0..MaxPassword]
  /\ token \in [Tokens -> TokenRows \cup {None}]
  /\ overlap \subseteq Users
  /\ pc \in [Sessions -> {"idle", "commit"}]
  /\ task \in [Sessions -> Tasks \cup {None}]

(* "Every existing refresh token is revoked so a password change ends all  *)
(* other sessions" (auth.py:149): a live token goes back to a login with   *)
(* the password of now, unless operations of the user overlapped.          *)
SessionsFollowPassword ==
  \A u \in Users \ overlap : \A t \in Live(u) : token[t].password = password[u]

(* "The presented token is single-use" (auth.py:232); sessions that race   *)
(* get a successor each, no more.                                          *)
TokensAreSingleUse ==
  \A t \in Tokens :
    LET next == {n \in Tokens : token[n] # None /\ token[n].parent = t} IN
    next # {} => Cardinality(next) <=
                   (IF token[t].user \in overlap THEN Cardinality(Sessions) ELSE 1)

(* Both: who holds a live token, and how it came to be.                    *)
SessionsAreSound == SessionsFollowPassword /\ TokensAreSingleUse
=============================================================================
