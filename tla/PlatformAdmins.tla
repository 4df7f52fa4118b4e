--------------------------- MODULE PlatformAdmins ---------------------------
(***************************************************************************)
(* User accounts and who administers the platform, translated from the     *)
(* user part of PlatformService (app/services/platform.py), register,      *)
(* link_member and delete_account of AuthService (app/services/auth.py),   *)
(* get_current_user (app/api/deps.py) and the bootstrap of the first       *)
(* administrator (app/db/bootstrap_platform_admin.py).                     *)
(*                                                                         *)
(* Every operation loads and tests rows, then commits; nothing it has read *)
(* is locked.                                                              *)
(*                                                                         *)
(* Left out: passwords and tokens (AuthSessions) and the audit events.     *)
(***************************************************************************)
EXTENDS Naturals, FiniteSets

CONSTANTS
  Sessions,
  Users,
  Persons,  \* member identities an account may be linked to
  Root,     \* the user the deployment is configured to bootstrap
  None

AdminAssumption ==
  /\ None \notin Sessions \cup Users \cup Persons
  /\ Root \in Users

VARIABLES
  active,      \* users.is_active, of the users that are registered
  mustChange,  \* users.must_change_password
  person,      \* users.member_id
  admin,       \* users with a PLATFORM_ADMIN grant
  overlap,     \* history variable: two removals of administrators at a time
  pc,
  task

vars == <<active, mustChange, person, admin, overlap, pc, task>>
Rows == <<active, mustChange, person, admin>>

Operations == {"register", "link", "change", "delete", "activate", "deactivate",
               "require", "grant", "revoke"}
Removals == {"delete", "deactivate", "revoke"}
Tasks == [op : Operations, user : Users, person : Persons \cup {None}]

Registered == DOMAIN active
Active(u) == u \in Registered /\ active[u]
ActiveAdmins == {u \in admin : Active(u)}

(* The state after the bootstrap of a fresh database.                      *)
Init ==
  /\ active = [u \in {Root} |-> TRUE]
  /\ mustChange = {Root}
  /\ person = [u \in Users |-> None]
  /\ admin = {Root}
  /\ overlap = FALSE
  /\ pc = [s \in Sessions |-> "idle"]
  /\ task = [s \in Sessions |-> None]

Finish(s) ==
  /\ pc' = [pc EXCEPT ![s] = "idle"]
  /\ task' = [task EXCEPT ![s] = None]

(* get_current_user, with its paths that need no password change, and      *)
(* require_platform_admin.                                                 *)
SignedIn(u) == Active(u) /\ u \notin mustChange
Administrator(u) == SignedIn(u) /\ u \in admin

(* register: the email is new, and the person has no account yet.          *)
MayRegister(u, p) ==
  u \notin Registered /\ \A v \in Registered : p # None => person[v] # p

MayLink(u, p) ==
  /\ SignedIn(u) /\ p # None /\ person[u] = None
  /\ \A v \in Users : person[v] # p

(* Bug: the last administrator may leave.                                  *)
MayDeleteAlways(u) == Active(u)

MayDelete(u) == Active(u) /\ (u \in admin => ActiveAdmins # {u})

(* Bug: an administrator may deactivate the own account.                   *)
MayDeactivateSelf(a, u) == Administrator(a) /\ Active(u)

MayDeactivate(a, u) ==
  /\ Administrator(a) /\ u # a /\ Active(u)
  /\ u \in admin => ActiveAdmins # {u}

(* The administrators that remain are counted whether active or not.       *)
MayRevoke(a, u) == Administrator(a) /\ u \in admin /\ u # a /\ admin \ {u} # {}

Take(s, op, u, p) ==
  /\ pc[s] = "idle"
  /\ pc' = [pc EXCEPT ![s] = "commit"]
  /\ task' = [task EXCEPT ![s] = [op |-> op, user |-> u, person |-> p]]
  /\ UNCHANGED <<Rows, overlap>>

BeginByUser(s, u) ==
  \/ \E p \in Persons \cup {None} : MayRegister(u, p) /\ Take(s, "register", u, p)
  \/ \E p \in Persons : MayLink(u, p) /\ Take(s, "link", u, p)
  \/ Active(u) /\ u \in mustChange /\ Take(s, "change", u, None)
  \/ MayDelete(u) /\ Take(s, "delete", u, None)

BeginByAdmin(s, a, u) ==
  \/ Administrator(a) /\ u \in Registered /\ ~active[u] /\ Take(s, "activate", u, None)
  \/ MayDeactivate(a, u) /\ Take(s, "deactivate", u, None)
  \/ Administrator(a) /\ u \in Registered \ mustChange /\ Take(s, "require", u, None)
  \/ Administrator(a) /\ u \in Registered \ admin /\ Take(s, "grant", u, None)
  \/ MayRevoke(a, u) /\ Take(s, "revoke", u, None)

Commits(s, op) ==
  /\ pc[s] = "commit" /\ task[s].op = op
  /\ overlap' = (overlap \/ (op \in Removals /\ \E r \in Sessions \ {s} :
                               pc[r] = "commit" /\ task[r].op \in Removals))
  /\ Finish(s)

(* Bug: no unique index on users.member_id.                                *)
PersonIsAnyones(u, p) == TRUE

(* The unique index on users.member_id and the one on the email.           *)
PersonIsFree(u, p) == p # None => \A v \in Users \ {u} : person[v] # p

Register(s) ==
  LET u == task[s].user IN
  /\ Commits(s, "register")
  /\ u \notin Registered /\ PersonIsFree(u, task[s].person)
  /\ active' = [v \in Registered \cup {u} |-> IF v = u THEN TRUE ELSE active[v]]
  /\ person' = [person EXCEPT ![u] = task[s].person]
  /\ UNCHANGED <<mustChange, admin>>

LinkMember(s) ==
  LET u == task[s].user IN
  /\ Commits(s, "link")
  /\ PersonIsFree(u, task[s].person)
  /\ person' = [person EXCEPT ![u] = task[s].person]
  /\ UNCHANGED <<active, mustChange, admin>>

ChangePassword(s) ==
  /\ Commits(s, "change")
  /\ mustChange' = mustChange \ {task[s].user}
  /\ UNCHANGED <<active, person, admin>>

DeleteAccount(s) ==
  /\ Commits(s, "delete")
  /\ active' = [active EXCEPT ![task[s].user] = FALSE]
  /\ UNCHANGED <<mustChange, person, admin>>

SetUserActive(s) ==
  /\ Commits(s, task[s].op) /\ task[s].op \in {"activate", "deactivate"}
  /\ active' = [active EXCEPT ![task[s].user] = task[s].op = "activate"]
  /\ UNCHANGED <<mustChange, person, admin>>

RequirePasswordChange(s) ==
  /\ Commits(s, "require")
  /\ mustChange' = mustChange \cup {task[s].user}
  /\ UNCHANGED <<active, person, admin>>

(* grant, unless the unique index finds it granted by now, and revoke,     *)
(* which is content with a row that is gone already.                       *)
GrantAdmin(s) ==
  /\ Commits(s, "grant")
  /\ task[s].user \notin admin
  /\ admin' = admin \cup {task[s].user}
  /\ UNCHANGED <<active, mustChange, person>>

RevokeAdmin(s) ==
  /\ Commits(s, "revoke")
  /\ admin' = admin \ {task[s].user}
  /\ UNCHANGED <<active, mustChange, person>>

(* A constraint is violated, the process dies, or the client has gone.     *)
Abort(s) ==
  /\ pc[s] = "commit"
  /\ Finish(s)
  /\ UNCHANGED <<Rows, overlap>>

(* The bootstrap runs at each deployment; an account is left as it is.     *)
Bootstrap ==
  /\ admin' = admin \cup {Root}
  /\ UNCHANGED <<active, mustChange, person, overlap, pc, task>>

Next ==
  \/ \E s \in Sessions :
       \/ \E u \in Users : BeginByUser(s, u) \/ \E a \in Users : BeginByAdmin(s, a, u)
       \/ Register(s) \/ LinkMember(s) \/ ChangePassword(s) \/ DeleteAccount(s)
       \/ SetUserActive(s) \/ RequirePasswordChange(s) \/ GrantAdmin(s) \/ RevokeAdmin(s)
       \/ Abort(s)
  \/ Bootstrap

Spec == Init /\ [][Next]_vars
-----------------------------------------------------------------------------
(* Type invariant.                                                         *)
AdminsTypeOK ==
  /\ Registered \subseteq Users /\ active \in [Registered -> BOOLEAN]
  /\ mustChange \subseteq Registered
  /\ person \in [Users -> Persons \cup {None}]
  /\ admin \subseteq Registered
  /\ overlap \in BOOLEAN
  /\ pc \in [Sessions -> {"idle", "commit"}]
  /\ task \in [Sessions -> Tasks \cup {None}]

(* "The last active platform administrator cannot self-delete their        *)
(* account, preventing governance lockout" (docs/DATA_RETENTION.md:49),    *)
(* nor be deactivated or revoked by others: an administrator is active,    *)
(* unless two removals were decided at the same time.                      *)
NoGovernanceLockout == overlap \/ ActiveAdmins # {}

(* An account stands for a person of its own, whether the link was made at *)
(* registration or afterwards.                                             *)
OneAccountPerPerson ==
  \A u, v \in Users : person[u] # None /\ person[u] = person[v] => u = v

(* Both: somebody can administer the platform, and accounts are persons.   *)
AdministratorsAreSound == NoGovernanceLockout /\ OneAccountPerPerson
=============================================================================
