------------------------------- MODULE Chamas -------------------------------
(***************************************************************************)
(* One Chama, its memberships and their numbers and roles, translated from *)
(* ChamaService, MembershipService, RoleService (app/services/chama.py,    *)
(* membership.py, role.py) and the Chama part of PlatformService           *)
(* (app/services/platform.py).                                             *)
(*                                                                         *)
(* Loading the Chama loads its number sequence with it.  The sequence is   *)
(* then selected FOR UPDATE, but an object that a session holds already is *)
(* not loaded again: the number handed out is the one read before the row  *)
(* was locked, and only the unique constraint keeps it from being given    *)
(* twice.  A refused attempt is repeated up to MaxRetries times.           *)
(*                                                                         *)
(* Left out: names and fee amounts (update_chama), the details of members, *)
(* the registration fee that goes with a membership (RegistrationFees).    *)
(***************************************************************************)
EXTENDS Naturals, FiniteSets

CONSTANTS
  Sessions,
  Members,
  Leadership,  \* the leadership roles: CHAIRPERSON and others
  MaxRetries,  \* MAX_NUMBER_RETRIES
  None

ChamaStatuses == {"PENDING", "ACTIVE", "SUSPENDED", "INACTIVE", "DISSOLVED"}
MembershipStatuses == {"ACTIVE", "INACTIVE"}

ChamaAssumption ==
  /\ None \notin Sessions \cup Members \cup ChamaStatuses
  /\ "CHAIRPERSON" \in Leadership
  /\ MaxRetries \in Nat \ {0}

VARIABLES
  chama,    \* chamas.status, or None
  next,     \* membership_sequences.next_number
  number,   \* number[m]: 0 when m is no member
  status,   \* memberships.status
  roles,    \* leadership roles of each membership
  overlap,  \* history variable: memberships, and "chama", that two sessions
            \* were about to change at a time
  pc,
  task

vars == <<chama, next, number, status, roles, overlap, pc, task>>
Rows == <<chama, next, number, status, roles>>

Belongs == {m \in Members : number[m] # 0}
Numbers == {number[m] : m \in Belongs}

Init ==
  /\ chama = None
  /\ next = 1
  /\ number = [m \in Members |-> 0]
  /\ status = [m \in Members |-> "INACTIVE"]
  /\ roles = [m \in Members |-> {}]
  /\ overlap = {}
  /\ pc = [s \in Sessions |-> "idle"]
  /\ task = [s \in Sessions |-> None]

Finish(s) ==
  /\ pc' = [pc EXCEPT ![s] = "idle"]
  /\ task' = [task EXCEPT ![s] = None]

Take(s, label, t) ==
  /\ pc[s] = "idle"
  /\ pc' = [pc EXCEPT ![s] = label]
  /\ task' = [task EXCEPT ![s] = t]
  /\ UNCHANGED <<Rows, overlap>>

(* The other sessions that are about to change the same thing.             *)
NoteOverlap(s, subject) ==
  overlap' = IF \E r \in Sessions \ {s} : pc[r] = pc[s] /\ task[r].subject = subject
             THEN overlap \cup {subject} ELSE overlap

(* create_chama: the Chama, its sequence and the membership of its creator *)
CreateChama(m) ==
  /\ chama = None
  /\ chama' = "PENDING"
  /\ next' = 2
  /\ number' = [number EXCEPT ![m] = 1]
  /\ status' = [status EXCEPT ![m] = "ACTIVE"]
  /\ roles' = [roles EXCEPT ![m] = {"CHAIRPERSON"}]
  /\ UNCHANGED <<overlap, pc, task>>

(* authorize_chama_write and require_roles                                 *)
MayWrite(actor, allowed) ==
  chama = "ACTIVE" /\ status[actor] = "ACTIVE" /\ roles[actor] \cap allowed # {}

-----------------------------------------------------------------------------
(* Membership numbers.                                                     *)

(* create_membership: the sequence is read along with the Chama.           *)
BeginMembership(s, actor, m) ==
  /\ MayWrite(actor, Leadership)
  /\ number[m] = 0
  /\ Take(s, "join", [subject |-> m, next |-> next, attempt |-> 1])

(* Bug: no unique constraint on the number.                                *)
NumberIsFresh(n) == TRUE

(* uq_memberships_chama_number                                             *)
NumberIsFree(n) == n \notin Numbers

(* Bug: another number than the one that was given is counted.             *)
CountSkipping(s) == next' = next + 2

CountNumber(s) == next' = task[s].next + 1

(* _create_membership_once under the lock of the sequence row.             *)
Join(s) ==
  LET m == task[s].subject IN
  /\ pc[s] = "join"
  /\ number[m] = 0
  /\ NumberIsFree(task[s].next)
  /\ CountNumber(s)
  /\ number' = [number EXCEPT ![m] = task[s].next]
  /\ status' = [status EXCEPT ![m] = "ACTIVE"]
  /\ Finish(s)
  /\ UNCHANGED <<chama, roles, overlap>>

(* The number is taken: the rollback expires what the session holds, and   *)
(* the next attempt reads the Chama and its sequence again.                *)
Retry(s) ==
  /\ pc[s] = "join"
  /\ number[task[s].subject] = 0
  /\ ~ NumberIsFree(task[s].next)
  /\ task[s].attempt < MaxRetries
  /\ task' = [task EXCEPT ![s].next = next, ![s].attempt = @ + 1]
  /\ UNCHANGED <<Rows, overlap, pc>>

(* Out of attempts, or the member has joined in the meantime               *)
(* (get_by_chama_and_member, uq_memberships_chama_member).                 *)
RefuseMembership(s) ==
  /\ pc[s] = "join"
  /\ \/ number[task[s].subject] # 0
     \/ ~ NumberIsFree(task[s].next) /\ task[s].attempt = MaxRetries
  /\ Finish(s)
  /\ UNCHANGED <<Rows, overlap>>

-----------------------------------------------------------------------------
(* Statuses and roles.                                                     *)

(* update_status: the status is written when it differs from the loaded.   *)
BeginStatus(s, actor, m, new) ==
  /\ MayWrite(actor, {"CHAIRPERSON"})
  /\ m \in Belongs /\ status[m] # new
  /\ Take(s, "status", [subject |-> m, new |-> new])

SetStatus(s) ==
  /\ pc[s] = "status"
  /\ status' = [status EXCEPT ![task[s].subject] = task[s].new]
  /\ NoteOverlap(s, task[s].subject)
  /\ Finish(s)
  /\ UNCHANGED <<chama, next, number, roles>>

(* Bug: only the role itself is looked for.                                *)
MayHoldSeveral(m, role) ==
  /\ role \notin roles[m]
  /\ role = "CHAIRPERSON" => \A o \in Belongs \ {m} : role \notin roles[o]

(* assign_role, on the memberships as they are loaded.  The actor among    *)
(* them is the chairperson: CHAIRPERSON is never assigned.                 *)
MayHold(m, role) ==
  /\ roles[m] = {}
  /\ role = "CHAIRPERSON" => \A o \in Belongs \ {m} : role \notin roles[o]

BeginAssign(s, actor, m, role) ==
  /\ MayWrite(actor, {"CHAIRPERSON"})
  /\ m \in Belongs /\ MayHold(m, role)
  /\ Take(s, "assign", [subject |-> m, role |-> role])

Assign(s) ==
  LET m == task[s].subject IN
  /\ pc[s] = "assign"
  /\ task[s].role \notin roles[m]
  /\ roles' = [roles EXCEPT ![m] = @ \cup {task[s].role}]
  /\ NoteOverlap(s, m)
  /\ Finish(s)
  /\ UNCHANGED <<chama, next, number, status>>

BeginRemove(s, actor, m, role) ==
  /\ MayWrite(actor, {"CHAIRPERSON"})
  /\ m \in Belongs /\ role \in roles[m]
  /\ Take(s, "remove", [subject |-> m, role |-> role])

Remove(s) ==
  LET m == task[s].subject IN
  /\ pc[s] = "remove"
  /\ roles' = [roles EXCEPT ![m] = @ \ {task[s].role}]
  /\ Finish(s)
  /\ UNCHANGED <<chama, next, number, status, overlap>>

-----------------------------------------------------------------------------
(* _canonical: INACTIVE is an alias of SUSPENDED, but is stored as it is.  *)
Canonical(s) == IF s = "INACTIVE" THEN "SUSPENDED" ELSE s

(* ALLOWED_TRANSITIONS, of update_chama_status, which looks up what is     *)
(* canonical, and which a change from a status to itself does not reach.   *)
Transitions ==
  {<<"PENDING", "ACTIVE">>, <<"PENDING", "SUSPENDED">>, <<"PENDING", "DISSOLVED">>,
   <<"ACTIVE", "SUSPENDED">>, <<"ACTIVE", "DISSOLVED">>,
   <<"SUSPENDED", "ACTIVE">>, <<"SUSPENDED", "DISSOLVED">>}

(* Bug: whatever is not ACTIVE can be activated.                           *)
AllowedOrActive(old, new) == <<old, new>> \in Transitions \/ (old # "ACTIVE" /\ new = "ACTIVE")

Allowed(old, new) == <<Canonical(old), Canonical(new)>> \in Transitions

BeginLifecycle(s, new) ==
  /\ chama # None /\ Allowed(chama, new)
  /\ Take(s, "lifecycle", [subject |-> "chama", new |-> new])

SetLifecycle(s) ==
  /\ pc[s] = "lifecycle"
  /\ chama' = task[s].new
  /\ NoteOverlap(s, "chama")
  /\ Finish(s)
  /\ UNCHANGED <<next, number, status, roles>>

(* The process dies; what is not committed is rolled back.                 *)
Crash(s) ==
  /\ pc[s] # "idle"
  /\ Finish(s)
  /\ UNCHANGED <<Rows, overlap>>

Next ==
  \/ \E m \in Members : CreateChama(m)
  \/ \E s \in Sessions :
       \/ \E a, m \in Members :
            \/ BeginMembership(s, a, m)
            \/ \E new \in MembershipStatuses : BeginStatus(s, a, m, new)
            \/ \E role \in Leadership : BeginAssign(s, a, m, role) \/ BeginRemove(s, a, m, role)
       \/ \E new \in ChamaStatuses : BeginLifecycle(s, new)
       \/ Join(s) \/ Retry(s) \/ RefuseMembership(s) \/ SetStatus(s) \/ Assign(s)
       \/ Remove(s) \/ SetLifecycle(s) \/ Crash(s)

Spec == Init /\ [][Next]_vars
-----------------------------------------------------------------------------
Labels == {"idle", "join", "status", "assign", "remove", "lifecycle"}
TaskOK(s) ==
  CASE pc[s] = "join" ->
         task[s] \in [subject : Members, next : Nat, attempt : 1..MaxRetries]
    [] pc[s] = "status" -> task[s] \in [subject : Members, new : MembershipStatuses]
    [] pc[s] \in {"assign", "remove"} -> task[s] \in [subject : Members, role : Leadership]
    [] pc[s] = "lifecycle" -> task[s] \in [subject : {"chama"}, new : ChamaStatuses]
    [] OTHER -> task[s] = None

(* Type invariant.                                                         *)
ChamasTypeOK ==
  /\ chama \in ChamaStatuses \cup {None}
  /\ next \in Nat
  /\ number \in [Members -> Nat]
  /\ status \in [Members -> MembershipStatuses]
  /\ roles \in [Members -> SUBSET Leadership]
  /\ overlap \subseteq Members \cup {"chama"}
  /\ pc \in [Sessions -> Labels]
  /\ DOMAIN task = Sessions
  /\ \A s \in Sessions : TaskOK(s)

(* "Membership numbers are unique within a Chama", "allocated              *)
(* transactionally using a sequence table" (docs/03_BUSINESS_RULES.md),    *)
(* although the number in hand may be stale: those given are 1 to          *)
(* next - 1, without gap or double.                                        *)
NumbersAreDense ==
  /\ Numbers = 1..(next - 1)
  /\ \A m, o \in Belongs : number[m] = number[o] => m = o

(* "A membership may hold at most one leadership role"                     *)
(* (docs/03_BUSINESS_RULES.md:108), unless two are assigned at the same    *)
(* time: the test is on the roles a session has loaded.                    *)
OneLeadershipRole ==
  \A m \in Members \ overlap : Cardinality(roles[m]) <= 1

(* Both: numbers and leadership roles of the memberships.                  *)
MembershipsAreSound == NumbersAreDense /\ OneLeadershipRole

(* "DISSOLVED is terminal" (platform.py:35), unless two administrators     *)
(* change the status at the same time: the late one overwrites it.         *)
DissolvedIsTerminal ==
  [][chama = "DISSOLVED" => chama' = "DISSOLVED" \/ "chama" \in overlap']_vars
=============================================================================
