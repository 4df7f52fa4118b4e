----------------------- MODULE LoansAndMembers_proofs -----------------------
(***************************************************************************)
(* Proofs about Chamas, RegistrationFees, AuthSessions and PlatformAdmins, *)
(* and about LoansAndMembers that runs them beside Loans.  ChamaInv,       *)
(* FeeInv, AuthInv and AdminInv are the inductive invariants: what a       *)
(* request that has read rows, and has not written yet, may still rely on. *)
(***************************************************************************)
EXTENDS LoansAndMembers, Loans_proofs

(* An instance has operators of its own: those of the library are the same.*)
LEMMA ChamaCardinality == ASSUME NEW S PROVE Chama!Cardinality(S) = Cardinality(S)
  BY DEF Cardinality, Chama!Cardinality

LEMMA FeeCardinality == ASSUME NEW S PROVE Fees!Cardinality(S) = Cardinality(S)
  BY DEF Cardinality, Fees!Cardinality

LEMMA AuthCardinality ==
  ASSUME NEW S
  PROVE  Auth!Cardinality(S) = Cardinality(S) /\ (Auth!IsFiniteSet(S) <=> IsFiniteSet(S))
  BY DEF Cardinality, Auth!Cardinality, IsFiniteSet, Auth!IsFiniteSet

(* Until there is a Chama nobody belongs to it or works on it.             *)
ChamaNothingBefore ==
  chama = None =>
    /\ next = 1
    /\ \A m \in People : number[m] = 0 /\ roles[m] = {}
    /\ \A s \in Sessions : chamaPc[s] = "idle"

(* Numbers begin with 1; one in hand has been given, or is the next.       *)
ChamaNumbersInHand ==
  /\ next >= 1
  /\ \A s \in Sessions : chamaPc[s] = "join" => chamaTask[s].next \in 1..next

(* The role in hand is the only one, unless somebody else assigns one to   *)
(* the membership at the same time.                                        *)
ChamaRolesInHand ==
  \A s \in Sessions :
    chamaPc[s] = "assign" /\ chamaTask[s].subject \notin chamaOverlap => roles[chamaTask[s].subject] = {}

(* At most one role, without counting.                                     *)
ChamaNoTwoRoles ==
  \A m \in People \ chamaOverlap : \A a, b \in roles[m] : a = b

(* A change of status in hand will be of a Chama that is not dissolved,    *)
(* unless somebody else changes it at the same time.                       *)
ChamaStatusesInHand ==
  \A s \in Sessions : chamaPc[s] = "lifecycle" /\ "chama" \notin chamaOverlap => chama # "DISSOLVED"

(* The inductive invariant.                                                *)
ChamaInv ==
  /\ Chama!ChamasTypeOK /\ ChamaNothingBefore /\ ChamaNumbersInHand /\ Chama!NumbersAreDense
  /\ ChamaRolesInHand /\ ChamaNoTwoRoles /\ ChamaStatusesInHand

LEMMA ChamaFinishType ==
  ASSUME Chama!ChamasTypeOK, NEW s \in Sessions, Chama!Finish(s)
  PROVE  /\ chamaPc' \in [Sessions -> Chama!Labels] /\ DOMAIN chamaTask' = Sessions
         /\ \A r \in Sessions : Chama!TaskOK(r)'
<1>1. chamaPc' \in [Sessions -> Chama!Labels] /\ DOMAIN chamaTask' = Sessions
  BY DEF Chama!ChamasTypeOK, Chama!Finish, Chama!Labels
<1>2. ASSUME NEW r \in Sessions PROVE Chama!TaskOK(r)'
  BY DEF Chama!ChamasTypeOK, Chama!Finish, Chama!Labels, Chama!TaskOK
<1>3. QED
  BY <1>1, <1>2

(* A step that only ends a request.                                        *)
LEMMA ChamaFinishKeepsInv ==
  ASSUME ChamaInv, NEW s \in Sessions, Chama!Finish(s), UNCHANGED <<Chama!Rows, chamaOverlap>>
  PROVE  ChamaInv'
<1> USE DEF ChamaInv, Chama!Rows
<1>1. Chama!ChamasTypeOK'
  BY ChamaFinishType DEF Chama!ChamasTypeOK
<1>2. ChamaNothingBefore' /\ ChamaNumbersInHand' /\ ChamaRolesInHand' /\ ChamaStatusesInHand'
  BY DEF Chama!ChamasTypeOK, ChamaNothingBefore, ChamaNumbersInHand, ChamaRolesInHand,
         ChamaStatusesInHand, Chama!Finish
<1>3. Chama!NumbersAreDense' /\ ChamaNoTwoRoles'
  BY DEF Chama!NumbersAreDense, Chama!Numbers, Chama!Belongs, ChamaNoTwoRoles
<1>4. QED
  BY <1>1, <1>2, <1>3

(* A step that only begins a request, with what it has read.               *)
LEMMA ChamaTakeKeepsInv ==
  ASSUME ChamaInv, NEW s \in Sessions, NEW label \in Chama!Labels \ {"idle"}, NEW t, Chama!Take(s, label, t),
         Chama!TaskOK(s)', chama # None,
         label = "join" => t.next \in 1..next,
         label = "assign" => roles[t.subject] = {},
         label = "lifecycle" => chama # "DISSOLVED"
  PROVE  ChamaInv'
<1> USE DEF ChamaInv, Chama!Take, Chama!Rows
<1>1. Chama!ChamasTypeOK'
  <2>1. chamaPc' \in [Sessions -> Chama!Labels] /\ DOMAIN chamaTask' = Sessions
    BY DEF Chama!ChamasTypeOK
  <2>2. ASSUME NEW r \in Sessions \ {s} PROVE Chama!TaskOK(r)'
    BY DEF Chama!ChamasTypeOK, Chama!TaskOK
  <2>3. QED
    BY <2>1, <2>2 DEF Chama!ChamasTypeOK
<1>2. ChamaNothingBefore' /\ ChamaNumbersInHand' /\ ChamaRolesInHand' /\ ChamaStatusesInHand'
  BY DEF Chama!ChamasTypeOK, ChamaNothingBefore, ChamaNumbersInHand, ChamaRolesInHand,
         ChamaStatusesInHand
<1>3. Chama!NumbersAreDense' /\ ChamaNoTwoRoles'
  BY DEF Chama!NumbersAreDense, Chama!Numbers, Chama!Belongs, ChamaNoTwoRoles
<1>4. QED
  BY <1>1, <1>2, <1>3

LEMMA ChamaCreateChamaKeepsInv ==
  ASSUME Chama!ChamaAssumption, ChamaInv, NEW m \in People, Chama!CreateChama(m)
  PROVE  ChamaInv'
<1> USE DEF ChamaInv, Chama!CreateChama
<1>1. Chama!ChamasTypeOK'
  <2>1. ASSUME NEW r \in Sessions PROVE Chama!TaskOK(r)'
    BY DEF Chama!ChamasTypeOK, Chama!TaskOK
  <2>2. QED
    BY <2>1 DEF Chama!ChamaAssumption, Chama!ChamasTypeOK, Chama!ChamaStatuses,
                Chama!MembershipStatuses
<1>2. ChamaNothingBefore'
  BY DEF Chama!ChamaAssumption, Chama!ChamaStatuses, ChamaNothingBefore
<1>3. ChamaNumbersInHand' /\ ChamaRolesInHand' /\ ChamaStatusesInHand'
  BY DEF ChamaNothingBefore, ChamaNumbersInHand, ChamaRolesInHand, ChamaStatusesInHand
<1>4. Chama!NumbersAreDense'
  BY DEF Chama!ChamasTypeOK, ChamaNothingBefore, Chama!NumbersAreDense, Chama!Numbers,
         Chama!Belongs
<1>5. ChamaNoTwoRoles'
  BY DEF Chama!ChamasTypeOK, ChamaNothingBefore, ChamaNoTwoRoles
<1>6. QED
  BY <1>1, <1>2, <1>3, <1>4, <1>5

(* The number in hand is free, so it is the next one.                      *)
LEMMA ChamaJoinKeepsInv ==
  ASSUME ChamaInv, NEW s \in Sessions, Chama!Join(s)
  PROVE  ChamaInv'
<1> USE DEF ChamaInv, Chama!Join
<1>1. /\ chamaTask[s] \in [subject : People, next : Nat, attempt : 1..MaxRetries]
      /\ chama # None
  BY DEF Chama!ChamasTypeOK, Chama!TaskOK, ChamaNothingBefore
<1>2. chamaTask[s].next = next /\ next' = next + 1
  BY DEF Chama!ChamasTypeOK, ChamaNumbersInHand, Chama!NumbersAreDense, Chama!NumberIsFree,
         Chama!CountNumber
<1>3. Chama!ChamasTypeOK'
  BY <1>1, <1>2, ChamaFinishType DEF Chama!ChamasTypeOK, Chama!MembershipStatuses
<1>4. ChamaNothingBefore' /\ ChamaNumbersInHand' /\ ChamaRolesInHand' /\ ChamaStatusesInHand'
  <2>1. ChamaNothingBefore'
    BY <1>1 DEF ChamaNothingBefore
  <2>2. ChamaNumbersInHand'
    BY <1>2 DEF Chama!ChamasTypeOK, ChamaNumbersInHand, Chama!Finish
  <2>3. ChamaRolesInHand' /\ ChamaStatusesInHand'
    BY DEF Chama!ChamasTypeOK, ChamaRolesInHand, ChamaStatusesInHand, Chama!Finish
  <2>4. QED
    BY <2>1, <2>2, <2>3
<1>5. Chama!NumbersAreDense'
  <2>1. next >= 1 /\ \A m \in People : number[m] # 0 => number[m] \in 1..(next - 1)
    BY <1>1 DEF Chama!ChamasTypeOK, ChamaNumbersInHand, Chama!NumbersAreDense, Chama!Numbers,
                Chama!Belongs
  <2>2. Chama!Belongs' = Chama!Belongs \cup {chamaTask[s].subject}
    BY <1>1, <1>2, <2>1 DEF Chama!ChamasTypeOK, Chama!Belongs
  <2>3. Chama!Numbers' = Chama!Numbers \cup {next}
    BY <1>1, <1>2, <2>2 DEF Chama!ChamasTypeOK, Chama!Numbers, Chama!Belongs
  <2>4. Chama!Numbers' = 1..(next' - 1)
    BY <1>2, <2>1, <2>3 DEF Chama!ChamasTypeOK, Chama!NumbersAreDense
  <2>5. \A m, o \in Chama!Belongs' : number'[m] = number'[o] => m = o
    BY <1>1, <1>2, <2>1, <2>2 DEF Chama!ChamasTypeOK, Chama!NumbersAreDense, Chama!Belongs
  <2>6. QED
    BY <2>4, <2>5 DEF Chama!NumbersAreDense
<1>6. ChamaNoTwoRoles'
  BY DEF ChamaNoTwoRoles
<1>7. QED
  BY <1>3, <1>4, <1>5, <1>6

LEMMA ChamaRetryKeepsInv ==
  ASSUME Chama!ChamaAssumption, ChamaInv, NEW s \in Sessions, Chama!Retry(s)
  PROVE  ChamaInv'
<1> USE DEF ChamaInv, Chama!Retry, Chama!Rows
<1>1. chamaTask[s] \in [subject : People, next : Nat, attempt : 1..MaxRetries] /\ next \in Nat
  BY DEF Chama!ChamasTypeOK, Chama!TaskOK
<1>2. chamaTask[s].next \in 1..next /\ next \in 1..next
  BY <1>1 DEF ChamaNumbersInHand
<1>3. Chama!ChamasTypeOK'
  <2>1. ASSUME NEW r \in Sessions \ {s} PROVE Chama!TaskOK(r)'
    BY DEF Chama!ChamasTypeOK, Chama!TaskOK
  <2>2. Chama!TaskOK(s)'
    <3>1. chamaTask[s].attempt + 1 \in 1..MaxRetries
      BY <1>1 DEF Chama!ChamaAssumption
    <3>2. chamaTask'[s] = [subject |-> chamaTask[s].subject, next |-> next,
                      attempt |-> chamaTask[s].attempt + 1]
      BY <1>1 DEF Chama!ChamasTypeOK
    <3>3. QED
      BY <1>1, <3>1, <3>2 DEF Chama!TaskOK
  <2>3. QED
    BY <2>1, <2>2 DEF Chama!ChamasTypeOK
<1>4. ChamaNothingBefore' /\ ChamaRolesInHand' /\ ChamaStatusesInHand'
  BY DEF Chama!ChamasTypeOK, ChamaNothingBefore, ChamaRolesInHand, ChamaStatusesInHand
<1>5. ChamaNumbersInHand'
  BY <1>1, <1>2 DEF Chama!ChamasTypeOK, ChamaNumbersInHand
<1>6. Chama!NumbersAreDense' /\ ChamaNoTwoRoles'
  BY DEF Chama!NumbersAreDense, Chama!Numbers, Chama!Belongs, ChamaNoTwoRoles
<1>7. QED
  BY <1>3, <1>4, <1>5, <1>6

LEMMA ChamaSetStatusKeepsInv ==
  ASSUME ChamaInv, NEW s \in Sessions, Chama!SetStatus(s)
  PROVE  ChamaInv'
<1> USE DEF ChamaInv, Chama!SetStatus, Chama!NoteOverlap
<1>1. chamaTask[s] \in [subject : People, new : Chama!MembershipStatuses] /\ chama # None
  BY DEF Chama!ChamasTypeOK, Chama!TaskOK, ChamaNothingBefore
<1>2. chamaOverlap \subseteq chamaOverlap' /\ chamaOverlap' \subseteq People \cup {"chama"}
  BY <1>1 DEF Chama!ChamasTypeOK
<1>3. Chama!ChamasTypeOK'
  BY <1>1, <1>2, ChamaFinishType DEF Chama!ChamasTypeOK
<1>4. ChamaNothingBefore' /\ ChamaNumbersInHand' /\ ChamaRolesInHand' /\ ChamaStatusesInHand'
  BY <1>1, <1>2 DEF Chama!ChamasTypeOK, ChamaNothingBefore, ChamaNumbersInHand,
                    ChamaRolesInHand, ChamaStatusesInHand, Chama!Finish
<1>5. Chama!NumbersAreDense' /\ ChamaNoTwoRoles'
  BY <1>2 DEF Chama!NumbersAreDense, Chama!Numbers, Chama!Belongs, ChamaNoTwoRoles
<1>6. QED
  BY <1>3, <1>4, <1>5

(* The membership has no role, unless two assign one to it: then it is in  *)
(* overlap from the first to write on.                                     *)
LEMMA ChamaAssignKeepsInv ==
  ASSUME ChamaInv, NEW s \in Sessions, Chama!Assign(s)
  PROVE  ChamaInv'
<1> USE DEF ChamaInv, Chama!Assign, Chama!NoteOverlap
<1>1. chamaTask[s] \in [subject : People, role : Leadership] /\ chama # None
  BY DEF Chama!ChamasTypeOK, Chama!TaskOK, ChamaNothingBefore
<1>2. chamaOverlap \subseteq chamaOverlap' /\ chamaOverlap' \subseteq People \cup {"chama"}
  BY <1>1 DEF Chama!ChamasTypeOK
<1>3. Chama!ChamasTypeOK'
  BY <1>1, <1>2, ChamaFinishType DEF Chama!ChamasTypeOK
<1>4. ChamaNothingBefore' /\ ChamaNumbersInHand' /\ ChamaStatusesInHand'
  BY <1>1, <1>2 DEF Chama!ChamasTypeOK, ChamaNothingBefore, ChamaNumbersInHand,
                    ChamaStatusesInHand, Chama!Finish
<1>5. ChamaRolesInHand'
  <2> SUFFICES ASSUME NEW r \in Sessions,
                      chamaPc'[r] = "assign", chamaTask'[r].subject \notin chamaOverlap'
               PROVE  roles'[chamaTask'[r].subject] = {}
    BY DEF ChamaRolesInHand
  <2>1. r # s /\ chamaPc[r] = "assign" /\ chamaTask'[r] = chamaTask[r]
    BY DEF Chama!ChamasTypeOK, Chama!Finish
  <2>2. chamaTask[r].subject # chamaTask[s].subject
    BY <1>1, <2>1
  <2>3. roles[chamaTask[r].subject] = {}
    BY <1>2, <2>1 DEF ChamaRolesInHand
  <2>4. QED
    BY <1>1, <2>1, <2>2, <2>3 DEF Chama!ChamasTypeOK, Chama!TaskOK
<1>6. Chama!NumbersAreDense'
  BY DEF Chama!NumbersAreDense, Chama!Numbers, Chama!Belongs
<1>7. ChamaNoTwoRoles'
  BY <1>1, <1>2 DEF Chama!ChamasTypeOK, ChamaRolesInHand, ChamaNoTwoRoles
<1>8. QED
  BY <1>3, <1>4, <1>5, <1>6, <1>7

LEMMA ChamaRemoveKeepsInv ==
  ASSUME ChamaInv, NEW s \in Sessions, Chama!Remove(s)
  PROVE  ChamaInv'
<1> USE DEF ChamaInv, Chama!Remove
<1>1. chamaTask[s] \in [subject : People, role : Leadership] /\ chama # None
  BY DEF Chama!ChamasTypeOK, Chama!TaskOK, ChamaNothingBefore
<1>2. Chama!ChamasTypeOK'
  BY <1>1, ChamaFinishType DEF Chama!ChamasTypeOK
<1>3. ChamaNothingBefore' /\ ChamaNumbersInHand' /\ ChamaStatusesInHand'
  BY <1>1 DEF Chama!ChamasTypeOK, ChamaNothingBefore, ChamaNumbersInHand, ChamaStatusesInHand,
              Chama!Finish
<1>4. ChamaRolesInHand'
  <2>1. \A m \in People : roles'[m] \subseteq roles[m]
    BY <1>1 DEF Chama!ChamasTypeOK
  <2>2. ASSUME NEW r \in Sessions, chamaPc'[r] = "assign"
        PROVE  chamaPc[r] = "assign" /\ chamaTask'[r] = chamaTask[r] /\ chamaTask[r].subject \in People
    BY <2>2 DEF Chama!ChamasTypeOK, Chama!TaskOK, Chama!Finish
  <2>3. QED
    BY <2>1, <2>2 DEF ChamaRolesInHand
<1>5. Chama!NumbersAreDense' /\ ChamaNoTwoRoles'
  BY <1>1 DEF Chama!ChamasTypeOK, Chama!NumbersAreDense, Chama!Numbers, Chama!Belongs,
              ChamaNoTwoRoles
<1>6. QED
  BY <1>2, <1>3, <1>4, <1>5

LEMMA ChamaSetLifecycleKeepsInv ==
  ASSUME Chama!ChamaAssumption, ChamaInv, NEW s \in Sessions, Chama!SetLifecycle(s)
  PROVE  ChamaInv'
<1> USE DEF ChamaInv, Chama!SetLifecycle, Chama!NoteOverlap
<1>1. chamaTask[s] \in [subject : {"chama"}, new : Chama!ChamaStatuses]
  BY DEF Chama!ChamasTypeOK, Chama!TaskOK
<1>2. chamaOverlap \subseteq chamaOverlap' /\ chamaOverlap' \subseteq People \cup {"chama"}
  BY <1>1 DEF Chama!ChamasTypeOK
<1>3. Chama!ChamasTypeOK'
  BY <1>1, <1>2, ChamaFinishType DEF Chama!ChamasTypeOK
<1>4. ChamaNothingBefore'
  BY <1>1 DEF Chama!ChamaAssumption, ChamaNothingBefore
<1>5. ChamaNumbersInHand' /\ ChamaRolesInHand'
  BY <1>2 DEF Chama!ChamasTypeOK, ChamaNumbersInHand, ChamaRolesInHand, Chama!Finish
<1>6. ChamaStatusesInHand'
  <2> SUFFICES ASSUME NEW r \in Sessions, chamaPc'[r] = "lifecycle", "chama" \notin chamaOverlap'
               PROVE  FALSE
    BY DEF ChamaStatusesInHand
  <2>1. r # s /\ chamaPc[r] = "lifecycle"
    BY DEF Chama!ChamasTypeOK, Chama!Finish
  <2>2. chamaTask[r].subject = "chama"
    BY <2>1 DEF Chama!ChamasTypeOK, Chama!TaskOK
  <2>3. QED
    BY <1>1, <2>1, <2>2
<1>7. Chama!NumbersAreDense' /\ ChamaNoTwoRoles'
  BY <1>2 DEF Chama!NumbersAreDense, Chama!Numbers, Chama!Belongs, ChamaNoTwoRoles
<1>8. QED
  BY <1>3, <1>4, <1>5, <1>6, <1>7

LEMMA ChamaBeginKeepsInv ==
  ASSUME Chama!ChamaAssumption, ChamaInv, NEW s \in Sessions, NEW a \in People, NEW m \in People,
         \/ Chama!BeginMembership(s, a, m)
         \/ \E new \in Chama!MembershipStatuses : Chama!BeginStatus(s, a, m, new)
         \/ \E role \in Leadership : Chama!BeginAssign(s, a, m, role) \/ Chama!BeginRemove(s, a, m, role)
  PROVE  ChamaInv'
<1>1. chama # None
  BY DEF Chama!ChamaAssumption, Chama!ChamaStatuses, Chama!BeginMembership, Chama!BeginStatus,
         Chama!BeginAssign, Chama!BeginRemove, Chama!MayWrite
<1>2. next \in Nat /\ next \in 1..next /\ 1 \in 1..MaxRetries
  <2>1. next \in Nat /\ next >= 1
    BY DEF ChamaInv, Chama!ChamasTypeOK, ChamaNumbersInHand
  <2>2. QED
    BY <2>1 DEF Chama!ChamaAssumption
<1>3. CASE Chama!BeginMembership(s, a, m)
  <2>1. Chama!TaskOK(s)'
    BY <1>2, <1>3 DEF ChamaInv, Chama!ChamasTypeOK, Chama!BeginMembership, Chama!Take,
                      Chama!TaskOK
  <2>2. QED
    BY <1>1, <1>2, <1>3, <2>1, ChamaTakeKeepsInv DEF Chama!BeginMembership, Chama!Labels
<1>4. ASSUME NEW new \in Chama!MembershipStatuses, Chama!BeginStatus(s, a, m, new) PROVE ChamaInv'
  <2>1. Chama!TaskOK(s)'
    BY <1>4 DEF ChamaInv, Chama!ChamasTypeOK, Chama!BeginStatus, Chama!Take, Chama!TaskOK
  <2>2. QED
    BY <1>1, <1>4, <2>1, ChamaTakeKeepsInv DEF Chama!BeginStatus, Chama!Labels
<1>5. ASSUME NEW role \in Leadership, Chama!BeginAssign(s, a, m, role) PROVE ChamaInv'
  <2>1. Chama!TaskOK(s)'
    BY <1>5 DEF ChamaInv, Chama!ChamasTypeOK, Chama!BeginAssign, Chama!Take, Chama!TaskOK
  <2>2. QED
    BY <1>1, <1>5, <2>1, ChamaTakeKeepsInv DEF Chama!BeginAssign, Chama!MayHold, Chama!Labels
<1>6. ASSUME NEW role \in Leadership, Chama!BeginRemove(s, a, m, role) PROVE ChamaInv'
  <2>1. Chama!TaskOK(s)'
    BY <1>6 DEF ChamaInv, Chama!ChamasTypeOK, Chama!BeginRemove, Chama!Take, Chama!TaskOK
  <2>2. QED
    BY <1>1, <1>6, <2>1, ChamaTakeKeepsInv DEF Chama!BeginRemove, Chama!Labels
<1>7. QED
  BY <1>3, <1>4, <1>5, <1>6

LEMMA ChamaBeginLifecycleKeepsInv ==
  ASSUME ChamaInv, NEW s \in Sessions, NEW new \in Chama!ChamaStatuses, Chama!BeginLifecycle(s, new)
  PROVE  ChamaInv'
<1>1. Chama!TaskOK(s)'
  BY DEF ChamaInv, Chama!ChamasTypeOK, Chama!BeginLifecycle, Chama!Take, Chama!TaskOK
<1>2. chama # "DISSOLVED"
  BY DEF Chama!BeginLifecycle, Chama!Allowed, Chama!Canonical, Chama!Transitions
<1>3. QED
  BY <1>1, <1>2, ChamaTakeKeepsInv DEF Chama!BeginLifecycle, Chama!Labels

LEMMA ChamaStepKeepsInv ==
  ASSUME Chama!ChamaAssumption, ChamaInv, [Chama!Next]_(Chama!vars)
  PROVE  ChamaInv'
<1>1. CASE UNCHANGED Chama!vars
  BY <1>1 DEF Chama!vars, ChamaInv, Chama!ChamasTypeOK, Chama!TaskOK, ChamaNothingBefore,
              ChamaNumbersInHand, Chama!NumbersAreDense, Chama!Numbers, Chama!Belongs,
              ChamaRolesInHand, ChamaNoTwoRoles, ChamaStatusesInHand
<1>2. ASSUME NEW m \in People, Chama!CreateChama(m) PROVE ChamaInv'
  BY <1>2, ChamaCreateChamaKeepsInv
<1>3. ASSUME NEW s \in Sessions, NEW a \in People, NEW m \in People,
             \/ Chama!BeginMembership(s, a, m)
             \/ \E new \in Chama!MembershipStatuses : Chama!BeginStatus(s, a, m, new)
             \/ \E role \in Leadership : Chama!BeginAssign(s, a, m, role) \/ Chama!BeginRemove(s, a, m, role)
      PROVE  ChamaInv'
  BY <1>3, ChamaBeginKeepsInv
<1>4. ASSUME NEW s \in Sessions, NEW new \in Chama!ChamaStatuses, Chama!BeginLifecycle(s, new) PROVE ChamaInv'
  BY <1>4, ChamaBeginLifecycleKeepsInv
<1>5. ASSUME NEW s \in Sessions, Chama!Join(s) \/ Chama!Retry(s) PROVE ChamaInv'
  BY <1>5, ChamaJoinKeepsInv, ChamaRetryKeepsInv
<1>6. ASSUME NEW s \in Sessions, Chama!RefuseMembership(s) \/ Chama!Crash(s) PROVE ChamaInv'
  BY <1>6, ChamaFinishKeepsInv DEF Chama!RefuseMembership, Chama!Crash
<1>7. ASSUME NEW s \in Sessions, Chama!SetStatus(s) \/ Chama!Assign(s) \/ Chama!Remove(s) \/ Chama!SetLifecycle(s)
      PROVE  ChamaInv'
  BY <1>7, ChamaSetStatusKeepsInv, ChamaAssignKeepsInv, ChamaRemoveKeepsInv,
     ChamaSetLifecycleKeepsInv
<1>8. QED
  BY <1>1, <1>2, <1>3, <1>4, <1>5, <1>6, <1>7 DEF Chama!Next

LEMMA ChamaInitInv ==
  ASSUME Chama!ChamaAssumption, Chama!Init
  PROVE  ChamaInv
<1>1. Chama!ChamasTypeOK
  BY DEF Chama!Init, Chama!ChamasTypeOK, Chama!MembershipStatuses, Chama!Labels, Chama!TaskOK
<1>2. Chama!NumbersAreDense
  BY DEF Chama!Init, Chama!NumbersAreDense, Chama!Numbers, Chama!Belongs
<1>3. QED
  BY <1>1, <1>2 DEF Chama!Init, ChamaInv, ChamaNothingBefore, ChamaNumbersInHand,
                    ChamaRolesInHand, ChamaNoTwoRoles, ChamaStatusesInHand

LEMMA ChamaInvMeansSound ==
  ASSUME ChamaInv
  PROVE  Chama!MembershipsAreSound
<1>1. ASSUME NEW m \in People \ chamaOverlap PROVE Cardinality(roles[m]) <= 1
  <2>1. CASE roles[m] = {}
    BY <2>1, FS_EmptySet, ChamaCardinality
  <2>2. CASE roles[m] # {}
    <3>1. PICK role \in roles[m] : roles[m] = {role}
      BY <2>2 DEF ChamaInv, ChamaNoTwoRoles
    <3>2. Cardinality({role}) = 1
      BY FS_Singleton
    <3>3. QED
      BY <3>1, <3>2
  <2>3. QED
    BY <2>1, <2>2
<1>2. QED
  BY <1>1, ChamaCardinality DEF ChamaInv, Chama!MembershipsAreSound, Chama!OneLeadershipRole

(* The inductive invariant holds, however requests interleave and crash.   *)
THEOREM ChamaInvariance == ASSUME Chama!ChamaAssumption PROVE Chama!Spec => []ChamaInv
<1>1. Chama!Init => ChamaInv
  BY ChamaInitInv
<1>2. ChamaInv /\ [Chama!Next]_(Chama!vars) => ChamaInv'
  BY ChamaStepKeepsInv
<1>3. QED
  BY <1>1, <1>2, PTL DEF Chama!Spec

(* Types of Chama, memberships and requests (app/services/chama.py,        *)
(* membership.py, role.py).                                                *)
THEOREM ChamaTypeCorrect == ASSUME Chama!ChamaAssumption PROVE Chama!Spec => []Chama!ChamasTypeOK
<1>1. ChamaInv => Chama!ChamasTypeOK
  BY DEF ChamaInv
<1>2. QED
  BY <1>1, ChamaInvariance, PTL

(* Membership numbers are 1, 2, 3 and so on, each given once, however many *)
(* requests hold a stale one; and a membership has one leadership role at  *)
(* most, unless two are assigned at the same time.                         *)
THEOREM ChamaMembershipsSound == ASSUME Chama!ChamaAssumption PROVE Chama!Spec => []Chama!MembershipsAreSound
<1>1. ChamaInv => Chama!MembershipsAreSound
  BY ChamaInvMeansSound
<1>2. QED
  BY <1>1, ChamaInvariance, PTL

(* A dissolved Chama stays dissolved, unless two administrators change its *)
(* status at the same time (update_chama_status in platform.py).           *)
THEOREM ChamaDissolutionIsFinal == ASSUME Chama!ChamaAssumption PROVE Chama!Spec => Chama!DissolvedIsTerminal
<1>1. ChamaInv /\ [Chama!Next]_(Chama!vars) =>
        [chama = "DISSOLVED" => chama' = "DISSOLVED" \/ "chama" \in chamaOverlap']_(Chama!vars)
  <2> SUFFICES ASSUME ChamaInv, Chama!Next, chama = "DISSOLVED", chama' # "DISSOLVED"
               PROVE  "chama" \in chamaOverlap'
    BY DEF Chama!vars
  <2>1. chama # None
    BY DEF Chama!ChamaAssumption, Chama!ChamaStatuses
  <2>2. PICK s \in Sessions : Chama!SetLifecycle(s)
    <3>1. ASSUME NEW m \in People, Chama!CreateChama(m) PROVE FALSE
      BY <2>1, <3>1 DEF Chama!CreateChama
    <3>2. ASSUME NEW s \in Sessions, NEW a \in People, NEW m \in People,
                 \/ Chama!BeginMembership(s, a, m)
                 \/ \E new \in Chama!MembershipStatuses : Chama!BeginStatus(s, a, m, new)
                 \/ \E role \in Leadership : Chama!BeginAssign(s, a, m, role) \/ Chama!BeginRemove(s, a, m, role)
          PROVE  FALSE
      BY <3>2 DEF Chama!BeginMembership, Chama!BeginStatus, Chama!BeginAssign,
                  Chama!BeginRemove, Chama!Take, Chama!Rows
    <3>3. ASSUME NEW s \in Sessions, NEW new \in Chama!ChamaStatuses, Chama!BeginLifecycle(s, new)
          PROVE  FALSE
      BY <3>3 DEF Chama!BeginLifecycle, Chama!Take, Chama!Rows
    <3>4. ASSUME NEW s \in Sessions, \/ Chama!Join(s) \/ Chama!Retry(s) \/ Chama!RefuseMembership(s)
                                     \/ Chama!SetStatus(s) \/ Chama!Assign(s) \/ Chama!Remove(s) \/ Chama!Crash(s)
          PROVE  FALSE
      BY <3>4 DEF Chama!Join, Chama!Retry, Chama!RefuseMembership, Chama!SetStatus,
                  Chama!Assign, Chama!Remove, Chama!Crash, Chama!Rows
    <3>5. QED
      BY <3>1, <3>2, <3>3, <3>4 DEF Chama!Next
  <2>3. "chama" \in chamaOverlap
    BY <2>2 DEF ChamaInv, ChamaStatusesInHand, Chama!SetLifecycle
  <2>4. QED
    BY <2>2, <2>3 DEF Chama!SetLifecycle, Chama!NoteOverlap
<1>2. QED
  BY <1>1, ChamaInvariance, PTL DEF Chama!Spec, Chama!DissolvedIsTerminal

-----------------------------------------------------------------------------
(* A session that is about to post has a payment row of its own, and holds *)
(* the index entry of a fee that has no confirmed payment.                 *)
FeePostersHoldTheIndex ==
  \A s \in Sessions : feePc[s] = "post" =>
    /\ feeTask[s] \in Fees!Tasks /\ feeTask[s].payment \in FeePayments
    /\ payment[feeTask[s].payment] = None
    /\ Fees!Confirmed(feeTask[s].fee) = {}
    /\ \A t \in Sessions \ {s} : feePc[t] = "post" =>
         feeTask[t].fee # feeTask[s].fee /\ feeTask[t].payment # feeTask[s].payment

(* A session that reverses a payment has found it on the fee, and marks it *)
(* only when the compensating posting is there.                            *)
FeeUndoersFoundIt ==
  \A s \in Sessions : feePc[s] \in {"undo", "mark"} =>
    /\ feeTask[s] \in Fees!Tasks /\ feeTask[s].payment \in FeePayments
    /\ feeTask[s].payment \in Fees!Of(feeTask[s].fee)
    /\ feePc[s] = "mark" => Fees!Undone(feeTask[s].payment)

FeeTasksInFlight == \A s \in Sessions : feePc[s] # "idle" => feeTask[s] \in Fees!Tasks

(* At most one confirmed payment of each fee, without counting.            *)
FeeOneConfirmed == \A f \in FeeRows : \A p, q \in Fees!Confirmed(f) : p = q

(* The inductive invariant.                                                *)
FeeInv ==
  /\ Fees!FeesTypeOK /\ FeeTasksInFlight /\ Fees!PaidIsBacked /\ Fees!PaymentsMatchLedger
  /\ FeePostersHoldTheIndex /\ FeeUndoersFoundIt /\ FeeOneConfirmed

LEMMA FeeSameRows ==
  ASSUME FeeInv, UNCHANGED Fees!Rows
  PROVE  Fees!PaidIsBacked' /\ Fees!PaymentsMatchLedger' /\ FeeOneConfirmed'
  BY DEF FeeInv, Fees!Rows, Fees!PaidIsBacked, Fees!PaymentsMatchLedger, FeeOneConfirmed,
         Fees!Confirmed, Fees!Of, Fees!Posted, Fees!Undone

(* A step that only moves a session on, and where it may lead.             *)
LEMMA FeeMoveKeepsInv ==
  ASSUME Fees!FeeAssumption, FeeInv, NEW s \in Sessions, NEW label \in Fees!Labels \ {"post"},
         NEW t \in Fees!Tasks \cup {None},
         Fees!Goto(s, label), feeTask' = [feeTask EXCEPT ![s] = t], UNCHANGED Fees!Rows,
         label # "idle" => t \in Fees!Tasks,
         label \in {"undo", "mark"} => t.payment \in FeePayments /\ t.payment \in Fees!Of(t.fee),
         label = "mark" => Fees!Undone(t.payment)
  PROVE  FeeInv'
<1> USE DEF FeeInv, Fees!Goto, Fees!Rows
<1>1. Fees!FeesTypeOK' /\ FeeTasksInFlight'
  BY DEF Fees!FeesTypeOK, FeeTasksInFlight
<1>2. Fees!PaidIsBacked' /\ Fees!PaymentsMatchLedger' /\ FeeOneConfirmed'
  BY FeeSameRows
<1>3. FeePostersHoldTheIndex'
  BY DEF Fees!FeesTypeOK, FeePostersHoldTheIndex, Fees!Confirmed, Fees!Of
<1>4. FeeUndoersFoundIt'
  BY DEF Fees!FeesTypeOK, FeeUndoersFoundIt, Fees!Of, Fees!Undone
<1>5. QED
  BY <1>1, <1>2, <1>3, <1>4

LEMMA FeeRefuseKeepsInv ==
  ASSUME Fees!FeeAssumption, FeeInv, NEW s \in Sessions, Fees!Refuse(s)
  PROVE  FeeInv'
  BY FeeMoveKeepsInv DEF Fees!Refuse, Fees!Finish, Fees!Labels

LEMMA FeeBeginKeepsInv ==
  ASSUME Fees!FeeAssumption, FeeInv, NEW s \in Sessions, NEW f \in FeeRows, Fees!Begin(s, f)
  PROVE  FeeInv'
<1> DEFINE t == [fee |-> f, payment |-> None]
<1>1. t \in Fees!Tasks
  BY DEF Fees!Tasks
<1>2. PICK label \in {"waive", "insert", "find"} : Fees!Goto(s, label)
  BY DEF Fees!Begin
<1>3. feeTask' = [feeTask EXCEPT ![s] = t] /\ UNCHANGED Fees!Rows
  BY DEF Fees!Begin
<1> HIDE DEF t
<1>4. QED
  BY <1>1, <1>2, <1>3, FeeMoveKeepsInv DEF Fees!Labels

LEMMA FeeWaiveKeepsInv ==
  ASSUME Fees!FeeAssumption, FeeInv, NEW s \in Sessions, Fees!Waive(s)
  PROVE  FeeInv'
<1> USE DEF FeeInv, Fees!Waive, Fees!Finish, Fees!Goto
<1>1. feeTask[s] \in Fees!Tasks
  BY DEF FeeTasksInFlight
<1>2. Fees!FeesTypeOK' /\ FeeTasksInFlight'
  BY <1>1 DEF Fees!FeesTypeOK, FeeTasksInFlight, Fees!Tasks, Fees!FeeStatuses, Fees!Labels
<1>3. Fees!PaidIsBacked'
  BY <1>1 DEF Fees!FeesTypeOK, Fees!PaidIsBacked, Fees!Confirmed, Fees!Of, Fees!Posted,
              Fees!Tasks
<1>4. Fees!PaymentsMatchLedger' /\ FeeOneConfirmed'
  BY DEF Fees!PaymentsMatchLedger, FeeOneConfirmed, Fees!Confirmed, Fees!Of, Fees!Posted,
         Fees!Undone
<1>5. FeePostersHoldTheIndex'
  BY DEF Fees!FeesTypeOK, FeePostersHoldTheIndex, Fees!Confirmed, Fees!Of
<1>6. FeeUndoersFoundIt'
  BY DEF Fees!FeesTypeOK, FeeUndoersFoundIt, Fees!Of, Fees!Undone
<1>7. QED
  BY <1>2, <1>3, <1>4, <1>5, <1>6

(* The index lets a session through only if nobody else holds its entry.   *)
LEMMA FeeInsertPaymentKeepsInv ==
  ASSUME Fees!FeeAssumption, FeeInv, NEW s \in Sessions, Fees!InsertPayment(s)
  PROVE  FeeInv'
<1> USE DEF FeeInv, Fees!InsertPayment, Fees!Goto, Fees!Rows
<1>1. PICK p \in FeePayments :
        /\ payment[p] = None
        /\ \A t \in Sessions : feeTask[t] # None => feeTask[t].payment # p
        /\ feeTask' = [feeTask EXCEPT ![s].payment = p]
  OBVIOUS
<1>2. feeTask[s] \in Fees!Tasks /\ feeTask'[s] \in Fees!Tasks /\ feeTask'[s].payment = p
      /\ feeTask'[s].fee = feeTask[s].fee
  BY <1>1 DEF FeeTasksInFlight, Fees!FeesTypeOK, Fees!Tasks
<1>3. \A t \in Sessions \ {s} : feeTask'[t] = feeTask[t] /\ feePc'[t] = feePc[t]
  BY <1>1 DEF Fees!FeesTypeOK
<1>4. Fees!FeesTypeOK' /\ FeeTasksInFlight'
  BY <1>1, <1>2, <1>3 DEF Fees!FeesTypeOK, FeeTasksInFlight, Fees!Labels
<1>5. Fees!PaidIsBacked' /\ Fees!PaymentsMatchLedger' /\ FeeOneConfirmed'
  BY FeeSameRows
<1>6. FeePostersHoldTheIndex'
  <2>1. \A t \in Sessions \ {s} : feePc[t] = "post" =>
          feeTask[t] # None /\ feeTask[t].fee # feeTask[s].fee /\ feeTask[t].payment # p
    BY <1>1 DEF Fees!FeeAssumption, FeePostersHoldTheIndex, Fees!IndexIsFree
  <2>2. payment' = payment /\ feePc'[s] = "post"
        /\ \A f \in FeeRows : Fees!Confirmed(f)' = Fees!Confirmed(f)
    BY DEF Fees!FeesTypeOK, Fees!Confirmed, Fees!Of
  <2>3. feeTask[s].fee \in FeeRows
    BY <1>2 DEF Fees!Tasks
  <2>4. QED
    BY <1>1, <1>2, <1>3, <2>1, <2>2, <2>3 DEF FeePostersHoldTheIndex, Fees!Tasks
<1>7. FeeUndoersFoundIt'
  BY <1>3 DEF Fees!FeesTypeOK, FeeUndoersFoundIt, Fees!Of, Fees!Undone
<1>8. QED
  BY <1>4, <1>5, <1>6, <1>7

LEMMA FeePostPaymentKeepsInv ==
  ASSUME Fees!FeeAssumption, FeeInv, NEW s \in Sessions, Fees!PostPayment(s)
  PROVE  FeeInv'
<1> DEFINE f == feeTask[s].fee
<1> DEFINE p == feeTask[s].payment
<1> DEFINE row == [fee |-> f, status |-> "CONFIRMED"]
<1>1. /\ f \in FeeRows /\ p \in FeePayments /\ payment[p] = None /\ Fees!Confirmed(f) = {}
      /\ row \in Fees!PaymentRows /\ row # None /\ row.fee = f /\ row.status = "CONFIRMED"
      /\ \A t \in Sessions \ {s} : feePc[t] = "post" => feeTask[t].fee # f /\ feeTask[t].payment # p
  BY DEF Fees!PostPayment, FeeInv, FeePostersHoldTheIndex, Fees!Tasks, Fees!PaymentRows,
         Fees!FeeAssumption
<1>2. /\ payment' = [payment EXCEPT ![p] = row] /\ fee' = [fee EXCEPT ![f] = "PAID"]
      /\ feeLedger' = feeLedger \cup {<<"PAYMENT", p>>}
      /\ feePc' = [feePc EXCEPT ![s] = "idle"] /\ feeTask' = [feeTask EXCEPT ![s] = None]
  BY DEF Fees!PostPayment, Fees!Finish, Fees!Goto
<1> HIDE DEF f, p, row
<1> USE DEF FeeInv
<1>3. Fees!FeesTypeOK' /\ FeeTasksInFlight'
  BY <1>1, <1>2 DEF Fees!FeesTypeOK, FeeTasksInFlight, Fees!FeeStatuses, Fees!Labels
<1>4. /\ \A q \in FeePayments : Fees!Posted(q)' <=> Fees!Posted(q) \/ q = p
      /\ \A q \in FeePayments : Fees!Undone(q)' <=> Fees!Undone(q)
      /\ \A q \in FeePayments \ {p} : payment'[q] = payment[q]
      /\ payment'[p] = row
  BY <1>1, <1>2 DEF Fees!FeesTypeOK, Fees!Posted, Fees!Undone
<1>5. \A g \in FeeRows : Fees!Confirmed(g)' = IF g = f THEN {p} ELSE Fees!Confirmed(g)
  BY <1>1, <1>4 DEF Fees!Confirmed, Fees!Of
<1>6. Fees!PaidIsBacked'
  <2>1. \A g \in FeeRows \ {f} : fee'[g] = fee[g]
    BY <1>2 DEF Fees!FeesTypeOK
  <2>2. \A g \in FeeRows : \A q \in Fees!Confirmed(g) : q \in FeePayments
    BY DEF Fees!Confirmed, Fees!Of
  <2>3. QED
    BY <1>1, <1>4, <1>5, <2>1, <2>2 DEF Fees!PaidIsBacked
<1>7. Fees!PaymentsMatchLedger'
  BY <1>1, <1>4 DEF Fees!PaymentsMatchLedger
<1>8. FeeOneConfirmed'
  BY <1>5 DEF FeeOneConfirmed
<1>9. FeePostersHoldTheIndex'
  <2>1. \A t \in Sessions : feePc'[t] = "post" => t # s /\ feePc[t] = "post" /\ feeTask'[t] = feeTask[t]
    BY <1>2 DEF Fees!FeesTypeOK
  <2>2. QED
    BY <1>1, <1>4, <1>5, <2>1 DEF FeePostersHoldTheIndex, Fees!Tasks
<1>10. FeeUndoersFoundIt'
  <2>1. \A t \in Sessions : feePc'[t] \in {"undo", "mark"} =>
          t # s /\ feePc'[t] = feePc[t] /\ feeTask'[t] = feeTask[t]
    BY <1>2 DEF Fees!FeesTypeOK
  <2>2. \A g \in FeeRows : Fees!Of(g) \subseteq Fees!Of(g)'
    BY <1>1, <1>4 DEF Fees!Of
  <2>3. QED
    BY <1>1, <1>4, <2>1, <2>2 DEF FeeUndoersFoundIt, Fees!Tasks
<1>11. QED
  BY <1>3, <1>6, <1>7, <1>8, <1>9, <1>10

LEMMA FeeFindPaymentKeepsInv ==
  ASSUME Fees!FeeAssumption, FeeInv, NEW s \in Sessions, Fees!FindPayment(s)
  PROVE  FeeInv'
<1>1. CASE Fees!Refuse(s)
  BY <1>1, FeeRefuseKeepsInv
<1>2. ASSUME NEW p \in Fees!Confirmed(feeTask[s].fee), feeTask' = [feeTask EXCEPT ![s].payment = p],
             Fees!Goto(s, "undo"), UNCHANGED Fees!Rows
      PROVE  FeeInv'
  <2> DEFINE t == [fee |-> feeTask[s].fee, payment |-> p]
  <2>1. feeTask[s] \in Fees!Tasks
    BY DEF Fees!FindPayment, FeeInv, FeeTasksInFlight
  <2>2. p \in FeePayments /\ p \in Fees!Of(feeTask[s].fee)
    BY DEF Fees!Confirmed, Fees!Of
  <2>3. t \in Fees!Tasks /\ t.payment = p /\ t.fee = feeTask[s].fee
    BY <2>1, <2>2 DEF Fees!Tasks
  <2>4. feeTask' = [feeTask EXCEPT ![s] = t]
    <3>1. [feeTask[s] EXCEPT !.payment = p] = t
      BY <2>1 DEF Fees!Tasks
    <3>2. QED
      BY <1>2, <3>1
  <2> HIDE DEF t
  <2>5. QED
    BY <1>2, <2>2, <2>3, <2>4, FeeMoveKeepsInv DEF Fees!Labels
<1>3. QED
  BY <1>1, <1>2 DEF Fees!FindPayment

LEMMA FeePostReversalKeepsInv ==
  ASSUME Fees!FeeAssumption, FeeInv, NEW s \in Sessions, Fees!PostReversal(s)
  PROVE  FeeInv'
<1> DEFINE p == feeTask[s].payment
<1>1. /\ p \in FeePayments /\ p \in Fees!Of(feeTask[s].fee) /\ Fees!Posted(p) /\ feePc[s] = "undo"
      /\ feeTask[s] \in Fees!Tasks
  BY DEF Fees!PostReversal, FeeInv, FeeUndoersFoundIt, Fees!PaymentsMatchLedger, Fees!Of
<1>2. /\ feeLedger' = feeLedger \cup {<<"REVERSAL", p>>} /\ feePc' = [feePc EXCEPT ![s] = "mark"]
      /\ UNCHANGED <<fee, payment, feeTask>>
  BY <1>1 DEF Fees!PostReversal, Fees!Posted, Fees!Goto
<1> HIDE DEF p
<1> USE DEF FeeInv
<1>3. Fees!FeesTypeOK' /\ FeeTasksInFlight'
  BY <1>1, <1>2 DEF Fees!FeesTypeOK, FeeTasksInFlight, Fees!Labels
<1>4. /\ \A q \in FeePayments : Fees!Posted(q)' <=> Fees!Posted(q)
      /\ \A q \in FeePayments : Fees!Undone(q)' <=> Fees!Undone(q) \/ q = p
      /\ \A f : Fees!Of(f)' = Fees!Of(f) /\ Fees!Confirmed(f)' = Fees!Confirmed(f)
      /\ \A f : Fees!Confirmed(f) \subseteq FeePayments
  BY <1>1, <1>2 DEF Fees!FeesTypeOK, Fees!Posted, Fees!Undone, Fees!Of, Fees!Confirmed
<1>5. Fees!PaidIsBacked' /\ FeeOneConfirmed'
  BY <1>2, <1>4 DEF Fees!PaidIsBacked, FeeOneConfirmed
<1>6. Fees!PaymentsMatchLedger'
  BY <1>1, <1>2, <1>4 DEF Fees!PaymentsMatchLedger
<1>7. FeePostersHoldTheIndex'
  BY <1>2, <1>4 DEF Fees!FeesTypeOK, FeePostersHoldTheIndex
<1>8. FeeUndoersFoundIt'
  <2> SUFFICES ASSUME NEW t \in Sessions, feePc'[t] \in {"undo", "mark"}
               PROVE  /\ feeTask[t] \in Fees!Tasks /\ feeTask[t].payment \in FeePayments
                      /\ feeTask[t].payment \in Fees!Of(feeTask[t].fee)
                      /\ feePc'[t] = "mark" => Fees!Undone(feeTask[t].payment)'
    BY <1>2, <1>4 DEF FeeUndoersFoundIt
  <2>1. CASE t = s
    <3>1. feeTask[t].payment = p /\ feeTask'[t] = feeTask[t]
      BY <1>2, <2>1 DEF p
    <3>2. QED
      BY <1>1, <1>2, <2>1, <3>1 DEF Fees!Undone
  <2>2. CASE t # s
    <3>1. feePc'[t] = feePc[t] /\ feeTask'[t] = feeTask[t]
      BY <1>2, <2>2 DEF Fees!FeesTypeOK
    <3>2. QED
      BY <1>2, <3>1 DEF FeeUndoersFoundIt, Fees!Undone
  <2>3. QED
    BY <2>1, <2>2
<1>9. QED
  BY <1>3, <1>5, <1>6, <1>7, <1>8

(* A late reversal meets its payment REVERSED already, or the only one     *)
(* that is confirmed: no fee stays PAID without one.                       *)
LEMMA FeeMarkReversedKeepsInv ==
  ASSUME Fees!FeeAssumption, FeeInv, NEW s \in Sessions, Fees!MarkReversed(s)
  PROVE  FeeInv'
<1> DEFINE f == feeTask[s].fee
<1> DEFINE p == feeTask[s].payment
<1>1. f \in FeeRows /\ p \in FeePayments /\ payment[p] \in Fees!PaymentRows /\ payment[p].fee = f
      /\ Fees!Posted(p) /\ Fees!Undone(p)
  BY DEF Fees!MarkReversed, FeeInv, Fees!FeesTypeOK, FeeUndoersFoundIt,
         Fees!PaymentsMatchLedger, Fees!Of, Fees!Tasks
<1> DEFINE row == [fee |-> f, status |-> "REVERSED"]
<1>2. row \in Fees!PaymentRows /\ row # None /\ row.fee = f /\ row.status = "REVERSED"
      /\ payment' = [payment EXCEPT ![p] = row]
  <2>1. row = [payment[p] EXCEPT !.status = "REVERSED"]
    BY <1>1 DEF Fees!PaymentRows
  <2>2. QED
    BY <1>1, <2>1 DEF Fees!MarkReversed, Fees!PaymentRows, Fees!FeeAssumption
<1>3. /\ fee' = [fee EXCEPT ![f] = "OWED"] /\ feeLedger' = feeLedger
      /\ feePc' = [feePc EXCEPT ![s] = "idle"] /\ feeTask' = [feeTask EXCEPT ![s] = None]
  BY DEF Fees!MarkReversed, Fees!Finish, Fees!Goto
<1> HIDE DEF f, p, row
<1> USE DEF FeeInv
<1>4. Fees!FeesTypeOK' /\ FeeTasksInFlight'
  BY <1>1, <1>2, <1>3 DEF Fees!FeesTypeOK, FeeTasksInFlight, Fees!FeeStatuses, Fees!Labels
<1>5. /\ \A q \in FeePayments : (Fees!Posted(q)' <=> Fees!Posted(q)) /\ (Fees!Undone(q)' <=> Fees!Undone(q))
      /\ payment'[p] = row /\ \A q \in FeePayments \ {p} : payment'[q] = payment[q]
      /\ payment[p] # None
  BY <1>1, <1>2, <1>3 DEF Fees!FeesTypeOK, Fees!Posted, Fees!Undone, Fees!FeeAssumption
<1>6. \A g \in FeeRows : Fees!Of(g)' = Fees!Of(g) /\ Fees!Confirmed(g)' = Fees!Confirmed(g) \ {p}
  BY <1>1, <1>2, <1>5 DEF Fees!Of, Fees!Confirmed
<1>7. Fees!PaidIsBacked'
  <2>1. \A g \in FeeRows \ {f} : p \notin Fees!Confirmed(g) /\ fee'[g] = fee[g]
    BY <1>1, <1>3 DEF Fees!FeesTypeOK, Fees!Confirmed, Fees!Of
  <2>2. fee'[f] = "OWED" /\ \A g \in FeeRows : Fees!Confirmed(g) \subseteq FeePayments
    BY <1>1, <1>3 DEF Fees!FeesTypeOK, Fees!Confirmed, Fees!Of
  <2>3. QED
    BY <1>5, <1>6, <2>1, <2>2 DEF Fees!PaidIsBacked
<1>8. Fees!PaymentsMatchLedger'
  BY <1>1, <1>2, <1>5 DEF Fees!PaymentsMatchLedger
<1>9. FeeOneConfirmed'
  BY <1>6 DEF FeeOneConfirmed
<1>10. \A t \in Sessions : feePc'[t] # "idle" => t # s /\ feePc'[t] = feePc[t] /\ feeTask'[t] = feeTask[t]
  BY <1>3 DEF Fees!FeesTypeOK
<1>11. FeePostersHoldTheIndex'
  BY <1>5, <1>6, <1>10 DEF FeePostersHoldTheIndex, Fees!Tasks
<1>12. FeeUndoersFoundIt'
  BY <1>5, <1>6, <1>10 DEF FeeUndoersFoundIt, Fees!Tasks
<1>13. QED
  BY <1>4, <1>7, <1>8, <1>9, <1>11, <1>12

LEMMA FeeInitInv ==
  ASSUME Fees!FeeAssumption, Fees!Init
  PROVE  FeeInv
  BY DEF Fees!Init, FeeInv, Fees!FeesTypeOK, FeeTasksInFlight, Fees!PaidIsBacked,
         Fees!PaymentsMatchLedger, Fees!Posted, Fees!Undone, FeePostersHoldTheIndex,
         FeeUndoersFoundIt, FeeOneConfirmed, Fees!Confirmed, Fees!Of, Fees!FeeStatuses,
         Fees!Labels

LEMMA FeeStepKeepsInv ==
  ASSUME Fees!FeeAssumption, FeeInv, [Fees!Next]_(Fees!vars)
  PROVE  FeeInv'
<1>1. CASE UNCHANGED Fees!vars
  <2> USE <1>1 DEF Fees!vars
  <2>1. Fees!FeesTypeOK' /\ FeeTasksInFlight'
    BY DEF FeeInv, Fees!FeesTypeOK, FeeTasksInFlight
  <2>2. Fees!PaidIsBacked' /\ Fees!PaymentsMatchLedger'
    BY DEF FeeInv, Fees!PaidIsBacked, Fees!PaymentsMatchLedger, Fees!Posted, Fees!Undone,
           Fees!Confirmed, Fees!Of, Fees!PaymentRows
  <2>3. FeePostersHoldTheIndex' /\ FeeUndoersFoundIt' /\ FeeOneConfirmed'
    BY DEF FeeInv, FeePostersHoldTheIndex, FeeUndoersFoundIt, FeeOneConfirmed, Fees!Posted,
           Fees!Undone, Fees!Confirmed, Fees!Of
  <2>4. QED
    BY <2>1, <2>2, <2>3 DEF FeeInv
<1>2. ASSUME NEW s \in Sessions, NEW f \in FeeRows, Fees!Begin(s, f) PROVE FeeInv'
  BY <1>2, FeeBeginKeepsInv
<1>3. ASSUME NEW s \in Sessions, Fees!Waive(s) \/ Fees!InsertPayment(s) \/ Fees!PostPayment(s) PROVE FeeInv'
  BY <1>3, FeeWaiveKeepsInv, FeeInsertPaymentKeepsInv, FeePostPaymentKeepsInv
<1>4. ASSUME NEW s \in Sessions, Fees!FindPayment(s) \/ Fees!PostReversal(s) \/ Fees!MarkReversed(s)
      PROVE  FeeInv'
  BY <1>4, FeeFindPaymentKeepsInv, FeePostReversalKeepsInv, FeeMarkReversedKeepsInv
<1>5. ASSUME NEW s \in Sessions, Fees!RefuseInsert(s) \/ Fees!Crash(s) PROVE FeeInv'
  BY <1>5, FeeRefuseKeepsInv DEF Fees!RefuseInsert, Fees!Crash
<1>6. QED
  BY <1>1, <1>2, <1>3, <1>4, <1>5 DEF Fees!Next

(* What stands in the ledger is confirmed: a set of one payment at most.   *)
LEMMA FeeInvMeansMatch ==
  ASSUME FeeInv
  PROVE  Fees!FeesMatchLedger
<1>1. ASSUME NEW f \in FeeRows
      PROVE  Cardinality({p \in Fees!Of(f) : Fees!Posted(p) /\ ~Fees!Undone(p)}) <= 1
  <2> DEFINE unpaid == {p \in Fees!Of(f) : Fees!Posted(p) /\ ~Fees!Undone(p)}
  <2>1. unpaid \subseteq Fees!Confirmed(f)
    BY DEF FeeInv, Fees!FeesTypeOK, Fees!PaymentsMatchLedger, Fees!PaymentRows, Fees!Confirmed,
           Fees!Of
  <2>2. \A p, q \in unpaid : p = q
    BY <2>1 DEF FeeInv, FeeOneConfirmed
  <2> HIDE DEF unpaid
  <2>3. CASE unpaid = {}
    <3>1. Cardinality({}) = 0
      BY FS_EmptySet
    <3>2. QED
      BY <2>3, <3>1 DEF unpaid
  <2>4. CASE unpaid # {}
    <3>1. PICK p \in unpaid : unpaid = {p}
      BY <2>2, <2>4
    <3>2. Cardinality({p}) = 1
      BY FS_Singleton
    <3>3. QED
      BY <3>1, <3>2 DEF unpaid
  <2>5. QED
    BY <2>3, <2>4
<1>2. QED
  BY <1>1, FeeCardinality DEF FeeInv, Fees!FeesMatchLedger, Fees!CollectedOnce

(* The inductive invariant holds, however requests interleave and crash.   *)
THEOREM FeeInvariance == ASSUME Fees!FeeAssumption PROVE Fees!Spec => []FeeInv
<1>1. Fees!Init => FeeInv
  BY FeeInitInv
<1>2. FeeInv /\ [Fees!Next]_(Fees!vars) => FeeInv'
  BY FeeStepKeepsInv
<1>3. QED
  BY <1>1, <1>2, PTL DEF Fees!Spec

(* Types of fees, payments and requests (app/services/registration_fee.py) *)
THEOREM FeeTypeCorrect == ASSUME Fees!FeeAssumption PROVE Fees!Spec => []Fees!FeesTypeOK
<1>1. FeeInv => Fees!FeesTypeOK
  BY DEF FeeInv
<1>2. QED
  BY <1>1, FeeInvariance, PTL

(* A fee that is PAID has a posted payment; payment rows tell what the     *)
(* ledger holds; and no fee is collected twice at a time, however          *)
(* waivers, payments and reversals race and crash.                         *)
THEOREM FeesAlwaysMatchLedger == ASSUME Fees!FeeAssumption PROVE Fees!Spec => []Fees!FeesMatchLedger
<1>1. FeeInv => Fees!FeesMatchLedger
  BY FeeInvMeansMatch
<1>2. QED
  BY <1>1, FeeInvariance, PTL

-----------------------------------------------------------------------------
(* The tokens that were issued for t, and the requests that present it.    *)
Heirs(t) == {n \in Tokens : token[n] # None /\ token[n].parent = t}
Rotators(t) == {s \in Sessions : authPc[s] = "commit" /\ authTask[s].op = "rotate" /\ authTask[s].token = t}

IsTokenOf(t, u) == t \in Tokens /\ token[t] # None /\ token[t].user = u

(* A token that was issued for another one belongs to the same user.       *)
AuthParentsAreThere ==
  \A n \in Tokens : token[n] # None /\ token[n].parent # None =>
    IsTokenOf(token[n].parent, token[n].user)

(* A request in hand has read tokens of its user.                          *)
AuthTasksInHand ==
  \A s \in Sessions : authPc[s] = "commit" =>
    /\ authTask[s] \in Auth!Tasks
    /\ authTask[s].op \in {"rotate", "logout"} => IsTokenOf(authTask[s].token, authTask[s].user)
    /\ \A t \in authTask[s].seen : IsTokenOf(t, authTask[s].user)

(* What it has read is still so, unless operations of the user overlap.    *)
AuthFreshInHand ==
  \A s \in Sessions : authPc[s] = "commit" /\ authTask[s].user \notin authOverlap =>
    /\ authTask[s].password = password[authTask[s].user]
    /\ authTask[s].op = "rotate" => authTask[s].token \in Auth!Live(authTask[s].user)
    /\ authTask[s].op \in {"change", "delete"} => Auth!Live(authTask[s].user) \subseteq authTask[s].seen

(* A token with a successor is spent, and has no other one, unless         *)
(* operations of the user overlap.                                         *)
AuthOneHeir ==
  \A t \in Tokens : Heirs(t) # {} =>
    /\ t \notin Auth!Live(token[t].user)
    /\ token[t].user \notin authOverlap => \A a, b \in Heirs(t) : a = b

(* Each successor has used up one request that presented the token while   *)
(* it was live.                                                            *)
HeirsAreCounted ==
  \A t \in Tokens :
    /\ IsFiniteSet(Heirs(t))
    /\ Heirs(t) # {} => Cardinality(Heirs(t)) + Cardinality(Rotators(t)) <= Cardinality(Sessions)

(* The inductive invariant.                                                *)
AuthInv ==
  /\ Auth!AuthTypeOK /\ AuthParentsAreThere /\ AuthTasksInHand /\ AuthFreshInHand /\ Auth!SessionsFollowPassword
  /\ AuthOneHeir /\ HeirsAreCounted

LEMMA RotatorsAreCounted ==
  ASSUME Auth!AuthAssumption, NEW t
  PROVE  /\ IsFiniteSet(Rotators(t)) /\ Cardinality(Rotators(t)) \in Nat
         /\ Cardinality(Rotators(t)) <= Cardinality(Sessions) /\ Cardinality(Sessions) \in Nat
<1>1. IsFiniteSet(Sessions) /\ Rotators(t) \subseteq Sessions
  BY AuthCardinality DEF Auth!AuthAssumption, Rotators
<1>2. QED
  BY <1>1, FS_Subset, FS_CardinalityType

LEMMA AuthInitInv ==
  ASSUME Auth!AuthAssumption, Auth!Init
  PROVE  AuthInv
<1>1. Auth!AuthTypeOK
  BY DEF Auth!AuthAssumption, Auth!Init, Auth!AuthTypeOK
<1>2. \A t \in Tokens : Heirs(t) = {}
  BY DEF Auth!Init, Heirs
<1>3. HeirsAreCounted
  BY <1>2, FS_EmptySet DEF HeirsAreCounted
<1>4. QED
  BY <1>1, <1>2, <1>3 DEF Auth!Init, AuthInv, AuthParentsAreThere, AuthTasksInHand,
                          AuthFreshInHand, Auth!SessionsFollowPassword, Auth!Live, AuthOneHeir

(* What a request that begins has read is so.                              *)
LEMMA AuthTakeKeepsInv ==
  ASSUME Auth!AuthAssumption, AuthInv, NEW s \in Sessions, NEW o \in Auth!Operations, NEW u \in Holders,
         NEW t \in Tokens \cup {None}, Auth!Take(s, o, u, t),
         t = None => o \in {"login", "change", "delete"},
         t # None => t \in Auth!Live(u) /\ o \in {"rotate", "logout"}
  PROVE  AuthInv'
<1> DEFINE new == [op |-> o, user |-> u, token |-> t,
                   password |-> IF t = None THEN password[u] ELSE token[t].password,
                   seen |-> IF o \in {"change", "delete"} THEN Auth!Live(u) ELSE {}]
<1>1. /\ authPc[s] = "idle" /\ authPc' = [authPc EXCEPT ![s] = "commit"] /\ authTask' = [authTask EXCEPT ![s] = new]
      /\ active' = active /\ password' = password /\ token' = token /\ authOverlap' = authOverlap
  BY DEF Auth!Take, Auth!Rows
<1>2. Auth!AuthTypeOK
  BY DEF AuthInv
<1>3. new \in Auth!Tasks
  BY <1>2 DEF Auth!AuthTypeOK, Auth!Tasks, Auth!Live, Auth!TokenRows
<1>4. /\ new.op = o /\ new.user = u /\ new.token = t
      /\ new.password = IF t = None THEN password[u] ELSE token[t].password
      /\ new.seen = IF o \in {"change", "delete"} THEN Auth!Live(u) ELSE {}
  OBVIOUS
<1> HIDE DEF new
<1>5. Auth!AuthTypeOK'
  BY <1>1, <1>2, <1>3 DEF Auth!AuthTypeOK
<1>6. AuthParentsAreThere' /\ Auth!SessionsFollowPassword'
  BY <1>1 DEF AuthInv, AuthParentsAreThere, Auth!SessionsFollowPassword, IsTokenOf, Auth!Live
<1>7. AuthTasksInHand'
  BY <1>1, <1>2, <1>3, <1>4 DEF AuthInv, Auth!AuthTypeOK, AuthTasksInHand, IsTokenOf, Auth!Live
<1>8. AuthFreshInHand'
  <2>1. u \notin authOverlap /\ t # None => token[t].password = password[u]
    BY DEF AuthInv, Auth!SessionsFollowPassword
  <2>2. QED
    BY <1>1, <1>2, <1>4, <2>1 DEF AuthInv, Auth!AuthTypeOK, AuthFreshInHand, Auth!Live
<1>9. \A x \in Tokens : Heirs(x)' = Heirs(x)
  BY <1>1 DEF Heirs
<1>10. AuthOneHeir'
  BY <1>1, <1>9 DEF AuthInv, AuthOneHeir, Auth!Live
<1>11. \A x \in Tokens : Heirs(x) # {} => Rotators(x)' = Rotators(x)
  <2> SUFFICES ASSUME NEW x \in Tokens, Heirs(x) # {} PROVE Rotators(x)' = Rotators(x)
    OBVIOUS
  <2>1. ~(o = "rotate" /\ t = x)
    BY DEF AuthInv, AuthOneHeir, Auth!Live
  <2>2. QED
    BY <1>1, <1>2, <1>4, <2>1 DEF Rotators, Auth!AuthTypeOK
<1>12. HeirsAreCounted'
  BY <1>9, <1>11 DEF AuthInv, HeirsAreCounted
<1>13. QED
  BY <1>5, <1>6, <1>7, <1>8, <1>10, <1>12 DEF AuthInv

LEMMA AuthBeginKeepsInv ==
  ASSUME Auth!AuthAssumption, AuthInv, NEW s \in Sessions, NEW u \in Holders, Auth!Begin(s, u)
  PROVE  AuthInv'
<1> USE DEF Auth!Operations
<1>1. ASSUME NEW o \in {"login", "change", "delete"}, Auth!Take(s, o, u, None) PROVE AuthInv'
  BY <1>1, AuthTakeKeepsInv
<1>2. ASSUME NEW o \in {"rotate", "logout"}, NEW t \in Auth!Live(u), Auth!Take(s, o, u, t) PROVE AuthInv'
  BY <1>2, AuthTakeKeepsInv DEF Auth!Live, Auth!AuthAssumption
<1>3. QED
  BY <1>1, <1>2 DEF Auth!Begin

(* A request that ends, without or with having changed anything.           *)
LEMMA AuthFinishEffect ==
  ASSUME Auth!AuthAssumption, AuthInv, NEW s \in Sessions, authPc[s] = "commit", Auth!Finish(s)
  PROVE  /\ authPc' \in [Sessions -> {"idle", "commit"}] /\ authTask' \in [Sessions -> Auth!Tasks \cup {None}]
         /\ \A r \in Sessions : authPc'[r] = "commit" =>
              r # s /\ authPc[r] = "commit" /\ authTask'[r] = authTask[r]
         /\ \A t : Rotators(t)' = Rotators(t) \ {s}
<1>1. Auth!AuthTypeOK
  BY DEF AuthInv
<1>2. /\ authPc' = [authPc EXCEPT ![s] = "idle"] /\ authTask' = [authTask EXCEPT ![s] = None]
  BY DEF Auth!Finish
<1>3. authPc' \in [Sessions -> {"idle", "commit"}] /\ authTask' \in [Sessions -> Auth!Tasks \cup {None}]
  BY <1>1, <1>2 DEF Auth!AuthTypeOK
<1>4. \A r \in Sessions : authPc'[r] = "commit" => r # s /\ authPc[r] = "commit" /\ authTask'[r] = authTask[r]
  BY <1>1, <1>2 DEF Auth!AuthTypeOK
<1>5. \A r \in Sessions \ {s} : authPc'[r] = authPc[r] /\ authTask'[r] = authTask[r]
  BY <1>1, <1>2 DEF Auth!AuthTypeOK
<1>6. ASSUME NEW t PROVE Rotators(t)' = Rotators(t) \ {s}
  BY <1>4, <1>5 DEF Rotators
<1>7. QED
  BY <1>3, <1>4, <1>6

LEMMA RotatorsEnd ==
  ASSUME Auth!AuthAssumption, NEW s \in Sessions, NEW t, Rotators(t)' = Rotators(t) \ {s}
  PROVE  /\ Cardinality(Rotators(t)') \in Nat /\ Cardinality(Rotators(t)) \in Nat
         /\ Cardinality(Rotators(t)') <= Cardinality(Rotators(t))
         /\ s \in Rotators(t) => Cardinality(Rotators(t)') = Cardinality(Rotators(t)) - 1
<1>1. IsFiniteSet(Rotators(t)) /\ Cardinality(Rotators(t)) \in Nat
  BY RotatorsAreCounted
<1> DEFINE rest == Rotators(t) \ {s}
<1>a. Rotators(t)' = rest
  OBVIOUS
<1>b. Cardinality(Rotators(t)') = Cardinality(rest)
  BY <1>a
<1>2. CASE s \in Rotators(t)
  <2>1. Cardinality(rest) = Cardinality(Rotators(t)) - 1 /\ IsFiniteSet(rest)
    BY <1>1, <1>2, FS_RemoveElement
  <2>2. Cardinality(rest) \in Nat
    BY <2>1, FS_CardinalityType
  <2> QED
    BY <1>1, <1>b, <2>1, <2>2
<1>3. CASE s \notin Rotators(t)
  <2>1. rest = Rotators(t)
    BY <1>3
  <2>2. Cardinality(Rotators(t)') = Cardinality(Rotators(t))
    BY <1>b, <2>1
  <2>3. s \notin Rotators(t)
    BY <1>3
  <2> QED
    BY <1>1, <2>2, <2>3
<1>4. QED
  BY <1>2, <1>3

(* A commit of s that revokes the tokens R of its user, and may count the  *)
(* password up.                                                            *)
LEMMA AuthRevokingKeepsInv ==
  ASSUME Auth!AuthAssumption, AuthInv, NEW s \in Sessions, NEW u, u = authTask[s].user, authPc[s] = "commit",
         Auth!Finish(s), active' \in [Holders -> BOOLEAN],
         authOverlap \subseteq authOverlap', authOverlap' \subseteq authOverlap \cup {u},
         \/ u \in authOverlap'
         \/ \A r \in Sessions \ {s} : authPc[r] = "commit" => authTask[r].user # u
         \/ UNCHANGED <<password, token>>,
         NEW R, \A t \in R : IsTokenOf(t, u),
         token' = [t \in Tokens |-> IF t \in R THEN [token[t] EXCEPT !.live = FALSE] ELSE token[t]],
         \/ password' = password
         \/ /\ password' = [password EXCEPT ![u] = @ + 1] /\ password[u] < MaxPassword
            /\ u \notin authOverlap' => Auth!Live(u) \subseteq R
  PROVE  AuthInv'
<1>1. Auth!AuthTypeOK /\ u \in Holders /\ MaxPassword \in Nat
  BY DEF AuthInv, AuthTasksInHand, Auth!Tasks, Auth!AuthAssumption
<1>2. /\ authPc' \in [Sessions -> {"idle", "commit"}] /\ authTask' \in [Sessions -> Auth!Tasks \cup {None}]
      /\ \A r \in Sessions : authPc'[r] = "commit" => r # s /\ authPc[r] = "commit" /\ authTask'[r] = authTask[r]
      /\ \A t \in Tokens : Rotators(t)' = Rotators(t) \ {s}
  BY AuthFinishEffect
<1>3. \A t \in R : t \in Tokens /\ token[t] # None /\ token[t].user = u
  BY DEF IsTokenOf
<1>4. /\ token' \in [Tokens -> Auth!TokenRows \cup {None}]
      /\ \A t \in Tokens :
           /\ (token'[t] = None) <=> (token[t] = None)
           /\ token[t] # None =>
                /\ token'[t].user = token[t].user /\ token'[t].password = token[t].password
                /\ token'[t].parent = token[t].parent
           /\ t \in R => ~ token'[t].live
           /\ t \notin R => token'[t] = token[t]
  <2>1. ASSUME NEW t \in Tokens, t \in R
        PROVE  /\ token'[t] \in Auth!TokenRows /\ token'[t] # None /\ ~ token'[t].live
               /\ token'[t].user = token[t].user /\ token'[t].password = token[t].password
               /\ token'[t].parent = token[t].parent
    <3>1. token[t] \in Auth!TokenRows
      BY <1>1, <1>3, <2>1 DEF Auth!AuthTypeOK
    <3>2. token'[t] = [token[t] EXCEPT !.live = FALSE]
      BY <2>1
    <3>3. token'[t] \in Auth!TokenRows
      BY <3>1, <3>2 DEF Auth!TokenRows
    <3>4. None \notin Auth!TokenRows
      BY DEF Auth!AuthAssumption
    <3>5. QED
      BY <3>1, <3>2, <3>3, <3>4 DEF Auth!TokenRows
  <2>2. ASSUME NEW t \in Tokens, t \notin R PROVE token'[t] = token[t]
    BY <2>2
  <2>4. DOMAIN token' = Tokens /\ token' = [t \in Tokens |-> token'[t]]
    OBVIOUS
  <2>5. \A t \in Tokens : token'[t] \in Auth!TokenRows \cup {None}
    BY <1>1, <2>1, <2>2 DEF Auth!AuthTypeOK
  <2>6. \A t \in Tokens :
           /\ (token'[t] = None) <=> (token[t] = None)
           /\ token[t] # None =>
                /\ token'[t].user = token[t].user /\ token'[t].password = token[t].password
                /\ token'[t].parent = token[t].parent
           /\ t \in R => ~ token'[t].live
           /\ t \notin R => token'[t] = token[t]
    BY <1>3, <2>1, <2>2
  <2>7. token' \in [Tokens -> Auth!TokenRows \cup {None}]
    BY <2>4, <2>5
  <2>8. QED
    BY <2>6, <2>7
<1>5. password' \in [Holders -> 0..MaxPassword] /\ \A v \in Holders \ {u} : password'[v] = password[v]
  BY <1>1 DEF Auth!AuthTypeOK
<1>6. Auth!AuthTypeOK'
  BY <1>1, <1>2, <1>4, <1>5 DEF Auth!AuthTypeOK
<1>7. \A t \in Tokens : \A v : IsTokenOf(t, v) => IsTokenOf(t, v)'
  BY <1>4 DEF IsTokenOf
<1>8. AuthParentsAreThere'
  <2> SUFFICES ASSUME NEW n \in Tokens, token'[n] # None, token'[n].parent # None,
                      NEW p, p = token'[n].parent, NEW v, v = token'[n].user
               PROVE  p \in Tokens /\ token'[p] # None /\ token'[p].user = v
    BY DEF AuthParentsAreThere, IsTokenOf
  <2>1. IsTokenOf(p, v)
    BY <1>4 DEF AuthInv, AuthParentsAreThere
  <2>2. QED
    BY <1>4, <2>1 DEF IsTokenOf
<1>9. AuthTasksInHand'
  <2> SUFFICES ASSUME NEW r \in Sessions, authPc'[r] = "commit"
               PROVE  /\ authTask'[r] \in Auth!Tasks
                      /\ authTask'[r].op \in {"rotate", "logout"} =>
                           /\ authTask'[r].token \in Tokens /\ token'[authTask'[r].token] # None
                           /\ token'[authTask'[r].token].user = authTask'[r].user
                      /\ \A t \in authTask'[r].seen :
                           t \in Tokens /\ token'[t] # None /\ token'[t].user = authTask'[r].user
    BY DEF AuthTasksInHand, IsTokenOf
  <2>1. authPc[r] = "commit" /\ authTask'[r] = authTask[r]
    BY <1>2
  <2>2. QED
    <3>1. /\ authTask[r] \in Auth!Tasks
          /\ authTask[r].op \in {"rotate", "logout"} => IsTokenOf(authTask[r].token, authTask[r].user)
          /\ \A t \in authTask[r].seen : IsTokenOf(t, authTask[r].user)
      BY <2>1 DEF AuthInv, AuthTasksInHand
    <3>2. ASSUME NEW t, IsTokenOf(t, authTask[r].user)
          PROVE  t \in Tokens /\ token'[t] # None /\ token'[t].user = authTask[r].user
      BY <1>4, <3>2 DEF IsTokenOf
    <3>3. QED
      BY <2>1, <3>1, <3>2
<1>10. \A v : Auth!Live(v)' = Auth!Live(v) \ R
  BY <1>1, <1>4 DEF Auth!Live, Auth!AuthTypeOK, Auth!TokenRows
<1>11. AuthFreshInHand'
  <2> SUFFICES ASSUME NEW r \in Sessions, authPc'[r] = "commit", NEW v, v = authTask'[r].user, v \notin authOverlap'
               PROVE  /\ authTask'[r].password = password'[v]
                      /\ authTask'[r].op = "rotate" => authTask'[r].token \in Auth!Live(v)'
                      /\ authTask'[r].op \in {"change", "delete"} => Auth!Live(v)' \subseteq authTask'[r].seen
    BY DEF AuthFreshInHand, Auth!Live
  <2>1. r # s /\ authPc[r] = "commit" /\ authTask'[r] = authTask[r] /\ v \notin authOverlap /\ v \in Holders
    BY <1>2 DEF AuthInv, AuthTasksInHand, Auth!Tasks
  <2>2. /\ authTask[r].password = password[v]
        /\ authTask[r].op = "rotate" => authTask[r].token \in Auth!Live(v)
        /\ authTask[r].op \in {"change", "delete"} => Auth!Live(v) \subseteq authTask[r].seen
    BY <2>1 DEF AuthInv, AuthFreshInHand
  <2>3. CASE UNCHANGED <<password, token>>
    <3>1. Auth!Live(v)' = Auth!Live(v)
      BY <2>3 DEF Auth!Live
    <3>2. authTask'[r].password = password'[v]
      BY <2>1, <2>2, <2>3
    <3>3. QED
      BY <2>1, <2>2, <3>1, <3>2
  <2>4. CASE ~ UNCHANGED <<password, token>>
    <3>1. v # u
      BY <2>1, <2>4
    <3>2. \A t \in R : t \notin Auth!Live(v)
      BY <1>3, <3>1 DEF Auth!Live
    <3>3. Auth!Live(v)' = Auth!Live(v)
      BY <1>10, <3>2
    <3>4. authTask'[r].password = password'[v]
      BY <1>5, <2>1, <2>2, <3>1
    <3>5. QED
      BY <2>1, <2>2, <3>3, <3>4
  <2>5. QED
    BY <2>3, <2>4
<1>12. Auth!SessionsFollowPassword'
  <2> SUFFICES ASSUME NEW v \in Holders \ authOverlap', NEW t \in Auth!Live(v) \ R
               PROVE  token'[t].password = password'[v]
    BY <1>10 DEF Auth!SessionsFollowPassword
  <2>1. token[t].password = password[v] /\ token'[t].password = token[t].password
    BY <1>4 DEF AuthInv, Auth!SessionsFollowPassword, Auth!Live
  <2>2. QED
    BY <1>5, <2>1
<1>13. \A t \in Tokens : Heirs(t)' = Heirs(t)
  BY <1>4 DEF Heirs
<1>14. AuthOneHeir'
  <2> SUFFICES ASSUME NEW t \in Tokens, Heirs(t) # {}
               PROVE  /\ t \notin Auth!Live(token[t].user)'
                      /\ token'[t].user \notin authOverlap' => \A a, b \in Heirs(t) : a = b
    BY <1>13 DEF AuthOneHeir
  <2>1. token[t] # None
    BY DEF AuthInv, Heirs, AuthParentsAreThere, IsTokenOf, Auth!AuthAssumption
  <2>2. token'[t].user = token[t].user
    BY <1>4, <2>1
  <2>3. QED
    BY <1>10, <2>2 DEF AuthInv, AuthOneHeir
<1>15. HeirsAreCounted'
  <2> SUFFICES ASSUME NEW t \in Tokens
               PROVE  /\ IsFiniteSet(Heirs(t))
                      /\ Heirs(t) # {} => Cardinality(Heirs(t)) + Cardinality(Rotators(t)') <= Cardinality(Sessions)
    BY <1>13 DEF HeirsAreCounted
  <2>1. Rotators(t)' = Rotators(t) \ {s}
    BY <1>2
  <2>2. /\ Cardinality(Rotators(t)') \in Nat /\ Cardinality(Rotators(t)) \in Nat
        /\ Cardinality(Rotators(t)') <= Cardinality(Rotators(t))
    BY <2>1, RotatorsEnd
  <2>3. /\ IsFiniteSet(Heirs(t)) /\ Cardinality(Heirs(t)) \in Nat /\ Cardinality(Sessions) \in Nat
        /\ Heirs(t) # {} => Cardinality(Heirs(t)) + Cardinality(Rotators(t)) <= Cardinality(Sessions)
    BY FS_CardinalityType, RotatorsAreCounted DEF AuthInv, HeirsAreCounted
  <2>4. QED
    BY <2>2, <2>3
<1>16. QED
  BY <1>6, <1>8, <1>9, <1>11, <1>12, <1>14, <1>15 DEF AuthInv

(* A commit of s that issues the token n, in the place of p or of none.    *)
LEMMA AuthIssuingKeepsInv ==
  ASSUME Auth!AuthAssumption, AuthInv, NEW s \in Sessions, NEW u, u = authTask[s].user, authPc[s] = "commit",
         Auth!Finish(s), active' = active, password' = password,
         authOverlap \subseteq authOverlap', authOverlap' \subseteq authOverlap \cup {u},
         u \in authOverlap' \/ \A r \in Sessions \ {s} : authPc[r] = "commit" => authTask[r].user # u,
         NEW p, p = None \/ (authTask[s].op = "rotate" /\ p = authTask[s].token),
         NEW n \in Tokens, token[n] = None,
         NEW new, new = [user |-> u, live |-> TRUE, password |-> authTask[s].password, parent |-> p],
         token' = [t \in Tokens |-> IF t = n THEN new
                                    ELSE IF t = p THEN [token[t] EXCEPT !.live = FALSE]
                                    ELSE token[t]]
  PROVE  AuthInv'
<1>1. /\ Auth!AuthTypeOK /\ u \in Holders /\ MaxPassword \in Nat /\ authTask[s].password \in 0..MaxPassword
      /\ None \notin Tokens /\ None \notin Auth!TokenRows
  BY DEF AuthInv, AuthTasksInHand, Auth!Tasks, Auth!AuthAssumption
<1>2. /\ authPc' \in [Sessions -> {"idle", "commit"}] /\ authTask' \in [Sessions -> Auth!Tasks \cup {None}]
      /\ \A r \in Sessions : authPc'[r] = "commit" => r # s /\ authPc[r] = "commit" /\ authTask'[r] = authTask[r]
      /\ \A t \in Tokens : Rotators(t)' = Rotators(t) \ {s}
  BY AuthFinishEffect
<1>3. p # None => p \in Tokens /\ token[p] # None /\ token[p].user = u /\ p # n
  BY DEF AuthInv, AuthTasksInHand, IsTokenOf
<1>4. /\ new \in Auth!TokenRows /\ new # None
      /\ new.user = u /\ new.live /\ new.password = authTask[s].password /\ new.parent = p
  <2>1. p \in Tokens \cup {None}
    BY <1>3
  <2>2. new \in Auth!TokenRows
    BY <1>1, <2>1 DEF Auth!TokenRows
  <2>3. new.user = u /\ new.password = authTask[s].password /\ new.parent = p
    OBVIOUS
  <2>4. new.live
    OBVIOUS
  <2>5. QED
    BY <1>1, <2>2, <2>3, <2>4
<1>5. /\ token' \in [Tokens -> Auth!TokenRows \cup {None}]
      /\ token'[n] = new
      /\ \A t \in Tokens \ {n} :
           /\ (token'[t] = None) <=> (token[t] = None)
           /\ token[t] # None =>
                /\ token'[t].user = token[t].user /\ token'[t].password = token[t].password
                /\ token'[t].parent = token[t].parent
           /\ t = p => ~ token'[t].live
           /\ t # p => token'[t] = token[t]
  <2>1. ASSUME NEW t \in Tokens \ {n}, t = p
        PROVE  /\ token'[t] \in Auth!TokenRows /\ token'[t] # None /\ ~ token'[t].live
               /\ token'[t].user = token[t].user /\ token'[t].password = token[t].password
               /\ token'[t].parent = token[t].parent
    <3>1. token[t] \in Auth!TokenRows
      BY <1>1, <1>3, <2>1 DEF Auth!AuthTypeOK
    <3>2. token'[t] = [token[t] EXCEPT !.live = FALSE]
      BY <2>1
    <3>3. token'[t] \in Auth!TokenRows
      BY <3>1, <3>2 DEF Auth!TokenRows
    <3>4. QED
      BY <1>1, <3>1, <3>2, <3>3 DEF Auth!TokenRows
  <2>2. ASSUME NEW t \in Tokens \ {n}, t # p PROVE token'[t] = token[t]
    BY <2>2
  <2>3. DOMAIN token' = Tokens /\ token' = [t \in Tokens |-> token'[t]] /\ token'[n] = new
    OBVIOUS
  <2>4. \A t \in Tokens : token'[t] \in Auth!TokenRows \cup {None}
    BY <1>1, <1>4, <2>1, <2>2, <2>3 DEF Auth!AuthTypeOK
  <2>5. \A t \in Tokens \ {n} :
           /\ (token'[t] = None) <=> (token[t] = None)
           /\ token[t] # None =>
                /\ token'[t].user = token[t].user /\ token'[t].password = token[t].password
                /\ token'[t].parent = token[t].parent
           /\ t = p => ~ token'[t].live
           /\ t # p => token'[t] = token[t]
    BY <1>1, <1>3, <2>1, <2>2
  <2>6. token' \in [Tokens -> Auth!TokenRows \cup {None}]
    BY <2>3, <2>4
  <2>7. QED
    BY <2>3, <2>5, <2>6
<1>6. Auth!AuthTypeOK'
  BY <1>1, <1>2, <1>5 DEF Auth!AuthTypeOK
<1>7. \A t, v : IsTokenOf(t, v) => t \in Tokens /\ t # n /\ token'[t] # None /\ token'[t].user = v
  BY <1>5 DEF IsTokenOf
<1>8. AuthParentsAreThere'
  <2> SUFFICES ASSUME NEW m \in Tokens, token'[m] # None, token'[m].parent # None,
                      NEW q, q = token'[m].parent, NEW v, v = token'[m].user
               PROVE  q \in Tokens /\ token'[q] # None /\ token'[q].user = v
    BY DEF AuthParentsAreThere, IsTokenOf
  <2>1. CASE m = n
    BY <1>3, <1>4, <1>5, <1>7, <2>1 DEF IsTokenOf
  <2>2. CASE m # n
    <3>1. token[m] # None /\ token[m].parent = q /\ token[m].user = v
      BY <1>5, <2>2
    <3>2. IsTokenOf(q, v)
      BY <3>1 DEF AuthInv, AuthParentsAreThere
    <3>3. q # n
      BY <3>2 DEF IsTokenOf
    <3>4. QED
      BY <1>5, <3>2, <3>3 DEF IsTokenOf
  <2>3. QED
    BY <2>1, <2>2
<1>9. AuthTasksInHand'
  <2> SUFFICES ASSUME NEW r \in Sessions, authPc'[r] = "commit"
               PROVE  /\ authTask'[r] \in Auth!Tasks
                      /\ authTask'[r].op \in {"rotate", "logout"} =>
                           /\ authTask'[r].token \in Tokens /\ token'[authTask'[r].token] # None
                           /\ token'[authTask'[r].token].user = authTask'[r].user
                      /\ \A t \in authTask'[r].seen :
                           t \in Tokens /\ token'[t] # None /\ token'[t].user = authTask'[r].user
    BY DEF AuthTasksInHand, IsTokenOf
  <2>1. authPc[r] = "commit" /\ authTask'[r] = authTask[r]
    BY <1>2
  <2>2. /\ authTask[r] \in Auth!Tasks
        /\ authTask[r].op \in {"rotate", "logout"} => IsTokenOf(authTask[r].token, authTask[r].user)
        /\ \A t \in authTask[r].seen : IsTokenOf(t, authTask[r].user)
    BY <2>1 DEF AuthInv, AuthTasksInHand
  <2>3. \A t : IsTokenOf(t, authTask[r].user) =>
                t \in Tokens /\ token'[t] # None /\ token'[t].user = authTask[r].user
    BY <1>7
  <2>4. QED
    BY <2>1, <2>2, <2>3
<1>10. \A v : Auth!Live(v)' = (Auth!Live(v) \ {p}) \cup (IF v = u THEN {n} ELSE {})
  <2> SUFFICES ASSUME NEW v, NEW t \in Tokens
               PROVE  (token'[t] # None /\ token'[t].user = v /\ token'[t].live) <=>
                      \/ token[t] # None /\ token[t].user = v /\ token[t].live /\ t # p
                      \/ v = u /\ t = n
    BY DEF Auth!Live
  <2>1. CASE t = n
    BY <1>1, <1>4, <1>5, <2>1
  <2>2. CASE t # n
    BY <1>5, <2>2
  <2>3. QED
    BY <2>1, <2>2
<1>11. AuthFreshInHand'
  <2> SUFFICES ASSUME NEW r \in Sessions, authPc'[r] = "commit", NEW v, v = authTask'[r].user, v \notin authOverlap'
               PROVE  /\ authTask'[r].password = password'[v]
                      /\ authTask'[r].op = "rotate" => authTask'[r].token \in Auth!Live(v)'
                      /\ authTask'[r].op \in {"change", "delete"} => Auth!Live(v)' \subseteq authTask'[r].seen
    BY DEF AuthFreshInHand, Auth!Live
  <2>1. r # s /\ authPc[r] = "commit" /\ authTask'[r] = authTask[r] /\ v \notin authOverlap /\ v # u
    BY <1>2
  <2>2. /\ authTask[r].password = password[v]
        /\ authTask[r].op = "rotate" => authTask[r].token \in Auth!Live(v)
        /\ authTask[r].op \in {"change", "delete"} => Auth!Live(v) \subseteq authTask[r].seen
    BY <2>1 DEF AuthInv, AuthFreshInHand
  <2>3. p \notin Auth!Live(v)
    BY <1>1, <1>3, <2>1 DEF Auth!Live
  <2>4. Auth!Live(v)' = Auth!Live(v)
    BY <1>10, <2>1, <2>3
  <2>5. QED
    BY <2>1, <2>2, <2>4
<1>12. Auth!SessionsFollowPassword'
  <2> SUFFICES ASSUME NEW v \in Holders \ authOverlap', NEW t \in Auth!Live(v)'
               PROVE  token'[t].password = password[v]
    BY DEF Auth!SessionsFollowPassword, Auth!Live
  <2>1. CASE t = n
    <3>1. v = u
      BY <1>4, <1>5, <2>1 DEF Auth!Live
    <3>2. authTask[s].password = password[u]
      BY <3>1 DEF AuthInv, AuthFreshInHand
    <3>3. QED
      BY <1>4, <1>5, <2>1, <3>1, <3>2
  <2>2. CASE t # n
    <3>1. t \in Auth!Live(v)
      BY <1>10, <2>2
    <3>2. token[t].password = password[v] /\ token'[t].password = token[t].password
      BY <1>5, <2>2, <3>1 DEF AuthInv, Auth!SessionsFollowPassword, Auth!Live
    <3>3. QED
      BY <3>2
  <2>3. QED
    BY <2>1, <2>2
<1>13. \A t \in Tokens : Heirs(t)' = Heirs(t) \cup (IF t = p THEN {n} ELSE {})
  <2> SUFFICES ASSUME NEW t \in Tokens, NEW m \in Tokens
               PROVE  (token'[m] # None /\ token'[m].parent = t) <=>
                      (token[m] # None /\ token[m].parent = t) \/ (t = p /\ m = n)
    BY DEF Heirs
  <2>1. CASE m = n
    BY <1>4, <1>5, <2>1
  <2>2. CASE m # n
    BY <1>5, <2>2
  <2>3. QED
    BY <2>1, <2>2
<1>14. n \notin Heirs(p) /\ Heirs(n) = {}
  BY <1>1 DEF AuthInv, Heirs, AuthParentsAreThere, IsTokenOf
<1>15. AuthOneHeir'
  <2> SUFFICES ASSUME NEW t \in Tokens, Heirs(t)' # {}, NEW v, v = token'[t].user
               PROVE  /\ t \notin Auth!Live(v)'
                      /\ v \notin authOverlap' => \A a, b \in Heirs(t)' : a = b
    BY DEF AuthOneHeir, Auth!Live, Heirs
  <2>1. CASE t = p
    <3>1. v = u /\ t # n /\ p # None
      BY <1>1, <1>3, <1>5, <2>1
    <3>2. u \notin authOverlap' => p \in Auth!Live(u)
      BY <3>1, <1>3 DEF AuthInv, AuthFreshInHand
    <3>3. u \notin authOverlap' => Heirs(p) = {}
      BY <1>3, <3>1, <3>2 DEF AuthInv, AuthOneHeir
    <3>4. QED
      BY <1>10, <1>13, <2>1, <3>1, <3>3
  <2>2. CASE t # p
    <3>1. Heirs(t)' = Heirs(t) /\ t # n
      BY <1>13, <1>14, <2>2
    <3>2. token[t] # None
      <4>1. PICK m \in Tokens : token[m] # None /\ token[m].parent = t
        BY <3>1 DEF Heirs
      <4>2. t # None
        BY <1>1
      <4>3. QED
        BY <4>1, <4>2 DEF AuthInv, AuthParentsAreThere, IsTokenOf
    <3>3. v = token[t].user
      BY <1>5, <3>1, <3>2
    <3>4. QED
      BY <1>10, <3>1, <3>3 DEF AuthInv, AuthOneHeir
  <2>3. QED
    BY <2>1, <2>2
<1>16. HeirsAreCounted'
  <2> SUFFICES ASSUME NEW t \in Tokens, NEW H, H = Heirs(t)'
               PROVE  /\ IsFiniteSet(H)
                      /\ H # {} => Cardinality(H) + Cardinality(Rotators(t)') <= Cardinality(Sessions)
    BY DEF HeirsAreCounted, Heirs
  <2>1. Rotators(t)' = Rotators(t) \ {s}
    BY <1>2
  <2>2. /\ Cardinality(Rotators(t)') \in Nat /\ Cardinality(Rotators(t)) \in Nat
        /\ Cardinality(Rotators(t)') <= Cardinality(Rotators(t))
        /\ s \in Rotators(t) => Cardinality(Rotators(t)') = Cardinality(Rotators(t)) - 1
    BY <2>1, RotatorsEnd
  <2>3. /\ IsFiniteSet(Heirs(t)) /\ Cardinality(Heirs(t)) \in Nat /\ Cardinality(Sessions) \in Nat
        /\ Cardinality(Rotators(t)) <= Cardinality(Sessions)
        /\ Heirs(t) # {} => Cardinality(Heirs(t)) + Cardinality(Rotators(t)) <= Cardinality(Sessions)
    BY FS_CardinalityType, RotatorsAreCounted DEF AuthInv, HeirsAreCounted
  <2>4. CASE t = p
    <3>1. H = Heirs(t) \cup {n} /\ n \notin Heirs(t)
      BY <1>13, <1>14, <2>4
    <3>2. IsFiniteSet(H) /\ Cardinality(H) = Cardinality(Heirs(t)) + 1
      BY <2>3, <3>1, FS_AddElement
    <3>3. s \in Rotators(t)
      BY <1>1, <2>4 DEF Rotators
    <3>4. Heirs(t) = {} => Cardinality(Heirs(t)) = 0
      BY FS_EmptySet
    <3>5. QED
      BY <2>2, <2>3, <3>2, <3>3, <3>4
  <2>5. CASE t # p
    <3>1. H = Heirs(t)
      BY <1>13, <2>5
    <3>2. QED
      BY <2>2, <2>3, <3>1
  <2>6. QED
    BY <2>4, <2>5
<1>17. QED
  BY <1>6, <1>8, <1>9, <1>11, <1>12, <1>15, <1>16 DEF AuthInv

(* What a commit leaves of the overlaps.                                   *)
LEMMA AuthCommitsEffect ==
  ASSUME Auth!AuthAssumption, AuthInv, NEW s \in Sessions, NEW o, Auth!Commits(s, o), NEW u, u = authTask[s].user
  PROVE  /\ authPc[s] = "commit" /\ authTask[s].op = o /\ Auth!Finish(s)
         /\ authOverlap \subseteq authOverlap' /\ authOverlap' \subseteq authOverlap \cup {u}
         /\ u \in authOverlap' \/ \A r \in Sessions \ {s} : authPc[r] = "commit" => authTask[r].user # u
  BY DEF Auth!Commits

LEMMA AuthStepKeepsInv ==
  ASSUME Auth!AuthAssumption, AuthInv, [Auth!Next]_(Auth!vars)
  PROVE  AuthInv'
<1>1. ASSUME NEW s \in Sessions, NEW u \in Holders, Auth!Begin(s, u) PROVE AuthInv'
  BY <1>1, AuthBeginKeepsInv
<1>2. ASSUME NEW s \in Sessions, Auth!Login(s) PROVE AuthInv'
  <2> DEFINE u == authTask[s].user
             new == [user |-> u, live |-> TRUE, password |-> authTask[s].password, parent |-> None]
  <2>1. Auth!Commits(s, "login") /\ active' = active /\ password' = password
    BY <1>2 DEF Auth!Login
  <2>2. PICK n \in Tokens : token[n] = None /\ token' = Auth!Issue(n, s, None)
    BY <1>2 DEF Auth!Login
  <2>3. /\ authPc[s] = "commit" /\ Auth!Finish(s)
        /\ authOverlap \subseteq authOverlap' /\ authOverlap' \subseteq authOverlap \cup {u}
        /\ u \in authOverlap' \/ \A r \in Sessions \ {s} : authPc[r] = "commit" => authTask[r].user # u
    BY <2>1, AuthCommitsEffect
  <2>4. token' = [t \in Tokens |-> IF t = n THEN new
                                   ELSE IF t = None THEN [token[t] EXCEPT !.live = FALSE]
                                   ELSE token[t]]
    BY <2>2 DEF Auth!Issue, AuthInv, Auth!AuthTypeOK, Auth!AuthAssumption
  <2> HIDE DEF new
  <2>5. new = [user |-> authTask[s].user, live |-> TRUE, password |-> authTask[s].password, parent |-> None]
    BY DEF new
  <2>6. QED
    BY <2>1, <2>2, <2>3, <2>4, <2>5, AuthIssuingKeepsInv
<1>3. ASSUME NEW s \in Sessions, Auth!Rotate(s) PROVE AuthInv'
  <2> DEFINE u == authTask[s].user
             p == authTask[s].token
             new == [user |-> u, live |-> TRUE, password |-> authTask[s].password, parent |-> p]
  <2>1. Auth!Commits(s, "rotate") /\ active' = active /\ password' = password
    BY <1>3 DEF Auth!Rotate
  <2>2. PICK n \in Tokens : /\ token[n] = None
                            /\ token' = [Auth!Issue(n, s, p) EXCEPT ![p].live = FALSE]
    BY <1>3 DEF Auth!Rotate
  <2>3. /\ authPc[s] = "commit" /\ Auth!Finish(s) /\ authTask[s].op = "rotate"
        /\ authOverlap \subseteq authOverlap' /\ authOverlap' \subseteq authOverlap \cup {u}
        /\ u \in authOverlap' \/ \A r \in Sessions \ {s} : authPc[r] = "commit" => authTask[r].user # u
    BY <2>1, AuthCommitsEffect
  <2>4. p \in Tokens /\ p # n
    BY <2>2, <2>3 DEF AuthInv, AuthTasksInHand, IsTokenOf
  <2>5. token' = [t \in Tokens |-> IF t = n THEN new
                                   ELSE IF t = p THEN [token[t] EXCEPT !.live = FALSE]
                                   ELSE token[t]]
    BY <2>2, <2>4 DEF Auth!Issue, AuthInv, Auth!AuthTypeOK
  <2> HIDE DEF new
  <2>6. new = [user |-> authTask[s].user, live |-> TRUE, password |-> authTask[s].password, parent |-> p]
    BY DEF new
  <2>7. QED
    BY <2>1, <2>2, <2>3, <2>5, <2>6, AuthIssuingKeepsInv
<1>4. ASSUME NEW s \in Sessions, Auth!Logout(s) PROVE AuthInv'
  <2> DEFINE u == authTask[s].user
             R == {authTask[s].token}
  <2>1. Auth!Commits(s, "logout") /\ active' = active /\ password' = password
        /\ token' = [token EXCEPT ![authTask[s].token].live = FALSE]
    BY <1>4 DEF Auth!Logout
  <2>2. /\ authPc[s] = "commit" /\ Auth!Finish(s) /\ authTask[s].op = "logout"
        /\ authOverlap \subseteq authOverlap' /\ authOverlap' \subseteq authOverlap \cup {u}
        /\ u \in authOverlap' \/ \A r \in Sessions \ {s} : authPc[r] = "commit" => authTask[r].user # u
    BY <2>1, AuthCommitsEffect
  <2>3. \A t \in R : IsTokenOf(t, u)
    BY <2>2 DEF AuthInv, AuthTasksInHand
  <2>4. token' = [t \in Tokens |-> IF t \in R THEN [token[t] EXCEPT !.live = FALSE] ELSE token[t]]
    BY <2>1, <2>3 DEF AuthInv, Auth!AuthTypeOK, IsTokenOf
  <2>5. active' \in [Holders -> BOOLEAN]
    BY <2>1 DEF AuthInv, Auth!AuthTypeOK
  <2> HIDE DEF R
  <2>6. QED
    BY <2>1, <2>2, <2>3, <2>4, <2>5, AuthRevokingKeepsInv
<1>5. ASSUME NEW s \in Sessions, Auth!ChangePassword(s) PROVE AuthInv'
  <2> DEFINE u == authTask[s].user
             R == authTask[s].seen
  <2>1. /\ Auth!Commits(s, "change") /\ active' = active
        /\ password[u] < MaxPassword /\ password' = [password EXCEPT ![u] = @ + 1]
        /\ token' = [t \in Tokens |-> IF t \in R THEN [token[t] EXCEPT !.live = FALSE] ELSE token[t]]
    BY <1>5 DEF Auth!ChangePassword, Auth!RevokeSeen
  <2>2. /\ authPc[s] = "commit" /\ Auth!Finish(s) /\ authTask[s].op = "change"
        /\ authOverlap \subseteq authOverlap' /\ authOverlap' \subseteq authOverlap \cup {u}
        /\ u \in authOverlap' \/ \A r \in Sessions \ {s} : authPc[r] = "commit" => authTask[r].user # u
    BY <2>1, AuthCommitsEffect
  <2>3. \A t \in R : IsTokenOf(t, u)
    BY <2>2 DEF AuthInv, AuthTasksInHand
  <2>4. u \notin authOverlap' => Auth!Live(u) \subseteq R
    BY <2>2 DEF AuthInv, AuthFreshInHand
  <2>5. active' \in [Holders -> BOOLEAN]
    BY <2>1 DEF AuthInv, Auth!AuthTypeOK
  <2>6. QED
    BY <2>1, <2>2, <2>3, <2>4, <2>5, AuthRevokingKeepsInv
<1>6. ASSUME NEW s \in Sessions, Auth!DeleteAccount(s) PROVE AuthInv'
  <2> DEFINE u == authTask[s].user
             R == authTask[s].seen
  <2>1. /\ Auth!Commits(s, "delete") /\ active' = [active EXCEPT ![u] = FALSE] /\ password' = password
        /\ token' = [t \in Tokens |-> IF t \in R THEN [token[t] EXCEPT !.live = FALSE] ELSE token[t]]
    BY <1>6 DEF Auth!DeleteAccount, Auth!RevokeSeen
  <2>2. /\ authPc[s] = "commit" /\ Auth!Finish(s)
        /\ authOverlap \subseteq authOverlap' /\ authOverlap' \subseteq authOverlap \cup {u}
        /\ u \in authOverlap' \/ \A r \in Sessions \ {s} : authPc[r] = "commit" => authTask[r].user # u
    BY <2>1, AuthCommitsEffect
  <2>3. \A t \in R : IsTokenOf(t, u)
    BY <2>2 DEF AuthInv, AuthTasksInHand
  <2>4. active' \in [Holders -> BOOLEAN]
    BY <2>1 DEF AuthInv, Auth!AuthTypeOK
  <2>5. QED
    BY <2>1, <2>2, <2>3, <2>4, AuthRevokingKeepsInv
<1>7. ASSUME NEW s \in Sessions, Auth!Abort(s) PROVE AuthInv'
  <2> DEFINE u == authTask[s].user
             R == {}
  <2>1. /\ authPc[s] = "commit" /\ Auth!Finish(s) /\ active' = active /\ password' = password
        /\ token' = token /\ authOverlap' = authOverlap
    BY <1>7 DEF Auth!Abort, Auth!Rows
  <2>2. token' = [t \in Tokens |-> IF t \in R THEN [token[t] EXCEPT !.live = FALSE] ELSE token[t]]
    BY <2>1 DEF AuthInv, Auth!AuthTypeOK
  <2>3. active' \in [Holders -> BOOLEAN] /\ \A t \in R : IsTokenOf(t, u)
    BY <2>1 DEF AuthInv, Auth!AuthTypeOK
  <2> HIDE DEF R
  <2>4. QED
    BY <2>1, <2>2, <2>3, AuthRevokingKeepsInv
<1>8. ASSUME UNCHANGED <<password, token, authOverlap, authPc, authTask>>, active' \in [Holders -> BOOLEAN]
      PROVE  AuthInv'
  <2>1. /\ \A v : Auth!Live(v)' = Auth!Live(v)
        /\ \A t : Heirs(t)' = Heirs(t)
        /\ \A t : Rotators(t)' = Rotators(t)
    BY <1>8 DEF Auth!Live, Heirs, Rotators
  <2>2. Auth!AuthTypeOK' /\ AuthParentsAreThere' /\ AuthTasksInHand'
    BY <1>8 DEF AuthInv, Auth!AuthTypeOK, AuthParentsAreThere, AuthTasksInHand, IsTokenOf
  <2>3. AuthFreshInHand' /\ Auth!SessionsFollowPassword'
    BY <1>8 DEF AuthInv, AuthFreshInHand, Auth!SessionsFollowPassword, Auth!Live
  <2>4. AuthOneHeir'
    BY <1>8, <2>1 DEF AuthInv, AuthOneHeir, Auth!Live
  <2>5. HeirsAreCounted'
    BY <2>1 DEF AuthInv, HeirsAreCounted
  <2>6. QED
    BY <2>2, <2>3, <2>4, <2>5 DEF AuthInv
<1>9. ASSUME NEW u \in Holders, Auth!SetActive(u) PROVE AuthInv'
  <2>1. active' \in [Holders -> BOOLEAN]
    BY <1>9 DEF Auth!SetActive, AuthInv, Auth!AuthTypeOK
  <2>2. QED
    BY <1>8, <1>9, <2>1 DEF Auth!SetActive
<1>10. CASE UNCHANGED Auth!vars
  BY <1>8, <1>10 DEF Auth!vars, AuthInv, Auth!AuthTypeOK
<1>11. QED
  BY <1>1, <1>2, <1>3, <1>4, <1>5, <1>6, <1>7, <1>9, <1>10 DEF Auth!Next

(* What the inductive invariant says of the tokens.                        *)
LEMMA AuthInvSound ==
  ASSUME Auth!AuthAssumption, AuthInv
  PROVE  Auth!SessionsAreSound
<1> SUFFICES ASSUME NEW t \in Tokens, Heirs(t) # {}
             PROVE  Cardinality(Heirs(t)) <=
                      (IF token[t].user \in authOverlap THEN Cardinality(Sessions) ELSE 1)
  BY AuthCardinality DEF AuthInv, Auth!SessionsAreSound, Auth!TokensAreSingleUse, Heirs
<1>1. /\ IsFiniteSet(Heirs(t)) /\ Cardinality(Heirs(t)) \in Nat /\ Cardinality(Sessions) \in Nat
      /\ Cardinality(Rotators(t)) \in Nat
      /\ Cardinality(Heirs(t)) + Cardinality(Rotators(t)) <= Cardinality(Sessions)
  BY FS_CardinalityType, RotatorsAreCounted DEF AuthInv, HeirsAreCounted
<1>2. CASE token[t].user \in authOverlap
  BY <1>1, <1>2
<1>3. CASE token[t].user \notin authOverlap
  <2>1. PICK n : n \in Heirs(t)
    OBVIOUS
  <2>2. Heirs(t) = {n}
    BY <1>3, <2>1 DEF AuthInv, AuthOneHeir
  <2>3. Cardinality(Heirs(t)) = 1
    BY <2>2, FS_Singleton
  <2>4. QED
    BY <1>3, <2>3
<1>4. QED
  BY <1>2, <1>3

(* The inductive invariant holds, however requests interleave and abort.   *)
THEOREM AuthInvariance == ASSUME Auth!AuthAssumption PROVE Auth!Spec => []AuthInv
<1>1. Auth!Init => AuthInv
  BY AuthInitInv
<1>2. AuthInv /\ [Auth!Next]_(Auth!vars) => AuthInv'
  BY AuthStepKeepsInv
<1>3. QED
  BY <1>1, <1>2, PTL DEF Auth!Spec

(* Types of accounts, refresh tokens and requests (app/services/auth.py).  *)
THEOREM AuthTypeCorrect == ASSUME Auth!AuthAssumption PROVE Auth!Spec => []Auth!AuthTypeOK
<1>1. AuthInv => Auth!AuthTypeOK
  BY DEF AuthInv
<1>2. QED
  BY <1>1, AuthInvariance, PTL

(* A live token goes back to a login with the password of now, and a       *)
(* presented token has one successor, unless operations of the user        *)
(* overlap: then it has no more than there are sessions.                   *)
THEOREM AuthSessionsSound == ASSUME Auth!AuthAssumption PROVE Auth!Spec => []Auth!SessionsAreSound
<1>1. AuthInv => Auth!SessionsAreSound
  BY AuthInvSound
<1>2. QED
  BY <1>1, AuthInvariance, PTL

-----------------------------------------------------------------------------
(* A removal in hand leaves an active administrator, unless another one is *)
(* in hand at the same time.                                               *)
AdminRemovalsLeaveOne ==
  \A s \in Sessions : adminPc[s] = "commit" /\ adminTask[s].op \in Admins!Removals =>
    Admins!ActiveAdmins \ {adminTask[s].user} # {}

(* Requests in hand are of known users; all but registrations, of          *)
(* registered ones.                                                        *)
AdminTasksInHand ==
  \A s \in Sessions :
    /\ adminPc[s] = "commit" => adminTask[s] \in Admins!Tasks
    /\ adminPc[s] = "commit" /\ adminTask[s].op # "register" => adminTask[s].user \in Admins!Registered

(* The inductive invariant.                                                *)
AdminInv ==
  /\ Admins!AdminsTypeOK /\ AdminTasksInHand /\ Admins!OneAccountPerPerson /\ Root \in Admins!Registered
  /\ adminOverlap \/ (Admins!ActiveAdmins # {} /\ AdminRemovalsLeaveOne)

LEMMA AdminInitInv ==
  ASSUME Admins!AdminAssumption, Admins!Init
  PROVE  AdminInv
<1> USE DEF Admins!Init, Admins!Registered
<1>1. Admins!AdminsTypeOK /\ AdminTasksInHand
  BY DEF Admins!AdminAssumption, Admins!AdminsTypeOK, AdminTasksInHand
<1>2. Root \in Admins!ActiveAdmins
  BY DEF Admins!AdminAssumption, Admins!ActiveAdmins, Admins!Active
<1>3. QED
  BY <1>1, <1>2 DEF AdminInv, Admins!OneAccountPerPerson, AdminRemovalsLeaveOne

(* A step that only begins a request.                                      *)
LEMMA AdminTakeKeepsInv ==
  ASSUME AdminInv, NEW s \in Sessions, NEW o \in Admins!Operations, NEW u \in Users,
         NEW p \in Persons \cup {None}, Admins!Take(s, o, u, p),
         o # "register" => u \in Admins!Registered,
         o \in Admins!Removals => adminOverlap \/ Admins!ActiveAdmins \ {u} # {}
  PROVE  AdminInv'
<1> USE DEF AdminInv, Admins!Take, Admins!Rows, Admins!Registered
<1>1. /\ enabled' = enabled /\ mustChange' = mustChange /\ person' = person /\ admin' = admin
      /\ adminOverlap' = adminOverlap
      /\ adminPc' = [adminPc EXCEPT ![s] = "commit"]
      /\ adminTask' = [adminTask EXCEPT ![s] = [op |-> o, user |-> u, person |-> p]]
  OBVIOUS
<1>2. [op |-> o, user |-> u, person |-> p] \in Admins!Tasks
  BY DEF Admins!Tasks
<1>3. Admins!AdminsTypeOK' /\ AdminTasksInHand'
  BY <1>1, <1>2 DEF Admins!AdminsTypeOK, AdminTasksInHand
<1>4. Admins!ActiveAdmins' = Admins!ActiveAdmins
  BY <1>1 DEF Admins!ActiveAdmins, Admins!Active
<1>5. Admins!OneAccountPerPerson'
  BY <1>1 DEF Admins!OneAccountPerPerson
<1>6. AdminRemovalsLeaveOne' \/ adminOverlap'
  BY <1>1, <1>4 DEF AdminRemovalsLeaveOne, Admins!AdminsTypeOK
<1>7. QED
  BY <1>1, <1>3, <1>4, <1>5, <1>6

(* A step that commits a request.  An active administrator stays one, but  *)
(* for the user that a removal removes.                                    *)
LEMMA AdminCommitKeepsInv ==
  ASSUME AdminInv, NEW s \in Sessions, NEW o \in Admins!Operations, Admins!Commits(s, o),
         Admins!Registered \subseteq Admins!Registered', Admins!Registered' \subseteq Users,
         enabled' \in [Admins!Registered' -> BOOLEAN], mustChange' \subseteq Admins!Registered',
         person' \in [Users -> Persons \cup {None}], admin' \subseteq Admins!Registered',
         Admins!OneAccountPerPerson',
         o \notin Admins!Removals => Admins!ActiveAdmins \subseteq Admins!ActiveAdmins',
         o \in Admins!Removals => Admins!ActiveAdmins \ {adminTask[s].user} \subseteq Admins!ActiveAdmins'
  PROVE  AdminInv'
<1> USE DEF AdminInv, Admins!Commits, Admins!Finish
<1>1. /\ adminPc' = [adminPc EXCEPT ![s] = "idle"] /\ adminTask' = [adminTask EXCEPT ![s] = None]
      /\ adminPc[s] = "commit" /\ adminTask[s].op = o
  OBVIOUS
<1>2. adminOverlap' \in BOOLEAN /\ (adminOverlap => adminOverlap')
  BY DEF Admins!AdminsTypeOK
<1>3. Admins!AdminsTypeOK' /\ AdminTasksInHand'
  BY <1>1, <1>2 DEF Admins!AdminsTypeOK, AdminTasksInHand
<1>4. ASSUME ~ adminOverlap' PROVE Admins!ActiveAdmins' # {} /\ AdminRemovalsLeaveOne'
  <2>1. ~ adminOverlap /\ Admins!ActiveAdmins # {} /\ AdminRemovalsLeaveOne
    BY <1>2, <1>4
  <2>2. CASE o \notin Admins!Removals
    BY <1>1, <2>1, <2>2 DEF AdminRemovalsLeaveOne, Admins!AdminsTypeOK
  <2>3. CASE o \in Admins!Removals
    <3>1. \A r \in Sessions \ {s} : ~(adminPc[r] = "commit" /\ adminTask[r].op \in Admins!Removals)
      BY <1>4, <2>3
    <3>2. \A r \in Sessions : ~(adminPc'[r] = "commit" /\ adminTask'[r].op \in Admins!Removals)
      BY <1>1, <3>1 DEF Admins!AdminsTypeOK
    <3>3. Admins!ActiveAdmins' # {}
      BY <1>1, <2>1, <2>3 DEF AdminRemovalsLeaveOne
    <3>4. QED
      BY <3>2, <3>3 DEF AdminRemovalsLeaveOne
  <2>4. QED
    BY <2>2, <2>3
<1>5. QED
  BY <1>2, <1>3, <1>4

LEMMA AdminBeginByUserKeepsInv ==
  ASSUME AdminInv, NEW s \in Sessions, NEW u \in Users, Admins!BeginByUser(s, u)
  PROVE  AdminInv'
<1> USE DEF Admins!Operations, Admins!Removals
<1>1. ASSUME NEW p \in Persons \cup {None}, Admins!Take(s, "register", u, p) PROVE AdminInv'
  BY <1>1, AdminTakeKeepsInv
<1>2. ASSUME NEW p \in Persons, Admins!MayLink(u, p), Admins!Take(s, "link", u, p) PROVE AdminInv'
  BY <1>2, AdminTakeKeepsInv DEF Admins!MayLink, Admins!SignedIn, Admins!Active
<1>3. ASSUME Admins!Active(u), Admins!Take(s, "change", u, None) PROVE AdminInv'
  BY <1>3, AdminTakeKeepsInv DEF Admins!Active
<1>4. ASSUME Admins!MayDelete(u), Admins!Take(s, "delete", u, None) PROVE AdminInv'
  <2>1. adminOverlap \/ Admins!ActiveAdmins \ {u} # {}
    BY <1>4 DEF AdminInv, Admins!MayDelete, Admins!ActiveAdmins
  <2>2. QED
    BY <1>4, <2>1, AdminTakeKeepsInv DEF Admins!MayDelete, Admins!Active
<1>5. QED
  BY <1>1, <1>2, <1>3, <1>4 DEF Admins!BeginByUser

LEMMA AdminBeginByAdminKeepsInv ==
  ASSUME AdminInv, NEW s \in Sessions, NEW a \in Users, NEW u \in Users, Admins!BeginByAdmin(s, a, u)
  PROVE  AdminInv'
<1> USE DEF Admins!Operations, Admins!Removals
<1>1. ASSUME NEW o \in {"activate", "require", "grant"}, u \in Admins!Registered, Admins!Take(s, o, u, None)
      PROVE  AdminInv'
  BY <1>1, AdminTakeKeepsInv
<1>2. ASSUME Admins!MayDeactivate(a, u), Admins!Take(s, "deactivate", u, None) PROVE AdminInv'
  <2>1. a \in Admins!ActiveAdmins \ {u}
    BY <1>2 DEF Admins!MayDeactivate, Admins!Administrator, Admins!SignedIn, Admins!ActiveAdmins
  <2>2. QED
    BY <1>2, <2>1, AdminTakeKeepsInv DEF Admins!MayDeactivate, Admins!Active
<1>3. ASSUME Admins!MayRevoke(a, u), Admins!Take(s, "revoke", u, None) PROVE AdminInv'
  <2>1. a \in Admins!ActiveAdmins \ {u}
    BY <1>3 DEF Admins!MayRevoke, Admins!Administrator, Admins!SignedIn, Admins!ActiveAdmins
  <2>2. u \in Admins!Registered
    BY <1>3 DEF Admins!MayRevoke, AdminInv, Admins!AdminsTypeOK
  <2>3. QED
    BY <1>3, <2>1, <2>2, AdminTakeKeepsInv
<1>4. QED
  BY <1>1, <1>2, <1>3 DEF Admins!BeginByAdmin

(* Accounts that are created or linked stand for a person of their own.    *)
LEMMA AdminPersonStaysOne ==
  ASSUME AdminInv, NEW u \in Users, NEW p, Admins!PersonIsFree(u, p), person' = [person EXCEPT ![u] = p]
  PROVE  Admins!OneAccountPerPerson'
  BY DEF AdminInv, Admins!AdminsTypeOK, Admins!OneAccountPerPerson, Admins!PersonIsFree

LEMMA AdminCommitStepsKeepInv ==
  ASSUME AdminInv, NEW s \in Sessions,
         \/ Admins!Register(s) \/ Admins!LinkMember(s) \/ Admins!ChangePassword(s) \/ Admins!DeleteAccount(s)
         \/ Admins!SetUserActive(s) \/ Admins!RequirePasswordChange(s) \/ Admins!GrantAdmin(s) \/ Admins!RevokeAdmin(s)
  PROVE  AdminInv'
<1> DEFINE u == adminTask[s].user
<1> USE DEF Admins!Registered, Admins!Active, Admins!ActiveAdmins
<1>1. adminPc[s] = "commit"
  BY DEF Admins!Register, Admins!LinkMember, Admins!ChangePassword, Admins!DeleteAccount,
         Admins!SetUserActive, Admins!RequirePasswordChange, Admins!GrantAdmin,
         Admins!RevokeAdmin, Admins!Commits
<1>2. /\ adminTask[s] \in Admins!Tasks /\ u \in Users /\ adminTask[s].person \in Persons \cup {None}
      /\ adminTask[s].op # "register" => u \in Admins!Registered
  BY <1>1 DEF AdminInv, AdminTasksInHand, Admins!Tasks
<1>3. /\ Admins!Registered \subseteq Users /\ enabled \in [Admins!Registered -> BOOLEAN]
      /\ mustChange \subseteq Admins!Registered /\ person \in [Users -> Persons \cup {None}]
      /\ admin \subseteq Admins!Registered /\ Admins!OneAccountPerPerson
  BY DEF AdminInv, Admins!AdminsTypeOK
<1> HIDE DEF u
<1>4. CASE Admins!Register(s)
  <2>1. Admins!OneAccountPerPerson'
    BY <1>2, <1>4, AdminPersonStaysOne DEF Admins!Register, u
  <2>2. Admins!Commits(s, "register")
    BY <1>4 DEF Admins!Register
  <2>3. /\ Admins!Registered' = Admins!Registered \cup {u}
        /\ enabled' \in [Admins!Registered' -> BOOLEAN]
        /\ \A v \in Admins!Registered : enabled'[v] = enabled[v]
        /\ mustChange' = mustChange /\ admin' = admin
    BY <1>3, <1>4 DEF Admins!Register, u
  <2>4. person' \in [Users -> Persons \cup {None}]
    BY <1>2, <1>3, <1>4 DEF Admins!Register
  <2>5. Admins!ActiveAdmins \subseteq Admins!ActiveAdmins'
    BY <2>3
  <2>6. "register" \in Admins!Operations \ Admins!Removals
    BY DEF Admins!Operations, Admins!Removals
  <2>7. QED
    BY <1>2, <1>3, <2>1, <2>2, <2>3, <2>4, <2>5, <2>6, AdminCommitKeepsInv
<1>5. CASE Admins!LinkMember(s)
  <2>1. Admins!OneAccountPerPerson'
    BY <1>2, <1>5, AdminPersonStaysOne DEF Admins!LinkMember, u
  <2>2. Admins!Commits(s, "link") /\ UNCHANGED <<enabled, mustChange, admin>>
    BY <1>5 DEF Admins!LinkMember
  <2>3. person' \in [Users -> Persons \cup {None}]
    BY <1>2, <1>3, <1>5 DEF Admins!LinkMember
  <2>4. Admins!ActiveAdmins \subseteq Admins!ActiveAdmins'
    BY <2>2
  <2>5. "link" \in Admins!Operations \ Admins!Removals
    BY DEF Admins!Operations, Admins!Removals
  <2>6. QED
    BY <1>3, <2>1, <2>2, <2>3, <2>4, <2>5, AdminCommitKeepsInv
<1>6. ASSUME NEW o \in {"change", "require", "grant"}, Admins!Commits(s, o), person' = person, enabled' = enabled,
             mustChange' \subseteq Admins!Registered, admin \subseteq admin', admin' \subseteq Admins!Registered
      PROVE  AdminInv'
  <2>1. Admins!OneAccountPerPerson'
    BY <1>3, <1>6 DEF Admins!OneAccountPerPerson
  <2>2. Admins!ActiveAdmins \subseteq Admins!ActiveAdmins'
    BY <1>6
  <2>3. o \in Admins!Operations \ Admins!Removals
    BY <1>6 DEF Admins!Operations, Admins!Removals
  <2>4. QED
    BY <1>3, <1>6, <2>1, <2>2, <2>3, AdminCommitKeepsInv
<1>7. CASE Admins!ChangePassword(s)
  BY <1>3, <1>6, <1>7 DEF Admins!ChangePassword
<1>8. CASE Admins!RequirePasswordChange(s)
  <2>1. u \in Admins!Registered
    BY <1>2, <1>8 DEF Admins!RequirePasswordChange, Admins!Commits
  <2>2. QED
    BY <1>3, <1>6, <1>8, <2>1 DEF Admins!RequirePasswordChange, u
<1>9. CASE Admins!GrantAdmin(s)
  <2>1. u \in Admins!Registered
    BY <1>2, <1>9 DEF Admins!GrantAdmin, Admins!Commits
  <2>2. QED
    BY <1>3, <1>6, <1>9, <2>1 DEF Admins!GrantAdmin, u
<1>10. ASSUME NEW o \in {"delete", "activate", "deactivate"}, Admins!Commits(s, o), UNCHANGED <<mustChange, person, admin>>,
              enabled' = [enabled EXCEPT ![u] = (o = "activate")]
       PROVE  AdminInv'
  <2>1. Admins!OneAccountPerPerson'
    BY <1>3, <1>10 DEF Admins!OneAccountPerPerson
  <2>2. /\ o \notin Admins!Removals => Admins!ActiveAdmins \subseteq Admins!ActiveAdmins'
        /\ o \in Admins!Removals => Admins!ActiveAdmins \ {u} \subseteq Admins!ActiveAdmins'
    BY <1>3, <1>10 DEF Admins!Removals
  <2>3. o \in Admins!Operations
    BY <1>10 DEF Admins!Operations
  <2>4. QED
    BY <1>3, <1>10, <2>1, <2>2, <2>3, AdminCommitKeepsInv DEF u
<1>11. CASE Admins!DeleteAccount(s)
  BY <1>10, <1>11 DEF Admins!DeleteAccount, u
<1>12. CASE Admins!SetUserActive(s)
  BY <1>10, <1>12 DEF Admins!SetUserActive, u
<1>13. CASE Admins!RevokeAdmin(s)
  <2>1. Admins!OneAccountPerPerson'
    BY <1>3, <1>13 DEF Admins!RevokeAdmin, Admins!OneAccountPerPerson
  <2>2. Admins!Commits(s, "revoke") /\ admin' = admin \ {u} /\ UNCHANGED <<enabled, mustChange, person>>
    BY <1>13 DEF Admins!RevokeAdmin, u
  <2>3. "revoke" \in Admins!Operations /\ "revoke" \in Admins!Removals
    BY DEF Admins!Operations, Admins!Removals
  <2>4. Admins!ActiveAdmins \ {u} \subseteq Admins!ActiveAdmins'
    BY <2>2
  <2>5. QED
    BY <1>3, <2>1, <2>2, <2>3, <2>4, AdminCommitKeepsInv DEF u
<1>14. QED
  BY <1>4, <1>5, <1>7, <1>8, <1>9, <1>11, <1>12, <1>13

LEMMA AdminStepKeepsInv ==
  ASSUME Admins!AdminAssumption, AdminInv, [Admins!Next]_(Admins!vars)
  PROVE  AdminInv'
<1>1. CASE UNCHANGED Admins!vars
  BY <1>1 DEF Admins!vars, AdminInv, Admins!AdminsTypeOK, AdminTasksInHand,
              Admins!OneAccountPerPerson, Admins!ActiveAdmins, Admins!Active, Admins!Registered,
              AdminRemovalsLeaveOne
<1>2. ASSUME NEW s \in Sessions, Admins!Abort(s) PROVE AdminInv'
  <2> USE <1>2 DEF Admins!Abort, Admins!Finish, Admins!Rows
  <2>1. Admins!AdminsTypeOK' /\ AdminTasksInHand' /\ Admins!OneAccountPerPerson'
    BY DEF AdminInv, Admins!AdminsTypeOK, AdminTasksInHand, Admins!OneAccountPerPerson,
           Admins!Registered
  <2>2. Admins!ActiveAdmins' = Admins!ActiveAdmins /\ (AdminRemovalsLeaveOne => AdminRemovalsLeaveOne')
    BY DEF AdminInv, Admins!AdminsTypeOK, Admins!ActiveAdmins, Admins!Active, Admins!Registered,
           AdminRemovalsLeaveOne
  <2>3. QED
    BY <2>1, <2>2 DEF AdminInv, Admins!Registered
<1>3. CASE Admins!Bootstrap
  <2> USE <1>3 DEF Admins!Bootstrap
  <2>1. /\ admin' \subseteq Admins!Registered /\ admin \subseteq admin'
        /\ UNCHANGED <<enabled, mustChange, person, adminOverlap, adminPc, adminTask>>
    BY DEF AdminInv, Admins!AdminsTypeOK
  <2>2. Admins!AdminsTypeOK' /\ AdminTasksInHand' /\ Admins!OneAccountPerPerson'
    BY <2>1 DEF AdminInv, Admins!AdminsTypeOK, AdminTasksInHand, Admins!OneAccountPerPerson,
                Admins!Registered
  <2>3. Admins!ActiveAdmins \subseteq Admins!ActiveAdmins'
    BY <2>1 DEF Admins!ActiveAdmins, Admins!Active, Admins!Registered
  <2>4. AdminRemovalsLeaveOne => AdminRemovalsLeaveOne'
    BY <2>1, <2>3 DEF AdminRemovalsLeaveOne
  <2>5. QED
    BY <2>1, <2>2, <2>3, <2>4 DEF AdminInv, Admins!Registered
<1>4. QED
  BY <1>1, <1>2, <1>3, AdminBeginByUserKeepsInv, AdminBeginByAdminKeepsInv,
     AdminCommitStepsKeepInv
     DEF Admins!Next

(* The inductive invariant holds, however requests interleave and abort.   *)
THEOREM AdminInvariance == ASSUME Admins!AdminAssumption PROVE Admins!Spec => []AdminInv
<1>1. Admins!Init => AdminInv
  BY AdminInitInv
<1>2. AdminInv /\ [Admins!Next]_(Admins!vars) => AdminInv'
  BY AdminStepKeepsInv
<1>3. QED
  BY <1>1, <1>2, PTL DEF Admins!Spec

(* Types of accounts, grants and requests (app/services/platform.py).      *)
THEOREM AdminTypeCorrect == ASSUME Admins!AdminAssumption PROVE Admins!Spec => []Admins!AdminsTypeOK
<1>1. AdminInv => Admins!AdminsTypeOK
  BY DEF AdminInv
<1>2. QED
  BY <1>1, AdminInvariance, PTL

(* There is an active administrator, unless two removals were decided at   *)
(* the same time, and an account stands for a person of its own.           *)
THEOREM AdminsSound == ASSUME Admins!AdminAssumption PROVE Admins!Spec => []Admins!AdministratorsAreSound
<1>1. AdminInv => Admins!AdministratorsAreSound
  BY DEF AdminInv, Admins!AdministratorsAreSound, Admins!NoGovernanceLockout
<1>2. QED
  BY <1>1, AdminInvariance, PTL

-----------------------------------------------------------------------------
(* A behavior of the composition is one of each part: the parts that are   *)
(* not chosen stutter.                                                     *)
THEOREM PartsAreKept ==
  PartsSpec => Spec /\ Chama!Spec /\ Fees!Spec /\ Auth!Spec /\ Admins!Spec
<1>1. PartsInit => Init /\ Chama!Init /\ Fees!Init /\ Auth!Init /\ Admins!Init
  BY DEF PartsInit
<1>2. [PartsNext]_partsVars =>
        [Next]_vars /\ [Chama!Next]_(Chama!vars) /\ [Fees!Next]_(Fees!vars)
        /\ [Auth!Next]_(Auth!vars) /\ [Admins!Next]_(Admins!vars)
  BY DEF PartsNext, LoansNext, ChamaNext, FeesNext, AuthNext, AdminsNext, partsVars, vars,
         chamaVars, feeVars, authVars, adminVars, Chama!vars, Fees!vars, Auth!vars, Admins!vars
<1>3. QED
  BY <1>1, <1>2, PTL DEF PartsSpec, Spec, Chama!Spec, Fees!Spec, Auth!Spec, Admins!Spec

(* Types of every row, request and lock of the part that moves.            *)
THEOREM TypesCorrect == PartsSpec => []TypesOK
<1> DEFINE PartOK == part \in {"loans", "chama", "fees", "auth", "admins"}
<1>1. /\ PartOK /\ TypeOK /\ Chama!ChamasTypeOK /\ Fees!FeesTypeOK
      /\ Auth!AuthTypeOK /\ Admins!AdminsTypeOK
      => TypesOK
  BY DEF TypesOK
<1>2. PartsInit => PartOK
  BY DEF PartsInit
<1>3. PartOK /\ [PartsNext]_partsVars => PartOK'
  BY DEF PartsNext, LoansNext, ChamaNext, FeesNext, AuthNext, AdminsNext, partsVars
<1> HIDE DEF PartOK
<1>4. PartsSpec => []PartOK
  BY <1>2, <1>3, PTL DEF PartsSpec
<1>5. QED
  BY <1>1, <1>4, PartsAreKept, TypeCorrect, ChamaTypeCorrect, FeeTypeCorrect, AuthTypeCorrect,
     AdminTypeCorrect, PartsAssumption, PTL

(* Membership numbers are 1, 2, 3 and so on, each given once, however many *)
(* requests hold a stale one; and a membership has one leadership role at  *)
(* most, unless two are assigned at the same time (_allocate_member_number *)
(* and assign_role in app/services/membership.py and role.py).             *)
THEOREM MembershipsAlwaysSound == PartsSpec => []MembershipsAreSound
<1>1. Chama!MembershipsAreSound => MembershipsAreSound
  BY DEF MembershipsAreSound
<1>2. QED
  BY <1>1, PartsAreKept, ChamaMembershipsSound, PartsAssumption, PTL

(* A dissolved Chama stays dissolved, unless two administrators change its *)
(* status at the same time (update_chama_status in app/services/chama.py). *)
THEOREM DissolutionIsFinal == PartsSpec => DissolvedIsTerminal
<1>1. [chama = "DISSOLVED" => chama' = "DISSOLVED" \/ "chama" \in chamaOverlap']_(Chama!vars) =>
        [chama = "DISSOLVED" => chama' = "DISSOLVED" \/ "chama" \in chamaOverlap']_chamaVars
  BY DEF chamaVars, Chama!vars
<1>2. QED
  BY <1>1, PartsAreKept, ChamaDissolutionIsFinal, PartsAssumption, PTL
     DEF DissolvedIsTerminal, Chama!DissolvedIsTerminal

(* Registration fees: a fee that is PAID has a posted payment; payment     *)
(* rows tell what the ledger holds; and no fee is collected twice at a     *)
(* time, however waivers, payments and reversals race and crash            *)
(* (app/services/registration_fee.py).                                     *)
THEOREM FeesStayMatched == PartsSpec => []FeesMatchLedger
<1>1. Fees!FeesMatchLedger => FeesMatchLedger
  BY DEF FeesMatchLedger
<1>2. QED
  BY <1>1, PartsAreKept, FeesAlwaysMatchLedger, PartsAssumption, PTL

(* A live refresh token goes back to a login with the password of now, and *)
(* a presented token has one successor, unless operations of its user      *)
(* overlapped (change_password and refresh in app/services/auth.py).       *)
THEOREM SessionsAlwaysSound == PartsSpec => []SessionsAreSound
<1>1. Auth!SessionsAreSound => SessionsAreSound
  BY DEF SessionsAreSound
<1>2. QED
  BY <1>1, PartsAreKept, AuthSessionsSound, PartsAssumption, PTL

(* There is an active platform administrator, unless two removals were     *)
(* decided at the same time, and an account is linked to a person of its   *)
(* own (app/services/platform.py and auth.py).                             *)
THEOREM AdministratorsAlwaysSound == PartsSpec => []AdministratorsAreSound
<1>1. Admins!AdministratorsAreSound => AdministratorsAreSound
  BY DEF AdministratorsAreSound
<1>2. QED
  BY <1>1, PartsAreKept, AdminsSound, PartsAssumption, PTL
=============================================================================
