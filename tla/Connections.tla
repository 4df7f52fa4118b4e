----------------------------- MODULE Connections ----------------------------
(***************************************************************************)
(* Payment connections and their sealed credentials, translated from       *)
(* PaymentConnectionService (app/services/payment_connection.py) and       *)
(* CredentialCipher (app/core/credential_cipher.py).                       *)
(*                                                                         *)
(* replace, validate, disable and delete load the row, and validate calls  *)
(* the provider, before they commit; the UPDATE then names the attributes  *)
(* that differ from what was loaded, so a status that was loaded equal is  *)
(* not written.  A seal is bound to its connection and version; it opens   *)
(* with the key it was sealed with.                                        *)
(*                                                                         *)
(* Credentials are a consumer key and a secret.  Daraja's adapter caches   *)
(* the access token of a consumer key (app/providers/daraja/adapter.py),   *)
(* Jenga's does not (app/providers/jenga/adapter.py).                      *)
(*                                                                         *)
(* Left out: role checks and the rate limit (both refuse before anything   *)
(* is written), masked identifiers and error codes.                        *)
(***************************************************************************)
EXTENDS Naturals, FiniteSets

CONSTANTS
  Sessions,
  Connections,  \* ids of connection rows; used up, which bounds the model
  Slots,        \* pairs of a provider and an environment, of one Chama
  Caching,      \* the slots of Daraja
  ConsumerKeys,
  Secrets,
  Genuine,      \* credentials the provider accepts
  MaxVersion,   \* bound on credential versions
  MaxKey,       \* bound on encryption key versions
  None, Gone

Credentials == ConsumerKeys \X Secrets

Statuses == {"PENDING_VALIDATION", "ACTIVE", "INVALID", "DISABLED"}
Seals == [version : 1..MaxVersion, key : 1..MaxKey, credentials : Credentials]
ConnectionRows == [slot : Slots, status : Statuses, version : 1..MaxVersion, seal : Seals]
Changes == {"replace", "disable", "delete"}
Tasks == [op : Changes \cup {"create", "validate"}, id : Connections \cup {None},
          loaded : ConnectionRows \cup {None}, slot : Slots \cup {None}, valid : BOOLEAN]

ConnectionAssumption ==
  /\ None # Gone
  /\ None \notin Connections \cup Slots \cup Seals \cup ConnectionRows \cup Tasks
  /\ Gone \notin ConnectionRows
  /\ Caching \subseteq Slots
  /\ Genuine \subseteq Credentials
  /\ MaxVersion \in Nat \ {0} /\ MaxKey \in Nat \ {0}

VARIABLES
  row,      \* payment_connections: a row, None, or Gone
  history,  \* connections with payment attempts or events
  audited,  \* audited[c]: the new statuses of c in payment_connection_audits
  key,      \* settings: the current key version and those that can be opened
  tokens,   \* _token_cache: slots and consumer keys with a live token
  passed,   \* history variable: the seal of c that passed a validation last
  overlap,  \* history variable: connections with a validation and another
            \* operation at the same time
  pc,
  task      \* its operation, connection and, where it matters, loaded row

vars == <<row, history, audited, key, tokens, passed, overlap, pc, task>>

Exists(c) == row[c] \notin {None, Gone}

Init ==
  /\ row = [c \in Connections |-> None]
  /\ history = {}
  /\ audited = [c \in Connections |-> {}]
  /\ key = [current |-> 1, kept |-> {1}]
  /\ tokens = {}
  /\ passed = [c \in Connections |-> None]
  /\ overlap = {}
  /\ pc = [s \in Sessions |-> "idle"]
  /\ task = [s \in Sessions |-> None]

Stored == <<row, audited, passed, overlap>>
Others == <<history, key, tokens>>

Finish(s) ==
  /\ pc' = [pc EXCEPT ![s] = "idle"]
  /\ task' = [task EXCEPT ![s] = None]

Refuse(s) == Finish(s) /\ UNCHANGED <<Stored, Others>>

Take(s, t) ==
  /\ pc' = [pc EXCEPT ![s] = "commit"]
  /\ task' = [task EXCEPT ![s] = t]
  /\ UNCHANGED <<Stored, history, key>>

(* CredentialCipher.seal and open                                          *)
Seal(version, credentials) ==
  [version |-> version, key |-> key.current, credentials |-> credentials]

Opens(seal, version) == seal.version = version /\ seal.key \in key.kept

InSlot(slot) == {c \in Connections : Exists(c) /\ row[c].slot = slot}

BeginCreate(s, slot) ==
  /\ pc[s] = "idle"
  /\ InSlot(slot) = {}
  /\ Take(s, [op |-> "create", id |-> None, loaded |-> None, slot |-> slot, valid |-> FALSE])
  /\ UNCHANGED tokens

(* DarajaAdapter._access_token: a live token of the consumer key is taken   *)
(* whatever the secret; the provider gives one for genuine credentials, if  *)
(* it can be reached.                                                      *)
CachedToken(slot, credentials) == <<slot, credentials[1]>> \in tokens

AccessToken(slot, credentials, got) ==
  \/ CachedToken(slot, credentials) /\ got /\ UNCHANGED tokens
  \/ /\ ~ CachedToken(slot, credentials)
     /\ got => credentials \in Genuine
     /\ tokens' = IF got /\ slot \in Caching
                  THEN tokens \cup {<<slot, credentials[1]>>} ELSE tokens

(* The loads and the tests of the other operations.                        *)
Admissible(op, c) ==
  /\ Exists(c)
  /\ op = "validate" => row[c].status # "ACTIVE"
  /\ op = "disable" => row[c].status # "DISABLED"
  /\ op = "delete" => c \notin history

Begin(s, op, c) ==
  /\ pc[s] = "idle"
  /\ Admissible(op, c)
  /\ Take(s, [op |-> op, id |-> c, slot |-> None, valid |-> FALSE,
              loaded |-> IF op = "replace" THEN row[c] ELSE None])
  /\ UNCHANGED tokens

(* validate, as far as the provider's answer: what cannot be opened is      *)
(* invalid, and so is what the adapter gets no token for.                  *)
BeginValidate(s, c) ==
  /\ pc[s] = "idle"
  /\ Admissible("validate", c)
  /\ \E valid \in BOOLEAN :
       /\ Take(s, [op |-> "validate", id |-> c, slot |-> None, valid |-> valid,
                   loaded |-> row[c]])
       /\ IF Opens(row[c].seal, row[c].version)
          THEN AccessToken(row[c].slot, row[c].seal.credentials, valid)
          ELSE ~ valid /\ UNCHANGED tokens

(* register_c2b_urls, and the attempts and queries of payments, which ask   *)
(* for a token too and store nothing here.                                 *)
CallProvider(c) ==
  /\ Exists(c) /\ Opens(row[c].seal, row[c].version)
  /\ \E got \in BOOLEAN : AccessToken(row[c].slot, row[c].seal.credentials, got)
  /\ UNCHANGED <<Stored, history, key, pc, task>>

(* The time to live is over, or the process has been restarted.            *)
ForgetToken ==
  /\ \E token \in tokens : tokens' = tokens \ {token}
  /\ UNCHANGED <<Stored, history, key, pc, task>>

(* uq_payment_connections_chama_provider_environment                       *)
SlotIsTaken(slot) == InSlot(slot) # {}

Create(s, credentials) ==
  LET slot == task[s].slot IN
  /\ pc[s] = "commit" /\ task[s].op = "create"
  /\ \/ SlotIsTaken(slot) /\ Refuse(s)
     \/ /\ ~ SlotIsTaken(slot)
        /\ \E c \in Connections :
             /\ row[c] = None
             /\ row' = [row EXCEPT ![c] = [slot |-> slot, status |-> "PENDING_VALIDATION",
                                           version |-> 1, seal |-> Seal(1, credentials)]]
             /\ audited' = [audited EXCEPT ![c] = {"PENDING_VALIDATION"}]
        /\ Finish(s)
        /\ UNCHANGED <<Others, passed, overlap>>

(* The status column is written only when it differs from what was loaded. *)
Written(s, status) ==
  IF task[s].loaded.status # status THEN status ELSE row[task[s].id].status

Audit(s, status) ==
  audited' = [audited EXCEPT ![task[s].id] = @ \cup {status}]

(* One of two sessions that hold a connection at the same time validates   *)
(* it, and the other one changes it.                                       *)
Holds(s, c) == pc[s] = "commit" /\ task[s].id = c

NoteOverlap(s) ==
  LET c == task[s].id IN
  overlap' = IF \E t \in Sessions \ {s} :
                  Holds(t, c) /\ "validate" \in {task[s].op, task[t].op}
             THEN overlap \cup {c} ELSE overlap

(* Bug: the version is counted up in the database, the seal is not.        *)
NextVersionInRow(s) == row[task[s].id].version + 1

(* Bug: new credentials leave the connection ACTIVE.                       *)
AfterReplaceSame(s) == row[task[s].id].status

NextVersion(s) == task[s].loaded.version + 1
AfterReplace(s) == Written(s, "PENDING_VALIDATION")

Replace(s, credentials) ==
  LET c == task[s].id  v == task[s].loaded.version + 1 IN
  /\ pc[s] = "commit" /\ task[s].op = "replace" /\ Exists(c)
  /\ v <= MaxVersion
  /\ row' = [row EXCEPT ![c].seal = Seal(v, credentials),
                        ![c].version = NextVersion(s),
                        ![c].status = AfterReplace(s)]
  /\ Audit(s, "PENDING_VALIDATION")
  /\ NoteOverlap(s)
  /\ Finish(s)
  /\ UNCHANGED <<Others, passed>>

Outcome(s) ==
  IF task[s].loaded.status = "DISABLED" THEN "DISABLED"
  ELSE IF task[s].valid THEN "ACTIVE" ELSE "INVALID"

Validate(s) ==
  LET c == task[s].id IN
  /\ pc[s] = "commit" /\ task[s].op = "validate" /\ Exists(c)
  /\ row' = [row EXCEPT ![c].status = Written(s, Outcome(s))]
  /\ passed' = IF task[s].valid THEN [passed EXCEPT ![c] = task[s].loaded.seal] ELSE passed
  /\ Audit(s, Outcome(s))
  /\ NoteOverlap(s)
  /\ Finish(s)
  /\ UNCHANGED Others

(* Bug: the audit row is written by a commit of its own, and is lost.      *)
DisableUnaudited(s) ==
  LET c == task[s].id IN
  /\ pc[s] = "commit" /\ task[s].op = "disable" /\ Exists(c)
  /\ row' = [row EXCEPT ![c].status = "DISABLED"]
  /\ NoteOverlap(s)
  /\ Finish(s)
  /\ UNCHANGED <<Others, passed, audited>>

Disable(s) ==
  LET c == task[s].id IN
  /\ pc[s] = "commit" /\ task[s].op = "disable" /\ Exists(c)
  /\ row' = [row EXCEPT ![c].status = "DISABLED"]
  /\ Audit(s, "DISABLED")
  /\ NoteOverlap(s)
  /\ Finish(s)
  /\ UNCHANGED <<Others, passed>>

(* Bug: attempts and events are deleted with their connection.             *)
Unreferenced(c) == TRUE

(* ON DELETE RESTRICT of the attempts and the events                       *)
Deletable(c) == c \notin history

(* The audit rows, this deletion's among them, go with the connection      *)
(* (ON DELETE CASCADE).                                                    *)
Delete(s) ==
  LET c == task[s].id IN
  /\ pc[s] = "commit" /\ task[s].op = "delete" /\ Exists(c) /\ Deletable(c)
  /\ row' = [row EXCEPT ![c] = Gone]
  /\ audited' = [audited EXCEPT ![c] = {}]
  /\ Finish(s)
  /\ UNCHANGED <<Others, passed, overlap>>

(* The row is gone, or has history by now; no answer; a crash.             *)
Abort(s) == pc[s] = "commit" /\ Refuse(s)

(* Payment attempts and provider events refer to the connection.           *)
Use(c) ==
  /\ Exists(c)
  /\ history' = history \cup {c}
  /\ UNCHANGED <<Stored, key, tokens, pc, task>>

(* The operator's key rotation: a new current key, and an old one dropped. *)
RotateKey ==
  /\ key.current < MaxKey
  /\ key' = [current |-> key.current + 1, kept |-> key.kept \cup {key.current + 1}]
  /\ UNCHANGED <<Stored, history, tokens, pc, task>>

DropKey(k) ==
  /\ k \in key.kept \ {key.current}
  /\ key' = [key EXCEPT !.kept = @ \ {k}]
  /\ UNCHANGED <<Stored, history, tokens, pc, task>>

Next ==
  \/ \E s \in Sessions :
       \/ \E slot \in Slots : BeginCreate(s, slot)
       \/ \E c \in Connections : BeginValidate(s, c) \/ \E op \in Changes : Begin(s, op, c)
       \/ \E credentials \in Credentials : Create(s, credentials) \/ Replace(s, credentials)
       \/ Validate(s) \/ Disable(s) \/ Delete(s) \/ Abort(s)
  \/ \E c \in Connections : Use(c) \/ CallProvider(c)
  \/ ForgetToken
  \/ RotateKey
  \/ \E k \in 1..MaxKey : DropKey(k)

Spec == Init /\ [][Next]_vars
-----------------------------------------------------------------------------
(* Type invariant.                                                         *)
ConnectionsTypeOK ==
  /\ row \in [Connections -> ConnectionRows \cup {None, Gone}]
  /\ history \subseteq Connections
  /\ audited \in [Connections -> SUBSET Statuses]
  /\ key \in [current : 1..MaxKey, kept : SUBSET (1..MaxKey)]
  /\ tokens \subseteq Caching \X ConsumerKeys
  /\ passed \in [Connections -> Seals \cup {None}]
  /\ overlap \subseteq Connections
  /\ pc \in [Sessions -> {"idle", "commit"}]
  /\ task \in [Sessions -> Tasks \cup {None}]

(* Stored credentials can be decrypted under the version of their row,     *)
(* whichever of two concurrent replacements comes last; only a dropped key *)
(* makes them unreadable.                                                  *)
SealMatchesVersion ==
  \A c \in Connections :
    Exists(c) /\ row[c].seal.key \in key.kept => Opens(row[c].seal, row[c].version)

(* "replace credentials -> PENDING_VALIDATION (must re-validate)"           *)
(* (payment_connection.py): what an ACTIVE connection holds has passed a    *)
(* validation, unless some operation ran at the same time as a validation   *)
(* of it; the provider accepts it, or at least another secret of its        *)
(* consumer key, whose token was in Daraja's cache.                         *)
ActiveIsTested ==
  \A c \in Connections :
    Exists(c) /\ row[c].status = "ACTIVE" /\ c \notin overlap =>
      LET held == row[c].seal.credentials IN
      /\ passed[c] = row[c].seal
      /\ \E genuine \in Genuine : genuine[1] = held[1]
      /\ row[c].slot \notin Caching => held \in Genuine

(* "a failing audit can never leave a connection change committed without   *)
(* its audit record" (payment_connection.py:20), and a connection with      *)
(* payment history is not deleted, although the history is counted before.  *)
ConnectionRecordsAreKept ==
  /\ \A c \in Connections : Exists(c) => row[c].status \in audited[c]
  /\ \A c \in history : Exists(c)

(* Both: what is stored of a connection can be read, and is kept.          *)
ConnectionsAreSound == SealMatchesVersion /\ ConnectionRecordsAreKept
=============================================================================
