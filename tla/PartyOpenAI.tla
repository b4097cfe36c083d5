---------------------------- MODULE PartyOpenAI ----------------------------
(***************************************************************************)
(* One party's OpenAI project: created with the party, given a new runtime *)
(* key or a new spend limit by the host, archived before the party is      *)
(* deleted.  Every request of the host is a handler of internal/webapp     *)
(* that alternates statements on the party's row (internal/store) with     *)
(* calls of the provider (internal/openaiadmin); handlers run side by      *)
(* side, keep what they read first, and may stop at any point (a crash, a  *)
(* canceled request, a database error).                                    *)
(*                                                                         *)
(* A call is confirmed, refused, or given up: a call given up may still    *)
(* take effect later, or never.  The provider's keys are numbered in order *)
(* of creation; 0 stands for no key and no amount.                         *)
(***************************************************************************)
EXTENDS Integers, FiniteSets

CONSTANTS
  Request,          \* handlers that may run at a time
  Amount,           \* spend limits a host may choose, in cents
  DefaultAmount,    \* the limit of a new project
  MaxStarts,        \* requests in all
  MaxLate,          \* calls given up and still on their way
  MayStop           \* whether handlers may stop half-way

ASSUME PartyOpenAIAssumption ==
  /\ Amount \subseteq Nat \ {0}
  /\ DefaultAmount \in Amount
  /\ MayStop \in BOOLEAN

VARIABLES
  row,         \* the party's row: status, project known, key, limits
  provider,    \* the project's status, its account's keys, its limit
  late,        \* effects of calls given up
  req,         \* the handlers
  nextKey, starts,
  replaced,    \* history: keys a rotation has replaced
  confirmed,   \* history: amounts the provider has confirmed
  overlapped,  \* history: a request has started while another was running
  strayed      \* history: spend limits asked in calls given up

vars == <<row, provider, late, req, nextKey, starts, replaced, confirmed,
          overlapped, strayed>>

Spending == {"spend-updating", "spend-update-error"}
Rotating == {"rotating", "rotation-error"}
Stored == {"pending", "error", "ready"} \cup Spending \cup Rotating

(* Stages of a handler, and those at which it waits for the provider.      *)
Calling == {"project", "limit", "account", "cleanup", "newkey", "discard",
            "list", "retire", "post", "archive"}
Stage == Calling \cup {"idle", "store", "store-error", "install", "settle",
                       "start", "post-error", "finish", "drop"}

Idle == [pc |-> "idle", key |-> 0, fresh |-> 0, cents |-> 0,
         todo |-> {}, failed |-> FALSE]

Paused(rw) == rw.status \in Spending \/ rw.spend \in {"updating", "update-error"}

(* A spend limit update left unfinished is resumed with its own amount.    *)
Resuming(rw) ==
  /\ rw.spend \in {"updating", "update-error"} /\ rw.pending > 0
  /\ rw.status \in Spending

----------------------------------------------------------------------------
(* The provider.                                                           *)

Effect(op, arg) == [op |-> op, arg |-> arg]

Apply(e) ==
  LET active == provider.project = "active"
  IN CASE e.op = "project" -> [provider EXCEPT !.project = "active"]
       [] active /\ e.op = "limit" -> [provider EXCEPT !.limit = e.arg]
       [] active /\ e.op = "key" -> [provider EXCEPT !.keys = @ \cup {e.arg}]
       [] active /\ e.op = "delete" -> [provider EXCEPT !.keys = @ \ {e.arg}]
       [] active /\ e.op = "archive" -> [provider EXCEPT !.project = "archived"]
       [] OTHER -> provider

(* An archived project answers only questions and its own archival.        *)
Accepts(e) ==
  CASE e.op = "project" -> provider.project = "none"
    [] e.op = "archive" -> provider.project # "none"
    [] OTHER -> provider.project = "active"

Confirm(e) == Accepts(e) /\ provider' = Apply(e) /\ UNCHANGED <<late, strayed>>

Refuse == UNCHANGED <<provider, late, strayed>>

GiveUp(e) ==
  /\ Cardinality(late) < MaxLate
  /\ late' = late \cup {e}
  /\ strayed' = IF e.op = "limit" THEN strayed \cup {e.arg} ELSE strayed
  /\ UNCHANGED provider

Land(e) ==
  /\ provider' = Apply(e)
  /\ late' = late \ {e}
  /\ UNCHANGED <<row, req, nextKey, starts, replaced, confirmed, overlapped,
                 strayed>>

----------------------------------------------------------------------------
Init ==
  /\ row = [status |-> "none", project |-> FALSE, key |-> 0, limit |-> 0,
            pending |-> 0, spend |-> "unknown"]
  /\ provider = [project |-> "none", keys |-> {}, limit |-> 0]
  /\ late = {} /\ req = [r \in Request |-> Idle]
  /\ nextKey = 1 /\ starts = 0
  /\ replaced = {} /\ confirmed = {} /\ overlapped = FALSE /\ strayed = {}

Begin(r, pc, key, cents) ==
  /\ req[r].pc = "idle" /\ starts < MaxStarts
  /\ starts' = starts + 1
  /\ req' = [req EXCEPT ![r] = [Idle EXCEPT !.pc = pc, !.key = key, !.cents = cents]]
  /\ overlapped' = (overlapped \/ \E q \in Request : req[q].pc # "idle")

Goto(r, pc) == req' = [req EXCEPT ![r].pc = pc]

Done(r) == req' = [req EXCEPT ![r] = Idle]

history == <<replaced, confirmed, overlapped>>

(* A handler stops where it is; the call it last gave up may be on its way. *)
Stop(r) ==
  /\ MayStop /\ req[r].pc # "idle"
  /\ Done(r)
  /\ UNCHANGED <<row, provider, late, strayed, nextKey, starts, history>>

----------------------------------------------------------------------------
(* createParty and provisionOpenAI.  A project that could not be completed *)
(* is archived.                                                            *)

CreateParty(r) ==
  /\ row.status = "none"
  /\ row' = [row EXCEPT !.status = "pending"]
  /\ Begin(r, "project", 0, DefaultAmount)
  /\ UNCHANGED <<provider, late, strayed, nextKey, replaced, confirmed>>

ProvisionProject(r) ==
  /\ req[r].pc = "project"
  /\ \/ Confirm(Effect("project", 0)) /\ Goto(r, "limit")
     \/ Refuse /\ Goto(r, "store-error")
     \/ GiveUp(Effect("project", 0)) /\ Goto(r, "store-error")
  /\ UNCHANGED <<row, nextKey, starts, history>>

ProvisionLimit(r) ==
  /\ req[r].pc = "limit"
  /\ LET e == Effect("limit", DefaultAmount)
     IN \/ Confirm(e) /\ Goto(r, "account") /\ confirmed' = confirmed \cup {DefaultAmount}
        \/ (Refuse \/ GiveUp(e)) /\ Goto(r, "cleanup") /\ UNCHANGED confirmed
  /\ UNCHANGED <<row, nextKey, starts, replaced, overlapped>>

ProvisionAccount(r) ==
  /\ req[r].pc = "account"
  /\ LET e == Effect("key", nextKey)
     IN \/ /\ Confirm(e)
           /\ req' = [req EXCEPT ![r].pc = "store", ![r].key = nextKey]
           /\ nextKey' = nextKey + 1
        \/ GiveUp(e) /\ Goto(r, "cleanup") /\ nextKey' = nextKey + 1
        \/ Refuse /\ Goto(r, "cleanup") /\ UNCHANGED nextKey
  /\ UNCHANGED <<row, starts, history>>

CleanupProject(r) ==
  /\ req[r].pc = "cleanup"
  /\ LET e == Effect("archive", 0) IN Confirm(e) \/ Refuse \/ GiveUp(e)
  /\ Goto(r, "store-error")
  /\ UNCHANGED <<row, nextKey, starts, history>>

(* UpdatePartyOpenAI asks nothing of the row but that it still exists.     *)
StoreProject(r) ==
  /\ req[r].pc = "store"
  /\ \/ /\ row.status \in Stored
        /\ row' = [status |-> "ready", project |-> TRUE, key |-> req[r].key,
                   limit |-> DefaultAmount, pending |-> 0, spend |-> "ready"]
        /\ Done(r)
     \/ UNCHANGED row /\ Goto(r, "store-error")
  /\ UNCHANGED <<provider, late, strayed, nextKey, starts, history>>

StoreError(r) ==
  /\ req[r].pc = "store-error"
  /\ row' = IF row.status \in Stored
            THEN [status |-> "error", project |-> FALSE, key |-> 0,
                  limit |-> 0, pending |-> 0, spend |-> "unknown"]
            ELSE row
  /\ Done(r)
  /\ UNCHANGED <<provider, late, strayed, nextKey, starts, history>>

----------------------------------------------------------------------------
(* rotatePartyOpenAIKey.  The party is read once; its key is the one the   *)
(* handler goes by from then on.                                           *)

RotateKey(r) ==
  /\ row.status \in Stored /\ row.project /\ ~Paused(row)
  /\ \/ row.status = "ready" /\ Begin(r, "newkey", row.key, 0)
     \/ row.status \in Rotating /\ row.key # 0 /\ Begin(r, "list", row.key, 0)
  /\ UNCHANGED <<row, provider, late, strayed, nextKey, replaced, confirmed>>

CreateKey(r) ==
  /\ req[r].pc = "newkey"
  /\ LET e == Effect("key", nextKey)
     IN \/ /\ Confirm(e)
           /\ req' = [req EXCEPT ![r].pc = "install", ![r].fresh = nextKey]
           /\ nextKey' = nextKey + 1
        \/ GiveUp(e) /\ Done(r) /\ nextKey' = nextKey + 1
        \/ Refuse /\ Done(r) /\ UNCHANGED nextKey
  /\ UNCHANGED <<row, starts, history>>

(* StartPartyOpenAIKeyRotation: a compare-and-swap against the key read;   *)
(* one that forgot the state would be a bug.                               *)
CanInstallByKey(r) == row.key = req[r].key /\ row.project

CanInstall(r) == row.key = req[r].key /\ row.status = "ready" /\ row.project

InstallKey(r) ==
  /\ req[r].pc = "install"
  /\ \/ /\ CanInstall(r)
        /\ row' = [row EXCEPT !.key = req[r].fresh, !.status = "rotating"]
        /\ replaced' = replaced \cup {row.key}
        /\ req' = [req EXCEPT ![r].pc = "list", ![r].key = req[r].fresh]
     \/ UNCHANGED <<row, replaced>> /\ Goto(r, "discard")
  /\ UNCHANGED <<provider, late, strayed, nextKey, starts, confirmed, overlapped>>

DiscardKey(r) ==
  /\ req[r].pc = "discard"
  /\ LET e == Effect("delete", req[r].fresh) IN Confirm(e) \/ Refuse \/ GiveUp(e)
  /\ Done(r)
  /\ UNCHANGED <<row, nextKey, starts, history>>

(* retireOtherOpenAIKeys: every listed key but the handler's own; retiring *)
(* all of them, or ignoring a refusal, would be a bug.                     *)
ListAllKeys(r) ==
  /\ req[r].pc = "list"
  /\ \/ /\ provider.project = "active"
        /\ req' = [req EXCEPT ![r].pc = "retire", ![r].todo = provider.keys,
                              ![r].failed = req[r].key \notin provider.keys]
     \/ req' = [req EXCEPT ![r].pc = "settle", ![r].failed = TRUE]
  /\ UNCHANGED <<row, provider, late, strayed, nextKey, starts, history>>

ListKeys(r) ==
  /\ req[r].pc = "list"
  /\ \/ /\ provider.project = "active"
        /\ req' = [req EXCEPT ![r].pc = "retire",
                              ![r].todo = provider.keys \ {req[r].key},
                              ![r].failed = req[r].key \notin provider.keys]
     \/ req' = [req EXCEPT ![r].pc = "settle", ![r].failed = TRUE]
  /\ UNCHANGED <<row, provider, late, strayed, nextKey, starts, history>>

RetireIgnoringErrors(r, k) ==
  /\ req[r].pc = "retire" /\ k \in req[r].todo
  /\ LET e == Effect("delete", k) IN Confirm(e) \/ Refuse \/ GiveUp(e)
  /\ req' = [req EXCEPT ![r].todo = @ \ {k}]
  /\ UNCHANGED <<row, nextKey, starts, history>>

RetireKey(r, k) ==
  /\ req[r].pc = "retire" /\ k \in req[r].todo
  /\ LET e == Effect("delete", k)
     IN \/ Confirm(e) /\ req' = [req EXCEPT ![r].todo = @ \ {k}]
        \/ /\ Refuse \/ GiveUp(e)
           /\ req' = [req EXCEPT ![r].todo = @ \ {k}, ![r].failed = TRUE]
  /\ UNCHANGED <<row, nextKey, starts, history>>

(* SetPartyOpenAIKeyRotationStatus, if the handler's key is still the      *)
(* party's.                                                                *)
SettleRotation(r) ==
  /\ req[r].pc = "settle" \/ (req[r].pc = "retire" /\ req[r].todo = {})
  /\ row' = IF row.key = req[r].key /\ row.status \in Rotating
            THEN [row EXCEPT !.status = IF req[r].failed THEN "rotation-error"
                                                         ELSE "ready"]
            ELSE row
  /\ Done(r)
  /\ UNCHANGED <<provider, late, strayed, nextKey, starts, history>>

----------------------------------------------------------------------------
(* updatePartyOpenAISpendLimit.                                            *)

UpdateSpendLimit(r, c) ==
  /\ row.status \in Stored /\ row.project
  /\ \/ Resuming(row) /\ c = row.pending /\ Begin(r, "post", 0, c)
     \/ ~Resuming(row) /\ row.status = "ready" /\ Begin(r, "start", 0, c)
  /\ UNCHANGED <<row, provider, late, strayed, nextKey, replaced, confirmed>>

(* StartPartyOpenAISpendLimitUpdate; a conflict ends the request.          *)
CanStartUpdate ==
  row.status = "ready" /\ row.pending = 0 /\ row.spend \in {"ready", "unknown"}

StartUpdate(r) ==
  /\ req[r].pc = "start"
  /\ IF CanStartUpdate
     THEN /\ row' = [row EXCEPT !.pending = req[r].cents, !.spend = "updating",
                                !.status = "spend-updating"]
          /\ Goto(r, "post")
     ELSE UNCHANGED row /\ Done(r)
  /\ UNCHANGED <<provider, late, strayed, nextKey, starts, history>>

(* The provider's answer decides; taking none for consent would be a bug.  *)
PostIgnoringErrors(r) ==
  /\ req[r].pc = "post"
  /\ LET e == Effect("limit", req[r].cents)
     IN \/ Confirm(e) /\ confirmed' = confirmed \cup {req[r].cents}
        \/ (Refuse \/ GiveUp(e)) /\ UNCHANGED confirmed
  /\ Goto(r, "finish")
  /\ UNCHANGED <<row, nextKey, starts, replaced, overlapped>>

PostLimit(r) ==
  /\ req[r].pc = "post"
  /\ LET e == Effect("limit", req[r].cents)
     IN \/ Confirm(e) /\ Goto(r, "finish") /\ confirmed' = confirmed \cup {req[r].cents}
        \/ (Refuse \/ GiveUp(e)) /\ Goto(r, "post-error") /\ UNCHANGED confirmed
  /\ UNCHANGED <<row, nextKey, starts, replaced, overlapped>>

(* The update the handler works on is still the party's; not comparing the *)
(* amounts would be a bug.                                                 *)
AnyUpdate(r) ==
  row.spend \in {"updating", "update-error"} /\ row.status \in Spending

OwnUpdate(r) ==
  /\ row.pending = req[r].cents
  /\ row.spend \in {"updating", "update-error"} /\ row.status \in Spending

SetUpdateErrorSwapped(r) ==
  /\ req[r].pc = "post-error"
  /\ row' = IF OwnUpdate(r)
            THEN [row EXCEPT !.spend = "spend-update-error", !.status = "update-error"]
            ELSE row
  /\ Done(r)
  /\ UNCHANGED <<provider, late, strayed, nextKey, starts, history>>

SetUpdateError(r) ==
  /\ req[r].pc = "post-error"
  /\ row' = IF OwnUpdate(r)
            THEN [row EXCEPT !.spend = "update-error", !.status = "spend-update-error"]
            ELSE row
  /\ Done(r)
  /\ UNCHANGED <<provider, late, strayed, nextKey, starts, history>>

FinishUpdate(r) ==
  /\ req[r].pc = "finish"
  /\ row' = IF OwnUpdate(r)
            THEN [row EXCEPT !.limit = req[r].cents, !.pending = 0,
                             !.spend = "ready", !.status = "ready"]
            ELSE row
  /\ Done(r)
  /\ UNCHANGED <<provider, late, strayed, nextKey, starts, history>>

----------------------------------------------------------------------------
(* deleteParty: a project the party was read with is archived first.       *)

DeleteParty(r) ==
  /\ row.status \in Stored
  /\ Begin(r, IF row.project THEN "archive" ELSE "drop", 0, 0)
  /\ UNCHANGED <<row, provider, late, strayed, nextKey, replaced, confirmed>>

ArchiveProject(r) ==
  /\ req[r].pc = "archive"
  /\ LET e == Effect("archive", 0)
     IN \/ Confirm(e) /\ Goto(r, "drop")
        \/ (Refuse \/ GiveUp(e)) /\ Done(r)
  /\ UNCHANGED <<row, nextKey, starts, history>>

DropParty(r) ==
  /\ req[r].pc = "drop"
  /\ row' = [status |-> "deleted", project |-> FALSE, key |-> 0,
             limit |-> 0, pending |-> 0, spend |-> "unknown"]
  /\ Done(r)
  /\ UNCHANGED <<provider, late, strayed, nextKey, starts, history>>

----------------------------------------------------------------------------
Provisioning(r) ==
  \/ CreateParty(r) \/ ProvisionProject(r) \/ ProvisionLimit(r)
  \/ ProvisionAccount(r) \/ CleanupProject(r) \/ StoreProject(r) \/ StoreError(r)

Rotation(r) ==
  \/ RotateKey(r) \/ CreateKey(r) \/ InstallKey(r) \/ DiscardKey(r)
  \/ ListKeys(r) \/ (\E k \in req[r].todo : RetireKey(r, k)) \/ SettleRotation(r)

SpendLimit(r) ==
  \/ \E c \in Amount : UpdateSpendLimit(r, c)
  \/ StartUpdate(r) \/ PostLimit(r) \/ SetUpdateError(r) \/ FinishUpdate(r)

Deletion(r) == DeleteParty(r) \/ ArchiveProject(r) \/ DropParty(r)

Next ==
  \/ \E r \in Request : Provisioning(r) \/ Rotation(r) \/ SpendLimit(r)
                        \/ Deletion(r) \/ Stop(r)
  \/ \E e \in late : Land(e)

Spec == Init /\ [][Next]_vars

----------------------------------------------------------------------------
(* Properties.                                                             *)

Row == [status : Stored \cup {"none", "deleted"}, project : BOOLEAN,
        key : Nat, limit : Nat, pending : Nat,
        spend : {"unknown", "ready", "updating", "update-error"}]

Handler == [pc : Stage, key : Nat, fresh : Nat, cents : Nat,
            todo : SUBSET Nat, failed : BOOLEAN]

Effects == [op : {"project", "limit", "key", "delete", "archive"}, arg : Nat]

TypeOK ==
  /\ row \in Row
  /\ provider \in [project : {"none", "active", "archived"},
                   keys : SUBSET Nat, limit : Nat]
  /\ late \subseteq Effects
  /\ req \in [Request -> Handler]
  /\ nextKey \in Nat \ {0} /\ starts \in Nat
  /\ replaced \subseteq Nat /\ confirmed \subseteq Nat /\ overlapped \in BOOLEAN
  /\ strayed \subseteq Nat

(* A party paused by a rotation or by a spend limit update can always be   *)
(* resumed, and is never paused by both: whatever stopped in between, the  *)
(* host's retry finds the key, or the amount, it needs.                    *)
PausedIsResumable ==
  /\ row.status \in Rotating => row.project /\ row.key # 0 /\ ~Paused(row)
  /\ Paused(row) \/ row.pending # 0 => row.project /\ Resuming(row)

(* Once a party is ready again after a rotation, no key it ever replaced   *)
(* works any more, however many rotations ran side by side and whichever   *)
(* of their calls were lost.                                               *)
RetiredKeysStayDead ==
  row.status \in {"ready"} \cup Spending => replaced \cap provider.keys = {}

(* The limit shown as in force is one the provider has confirmed.          *)
LimitWasConfirmed == row.limit # 0 => row.limit \in confirmed

(* A pending amount is immutable: it becomes the limit, or goes with the   *)
(* party.                                                                  *)
PendingAmountIsFinal ==
  [][row.pending # 0 /\ row'.pending # row.pending =>
       row'.status = "deleted" \/ (row'.pending = 0 /\ row'.limit = row.pending)]_vars

(* The installed key of a ready party works, provided no two requests ever *)
(* overlapped: losing calls, stopping and retrying are safe.               *)
KeySurvivesRetries ==
  ~overlapped /\ row.status = "ready" /\ provider.project = "active"
    => row.key \in provider.keys

(* The limit a ready party shows is the provider's, provided no two        *)
(* requests ever overlapped, unless a call that was given up has taken     *)
(* effect late: crashes, refusals and retries alone never part the two.    *)
LimitSurvivesRetries ==
  ~overlapped /\ row.status = "ready"
    => provider.limit = row.limit \/ provider.limit \in strayed

(* ARCHITECTURE.md: the ready state returns only after the new key appears *)
(* in the provider's list; nothing the host does later takes it away.      *)
ReadyKeyIsLive ==
  row.status = "ready" /\ provider.project = "active" => row.key \in provider.keys

(* ARCHITECTURE.md: retrying posts the exact pending amount again and      *)
(* cannot race it with a different value, so a ready party's limit is the  *)
(* one the provider enforces.                                              *)
ReadyLimitIsEnforced ==
  row.status = "ready" /\ provider.project = "active" => provider.limit = row.limit

(* ARCHITECTURE.md: the party's project is archived before the party is    *)
(* deleted; with every handler finished, no project outlives its party.    *)
ProjectDiesWithItsParty ==
  row.status = "deleted" /\ (\A r \in Request : req[r].pc = "idle")
    => provider.project # "active"
=============================================================================
