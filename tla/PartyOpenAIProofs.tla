------------------------- MODULE PartyOpenAIProofs -------------------------
(***************************************************************************)
(* Proofs about PartyOpenAI, for any number of requests, retries, stops    *)
(* and calls given up.                                                     *)
(***************************************************************************)
EXTENDS PartyOpenAI, TLAPS

Provider == [project : {"none", "active", "archived"}, keys : SUBSET Nat,
             limit : Nat]

(* What a call may do to the provider, whether it was answered or given up. *)
LEMMA ApplyEffect ==
  ASSUME provider \in Provider, NEW e \in Effects
  PROVE  /\ Apply(e) \in Provider
         /\ e.op = "key" => Apply(e).keys \subseteq provider.keys \cup {e.arg}
         /\ e.op # "key" => Apply(e).keys \subseteq provider.keys
<1>1. CASE e.op = "project"
  BY <1>1 DEF Apply, Provider, Effects
<1>2. CASE e.op # "project" /\ provider.project # "active"
  BY <1>2 DEF Apply, Provider, Effects
<1>3. CASE provider.project = "active" /\ e.op = "limit"
  BY <1>3 DEF Apply, Provider, Effects
<1>4. CASE provider.project = "active" /\ e.op = "key"
  BY <1>4 DEF Apply, Provider, Effects
<1>5. CASE provider.project = "active" /\ e.op = "delete"
  BY <1>5 DEF Apply, Provider, Effects
<1>6. CASE provider.project = "active" /\ e.op = "archive"
  BY <1>6 DEF Apply, Provider, Effects
<1>7. QED
  BY <1>1, <1>2, <1>3, <1>4, <1>5, <1>6 DEF Effects

Answered(e) == Confirm(e) \/ Refuse \/ GiveUp(e)

LEMMA CallEffect ==
  ASSUME provider \in Provider, late \subseteq Effects,
         NEW e \in Effects, Answered(e)
  PROVE  /\ provider' \in Provider
         /\ late' \subseteq Effects
         /\ strayed \subseteq Nat => strayed' \subseteq Nat
         /\ late' \subseteq late \cup {e}
         /\ e.op = "key" => provider'.keys \subseteq provider.keys \cup {e.arg}
         /\ e.op # "key" => provider'.keys \subseteq provider.keys
<1>1. CASE Confirm(e)
  BY <1>1, ApplyEffect DEF Confirm
<1>2. CASE Refuse
  BY <1>2 DEF Refuse
<1>3. CASE GiveUp(e)
  BY <1>3 DEF GiveUp, Effects
<1>4. QED
  BY <1>1, <1>2, <1>3 DEF Answered

(* A confirmed deletion leaves no such key.                                *)
LEMMA DeleteEffect ==
  ASSUME provider \in Provider, NEW k \in Nat, Confirm(Effect("delete", k))
  PROVE  provider'.keys = provider.keys \ {k}
<1>1. provider.project = "active"
  BY DEF Confirm, Accepts, Effect
<1>2. Apply(Effect("delete", k)) = [provider EXCEPT !.keys = @ \ {k}]
  BY <1>1 DEF Apply, Effect
<1>3. QED
  BY <1>2 DEF Confirm, Provider

----------------------------------------------------------------------------
(* Types.                                                                  *)

LEMMA IdleType == Idle \in Handler
BY DEF Idle, Handler, Stage, Calling

LEMMA TypeInit == Init => TypeOK
<1> SUFFICES ASSUME Init PROVE TypeOK
  OBVIOUS
<1>1. row \in Row
  BY DEF Init, Row, Stored
<1>2. req \in [Request -> Handler]
  BY IdleType DEF Init
<1>3. provider \in Provider
  BY DEF Init, Provider
<1>4. /\ late \subseteq Effects /\ replaced \subseteq Nat /\ confirmed \subseteq Nat
      /\ strayed \subseteq Nat /\ nextKey \in Nat \ {0} /\ starts \in Nat
  BY DEF Init
<1>5. overlapped \in BOOLEAN
  BY Zenon DEF Init
<1>6. QED
  BY <1>1, <1>2, <1>3, <1>4, <1>5 DEF TypeOK, Provider

LEMMA TypeNext == TypeOK /\ [Next]_vars => TypeOK'
<1> SUFFICES ASSUME TypeOK, [Next]_vars PROVE TypeOK'
  OBVIOUS
<1> USE PartyOpenAIAssumption DEF PartyOpenAIAssumption
<1>p. provider \in Provider /\ late \subseteq Effects /\ strayed \subseteq Nat
  BY DEF TypeOK, Provider
<1>i. Idle \in Handler
  BY IdleType
<1>b. ASSUME NEW r \in Request, NEW pc \in Stage, NEW key \in Nat, NEW cents \in Nat,
             Begin(r, pc, key, cents)
      PROVE  /\ req' \in [Request -> Handler] /\ starts' \in Nat
             /\ overlapped' \in BOOLEAN
  <2>1. [Idle EXCEPT !.pc = pc, !.key = key, !.cents = cents] \in Handler
    BY <1>b DEF Idle, Handler
  <2>2. QED
    BY <1>b, <2>1 DEF Begin, TypeOK
<1>g. ASSUME NEW r \in Request, NEW pc \in Stage, Goto(r, pc)
      PROVE  req' \in [Request -> Handler]
  BY <1>g DEF Goto, TypeOK, Handler
<1>d. ASSUME NEW r \in Request, Done(r) PROVE req' \in [Request -> Handler]
  BY <1>d, <1>i DEF Done, TypeOK
<1>1. ASSUME NEW r \in Request, Provisioning(r) PROVE TypeOK'
  <2>1. CASE CreateParty(r)
    <3>1. row' \in Row
      BY <2>1 DEF CreateParty, TypeOK, Row, Stored
    <3>2. "project" \in Stage /\ DefaultAmount \in Nat
      BY DEF Stage, Calling
    <3>3. QED
      BY <2>1, <3>1, <3>2, <1>b DEF CreateParty, TypeOK
  <2>2. CASE ProvisionProject(r)
    <3>1. Effect("project", 0) \in Effects /\ Answered(Effect("project", 0))
      BY <2>2 DEF Effects, Effect, ProvisionProject, Answered
    <3>2. provider' \in Provider /\ late' \subseteq Effects /\ strayed' \subseteq Nat
      BY <3>1, <1>p, CallEffect
    <3>3. QED
      BY <2>2, <3>2 DEF ProvisionProject, Goto, TypeOK, Provider, Handler, Stage,
                        Calling, history
  <2>3. CASE ProvisionLimit(r)
    <3>1. /\ Effect("limit", DefaultAmount) \in Effects
          /\ Answered(Effect("limit", DefaultAmount))
      BY <2>3 DEF Effects, Effect, ProvisionLimit, Answered
    <3>2. provider' \in Provider /\ late' \subseteq Effects /\ strayed' \subseteq Nat
      BY <3>1, <1>p, CallEffect
    <3>3. QED
      BY <2>3, <3>2 DEF ProvisionLimit, Goto, TypeOK, Provider, Handler, Stage,
                        Calling
  <2>4. CASE ProvisionAccount(r)
    <3>1. Effect("key", nextKey) \in Effects /\ Answered(Effect("key", nextKey))
      BY <2>4 DEF Effects, Effect, ProvisionAccount, Answered, TypeOK
    <3>2. provider' \in Provider /\ late' \subseteq Effects /\ strayed' \subseteq Nat
      BY <3>1, <1>p, CallEffect
    <3>3. QED
      BY <2>4, <3>2 DEF ProvisionAccount, Goto, TypeOK, Provider, Handler, Stage,
                        Calling, history
  <2>5. CASE CleanupProject(r)
    <3>1. Effect("archive", 0) \in Effects /\ Answered(Effect("archive", 0))
      BY <2>5 DEF Effects, Effect, CleanupProject, Answered
    <3>2. provider' \in Provider /\ late' \subseteq Effects /\ strayed' \subseteq Nat
      BY <3>1, <1>p, CallEffect
    <3>3. QED
      BY <2>5, <3>2 DEF CleanupProject, Goto, TypeOK, Provider, Handler, Stage,
                        Calling, history
  <2>6. CASE StoreProject(r)
    <3>1. req[r].key \in Nat /\ DefaultAmount \in Nat
      BY DEF TypeOK, Handler
    <3>2. row' \in Row
      <4>1. CASE row' = row
        BY <4>1 DEF TypeOK
      <4>2. CASE row' # row
        <5>1. row' = [status |-> "ready", project |-> TRUE, key |-> req[r].key,
                      limit |-> DefaultAmount, pending |-> 0, spend |-> "ready"]
          BY <2>6, <4>2 DEF StoreProject
        <5>2. QED
          BY <5>1, <3>1 DEF Row, Stored
      <4>3. QED
        BY <4>1, <4>2
    <3>3. "store-error" \in Stage
      BY DEF Stage
    <3>4. QED
      BY <2>6, <3>2, <3>3, <1>g, <1>d DEF StoreProject, TypeOK, history
  <2>7. CASE StoreError(r)
    <3>1. row' \in Row
      BY <2>7 DEF StoreError, TypeOK, Row, Stored
    <3>2. QED
      BY <2>7, <3>1, <1>d DEF StoreError, TypeOK, history
  <2>8. QED
    BY <1>1, <2>1, <2>2, <2>3, <2>4, <2>5, <2>6, <2>7 DEF Provisioning
<1>2. ASSUME NEW r \in Request, Rotation(r) PROVE TypeOK'
  <2>1. CASE RotateKey(r)
    <3>1. {"newkey", "list"} \subseteq Stage /\ row.key \in Nat
      BY DEF Stage, Calling, TypeOK, Row
    <3>2. QED
      BY <2>1, <3>1, <1>b DEF RotateKey, TypeOK
  <2>2. CASE CreateKey(r)
    <3>1. Effect("key", nextKey) \in Effects /\ Answered(Effect("key", nextKey))
      BY <2>2 DEF Effects, Effect, CreateKey, Answered, TypeOK
    <3>2. provider' \in Provider /\ late' \subseteq Effects /\ strayed' \subseteq Nat
      BY <3>1, <1>p, CallEffect
    <3>3. QED
      BY <2>2, <3>2, <1>i DEF CreateKey, Done, TypeOK, Provider, Handler, Stage,
                        Calling, history
  <2>3. CASE InstallKey(r)
    <3>1. req' \in [Request -> Handler]
      BY <2>3 DEF InstallKey, Goto, TypeOK, Handler, Stage, Calling
    <3>2. row' \in Row /\ replaced' \subseteq Nat
      BY <2>3 DEF InstallKey, TypeOK, Row, Handler, Stored, Rotating
    <3>3. QED
      BY <2>3, <3>1, <3>2 DEF InstallKey, TypeOK
  <2>4. CASE DiscardKey(r)
    <3>1. /\ Effect("delete", req[r].fresh) \in Effects
          /\ Answered(Effect("delete", req[r].fresh))
      BY <2>4 DEF Effects, Effect, DiscardKey, Answered, TypeOK, Handler
    <3>2. provider' \in Provider /\ late' \subseteq Effects /\ strayed' \subseteq Nat
      BY <3>1, <1>p, CallEffect
    <3>3. QED
      BY <2>4, <3>2, <1>i DEF DiscardKey, Done, TypeOK, Provider, history
  <2>5. CASE ListKeys(r)
    <3>1. provider.keys \ {req[r].key} \subseteq Nat
      BY <1>p DEF Provider
    <3>2. req' \in [Request -> Handler]
      BY <2>5, <3>1 DEF ListKeys, TypeOK, Handler, Stage, Calling
    <3>3. QED
      BY <2>5, <3>2 DEF ListKeys, TypeOK, history
  <2>6. ASSUME NEW k \in req[r].todo, RetireKey(r, k) PROVE TypeOK'
    <3>1. Effect("delete", k) \in Effects /\ Answered(Effect("delete", k))
      BY <2>6 DEF Effects, Effect, RetireKey, Answered, TypeOK, Handler
    <3>2. provider' \in Provider /\ late' \subseteq Effects /\ strayed' \subseteq Nat
      BY <3>1, <1>p, CallEffect
    <3>3. QED
      BY <2>6, <3>2 DEF RetireKey, TypeOK, Provider, Handler, history
  <2>7. CASE SettleRotation(r)
    BY <2>7, <1>i DEF SettleRotation, Done, TypeOK, Row, Stored, Rotating, history
  <2>8. QED
    BY <1>2, <2>1, <2>2, <2>3, <2>4, <2>5, <2>6, <2>7 DEF Rotation
<1>3. ASSUME NEW r \in Request, SpendLimit(r) PROVE TypeOK'
  <2>1. ASSUME NEW c \in Amount, UpdateSpendLimit(r, c) PROVE TypeOK'
    <3>1. {"post", "start"} \subseteq Stage /\ c \in Nat
      BY DEF Stage, Calling
    <3>2. QED
      BY <2>1, <3>1, <1>b DEF UpdateSpendLimit, TypeOK
  <2>2. CASE StartUpdate(r)
    <3>1. row' \in Row
      <4>1. req[r].cents \in Nat
        BY DEF TypeOK, Handler
      <4>2. CASE row' = row
        BY <4>2 DEF TypeOK
      <4>3. CASE row' # row
        <5>1. row' = [row EXCEPT !.pending = req[r].cents, !.spend = "updating",
                                 !.status = "spend-updating"]
          BY <2>2, <4>3 DEF StartUpdate
        <5>2. row \in Row /\ "spend-updating" \in Stored
          BY DEF TypeOK, Stored, Spending
        <5> QED
          BY <4>1, <5>1, <5>2 DEF Row
      <4>4. QED
        BY <4>2, <4>3
    <3>2. "post" \in Stage
      BY DEF Stage, Calling
    <3>3. QED
      BY <2>2, <3>1, <3>2, <1>g, <1>d DEF StartUpdate, TypeOK, history
  <2>3. CASE PostLimit(r)
    <3>1. /\ Effect("limit", req[r].cents) \in Effects
          /\ Answered(Effect("limit", req[r].cents))
      BY <2>3 DEF Effects, Effect, PostLimit, Answered, TypeOK, Handler
    <3>2. provider' \in Provider /\ late' \subseteq Effects /\ strayed' \subseteq Nat
      BY <3>1, <1>p, CallEffect
    <3>3. QED
      BY <2>3, <3>2 DEF PostLimit, Goto, TypeOK, Provider, Handler, Stage, Calling
  <2>4. CASE SetUpdateError(r)
    BY <2>4, <1>i DEF SetUpdateError, Done, TypeOK, Row, Stored, Spending, history
  <2>5. CASE FinishUpdate(r)
    BY <2>5, <1>i DEF FinishUpdate, Done, TypeOK, Row, Stored, Handler, history
  <2>6. QED
    BY <1>3, <2>1, <2>2, <2>3, <2>4, <2>5 DEF SpendLimit
<1>4. ASSUME NEW r \in Request, Deletion(r) PROVE TypeOK'
  <2>1. CASE DeleteParty(r)
    <3>1. {"archive", "drop"} \subseteq Stage
      BY DEF Stage, Calling
    <3>2. QED
      BY <2>1, <3>1, <1>b DEF DeleteParty, TypeOK
  <2>2. CASE ArchiveProject(r)
    <3>1. Effect("archive", 0) \in Effects /\ Answered(Effect("archive", 0))
      BY <2>2 DEF Effects, Effect, ArchiveProject, Answered
    <3>2. provider' \in Provider /\ late' \subseteq Effects /\ strayed' \subseteq Nat
      BY <3>1, <1>p, CallEffect
    <3>3. QED
      BY <2>2, <3>2, <1>i DEF ArchiveProject, Goto, Done, TypeOK, Provider, Handler,
                        Stage, Calling, history
  <2>3. CASE DropParty(r)
    BY <2>3, <1>i DEF DropParty, Done, TypeOK, Row, history
  <2>4. QED
    BY <1>4, <2>1, <2>2, <2>3 DEF Deletion
<1>5. ASSUME NEW r \in Request, Stop(r) PROVE TypeOK'
  BY <1>5, <1>i DEF Stop, Done, TypeOK, history
<1>6. ASSUME NEW e \in late, Land(e) PROVE TypeOK'
  BY <1>6, <1>p, ApplyEffect DEF Land, TypeOK, Provider
<1>7. CASE UNCHANGED vars
  BY <1>7 DEF vars, TypeOK
<1>8. QED
  BY <1>1, <1>2, <1>3, <1>4, <1>5, <1>6, <1>7 DEF Next

(* Every variable keeps its type: in particular no status outside the      *)
(* enumerations of the code, and no half-written row.                      *)
THEOREM TypeCorrect == Spec => []TypeOK
BY TypeInit, TypeNext, PTL DEF Spec
----------------------------------------------------------------------------
(* The inductive invariant, part by part.                                  *)

Provision == {"project", "limit", "account", "cleanup", "store", "store-error"}

(* What the row may look like with a project and without one.              *)
RowShape ==
  /\ row.project => row.key # 0 /\ row.status \in {"ready"} \cup Spending \cup Rotating
  /\ ~row.project => /\ row.key = 0 /\ row.limit = 0 /\ row.pending = 0
                     /\ row.spend = "unknown"
                     /\ row.status \in {"none", "pending", "error", "deleted"}

(* What a handler knows at each stage.                                     *)
Knowing ==
  \A r \in Request :
    /\ req[r].pc \in {"start", "post", "finish", "post-error"} => req[r].cents # 0
    /\ req[r].pc = "finish" => req[r].cents \in confirmed
    /\ req[r].pc \in {"account", "store"} => DefaultAmount \in confirmed
    /\ req[r].pc = "store" => req[r].key # 0
    /\ req[r].pc = "settle" => req[r].failed

(* While the project is being created nobody else works on the party but   *)
(* to delete it, and no key has been replaced.                             *)
Provisional ==
  /\ row.status = "none" =>
       replaced = {} /\ \A r \in Request : req[r].pc = "idle"
  /\ \A r \in Request : req[r].pc \in Provision =>
       /\ row.status \in {"pending", "deleted"} /\ replaced = {}
       /\ \A q \in Request \ {r} : req[q].pc \in {"idle", "drop"}

Shape == RowShape /\ Knowing /\ Provisional /\ PausedIsResumable /\ LimitWasConfirmed

(* A key the handlers in R do not go by, the row does not hold, and no     *)
(* rotation has replaced.                                                  *)
Unclaimed(k, R) ==
  /\ k \in Nat /\ 0 < k /\ k < nextKey
  /\ k # row.key /\ k \notin replaced
  /\ \A q \in R : req[q].key # k /\ (req[q].pc = "install" => req[q].fresh # k)

(* Keys are issued once: one that is about to be installed, or about to be *)
(* created by a call given up, is nobody else's.                           *)
KeyNumbers ==
  /\ row.key < nextKey /\ row.key \notin replaced
  /\ \A k \in replaced : 0 < k /\ k < nextKey
  /\ \A r \in Request : req[r].key < nextKey
  /\ \A r \in Request : req[r].pc = "install" =>
       Unclaimed(req[r].fresh, Request \ {r})
  /\ \A e \in late : e.op = "key" => Unclaimed(e.arg, Request)

(* A rotation that has seen no failure still has every replaced key that   *)
(* works on its list.                                                      *)
Retiring ==
  \A r \in Request :
    req[r].pc = "retire" /\ ~req[r].failed /\ req[r].key = row.key
      /\ row.status \in Rotating
    => replaced \cap provider.keys \subseteq req[r].todo

Inv == TypeOK /\ Shape /\ KeyNumbers /\ Retiring /\ RetiredKeysStayDead

----------------------------------------------------------------------------
LEMMA InvInit == Init => Inv
<1> SUFFICES ASSUME Init PROVE Inv
  OBVIOUS
<1>1. TypeOK
  BY TypeInit
<1>2. \A r \in Request : req[r] = Idle
  BY DEF Init
<1>3. Shape
  BY <1>2 DEF Init, Shape, RowShape, Knowing, Provisional, PausedIsResumable,
              LimitWasConfirmed, Idle, Provision, Paused, Rotating, Spending
<1>4. KeyNumbers
  BY <1>2 DEF Init, KeyNumbers, Idle
<1>5. Retiring /\ RetiredKeysStayDead
  BY <1>2 DEF Init, Retiring, RetiredKeysStayDead, Idle
<1>6. QED
  BY <1>1, <1>3, <1>4, <1>5 DEF Inv

LEMMA ShapeNext == TypeOK /\ Shape /\ KeyNumbers /\ [Next]_vars => Shape'
<1> SUFFICES ASSUME TypeOK, Shape, KeyNumbers, [Next]_vars PROVE Shape'
  OBVIOUS
<1> USE PartyOpenAIAssumption DEF PartyOpenAIAssumption
<1> DEFINE Active == {"ready"} \cup Spending \cup Rotating
<1>t. /\ row \in Row /\ req \in [Request -> Handler]
      /\ \A c \in Amount : c \in Nat /\ c # 0
  BY DEF TypeOK
(* A step that leaves the row alone and moves one handler.                 *)
<1>m. ASSUME NEW r \in Request, UNCHANGED <<row, replaced>>,
             confirmed \subseteq confirmed',
             \A q \in Request \ {r} : req'[q] = req[q],
             row.status # "none" \/ req'[r].pc = "idle",
             req'[r].pc \in {"start", "post", "finish", "post-error"} => req'[r].cents # 0,
             req'[r].pc = "finish" => req'[r].cents \in confirmed',
             req'[r].pc \in {"account", "store"} => DefaultAmount \in confirmed',
             req'[r].pc = "store" => req'[r].key # 0,
             req'[r].pc = "settle" => req'[r].failed,
             req'[r].pc \in Provision => req[r].pc \in Provision,
             \/ req'[r].pc \in {"idle", "drop"}
             \/ row.project
             \/ req[r].pc \notin {"idle", "drop"}
      PROVE  Shape'
  <2>1. RowShape' /\ PausedIsResumable'
    BY <1>m DEF Shape, RowShape, PausedIsResumable, Paused, Resuming
  <2>2. Knowing' /\ LimitWasConfirmed'
    BY <1>m DEF Shape, Knowing, LimitWasConfirmed
  <2>3. Provisional'
    <3>1. row'.status = "none" =>
            replaced' = {} /\ \A q \in Request : req'[q].pc = "idle"
      BY <1>m DEF Shape, Provisional
    <3>2. ASSUME NEW q \in Request, req'[q].pc \in Provision
          PROVE  /\ row'.status \in {"pending", "deleted"} /\ replaced' = {}
                 /\ \A p \in Request \ {q} : req'[p].pc \in {"idle", "drop"}
      <4>1. req[q].pc \in Provision
        BY <1>m, <3>2
      <4>2. /\ row.status \in {"pending", "deleted"} /\ replaced = {}
            /\ \A p \in Request \ {q} : req[p].pc \in {"idle", "drop"}
        BY <4>1 DEF Shape, Provisional
      <4>3. ~row.project
        BY <4>2 DEF Shape, RowShape, Spending, Rotating
      <4>4. q # r => req[r].pc \notin Provision
        BY <4>2 DEF Provision
      <4>5. QED
        BY <1>m, <4>2, <4>3, <4>4
    <3>3. QED
      BY <3>1, <3>2 DEF Provisional
  <2>4. QED
    BY <2>1, <2>2, <2>3 DEF Shape
<1>n. ASSUME NEW r \in Request, req[r].pc # "idle" PROVE row.status # "none"
  BY <1>n DEF Shape, Provisional
<1>d. ASSUME NEW r \in Request, Done(r)
      PROVE  req'[r].pc = "idle" /\ \A q \in Request \ {r} : req'[q] = req[q]
  BY <1>d, <1>t DEF Done, Idle
<1>g. ASSUME NEW r \in Request, NEW pc, Goto(r, pc)
      PROVE  /\ req'[r].pc = pc /\ req'[r].cents = req[r].cents
             /\ req'[r].key = req[r].key /\ req'[r].failed = req[r].failed
             /\ \A q \in Request \ {r} : req'[q] = req[q]
  BY <1>g, <1>t DEF Goto, Handler
<1>b. ASSUME NEW r \in Request, NEW pc, NEW key, NEW cents, Begin(r, pc, key, cents)
      PROVE  /\ req'[r].pc = pc /\ req'[r].cents = cents
             /\ \A q \in Request \ {r} : req'[q] = req[q]
  BY <1>b, <1>t DEF Begin, Idle, Handler
<1> HIDE DEF Active
(* Provisioning. *)
<1>1. ASSUME NEW r \in Request, CreateParty(r) PROVE Shape'
  <2>1. /\ row.status = "none" /\ row' = [row EXCEPT !.status = "pending"]
        /\ req'[r].pc = "project" /\ replaced' = replaced /\ confirmed' = confirmed
        /\ \A q \in Request \ {r} : req'[q] = req[q]
    BY <1>1, <1>b DEF CreateParty
  <2>2. replaced = {} /\ \A q \in Request : req[q].pc = "idle"
    BY <2>1 DEF Shape, Provisional
  <2>3. ~row.project
    BY <2>1 DEF Shape, RowShape, Spending, Rotating
  <2>4. /\ row'.status = "pending" /\ row'.project = row.project /\ row'.key = row.key
        /\ row'.limit = row.limit /\ row'.pending = row.pending /\ row'.spend = row.spend
    BY <2>1, <1>t DEF Row
  <2>5. RowShape' /\ PausedIsResumable' /\ LimitWasConfirmed'
    BY <2>3, <2>4 DEF Shape, RowShape, PausedIsResumable, LimitWasConfirmed, Paused,
                      Resuming, Spending, Rotating
  <2>6. \A q \in Request \ {r} : req'[q].pc = "idle"
    BY <2>1, <2>2
  <2>7. Knowing' /\ Provisional'
    BY <2>1, <2>2, <2>4, <2>6 DEF Knowing, Provisional, Provision
  <2>8. QED
    BY <2>5, <2>7 DEF Shape
<1>2. ASSUME NEW r \in Request,
             \/ ProvisionProject(r) \/ ProvisionLimit(r) \/ ProvisionAccount(r)
             \/ CleanupProject(r)
      PROVE  Shape'
  <2>1. UNCHANGED <<row, replaced>> /\ confirmed \subseteq confirmed'
    BY <1>2 DEF ProvisionProject, ProvisionLimit, ProvisionAccount, CleanupProject,
                history
  <2>2. CASE ProvisionProject(r)
    BY <2>1, <2>2, <1>m, <1>n, <1>g DEF ProvisionProject, Provision
  <2>3. CASE ProvisionLimit(r)
    BY <2>1, <2>3, <1>m, <1>n, <1>g DEF ProvisionLimit, Provision
  <2>4. CASE ProvisionAccount(r)
    <3>1. DefaultAmount \in confirmed'
      BY <2>1, <2>4 DEF ProvisionAccount, Shape, Knowing
    <3>2. CASE Goto(r, "cleanup")
      BY <2>1, <2>4, <3>2, <1>m, <1>n, <1>g DEF ProvisionAccount, Provision
    <3>3. CASE req' = [req EXCEPT ![r].pc = "store", ![r].key = nextKey]
      <4>1. /\ req'[r].pc = "store" /\ req'[r].key = nextKey /\ nextKey # 0
            /\ \A q \in Request \ {r} : req'[q] = req[q]
        BY <3>3, <1>t DEF Handler, TypeOK
      <4>2. QED
        BY <2>1, <2>4, <3>1, <4>1, <1>m, <1>n DEF ProvisionAccount, Provision
    <3>4. QED
      BY <2>4, <3>2, <3>3 DEF ProvisionAccount
  <2>5. CASE CleanupProject(r)
    BY <2>1, <2>5, <1>m, <1>n, <1>g DEF CleanupProject, Provision
  <2>6. QED
    BY <1>2, <2>2, <2>3, <2>4, <2>5
<1>3. ASSUME NEW r \in Request, StoreProject(r) \/ StoreError(r) PROVE Shape'
  <2>1. /\ req[r].pc \in Provision /\ replaced = {}
        /\ \A q \in Request \ {r} : req[q].pc \in {"idle", "drop"}
        /\ row.status \in {"pending", "deleted"}
        /\ UNCHANGED <<replaced, confirmed>>
    BY <1>3 DEF StoreProject, StoreError, Shape, Provisional, Provision, history
  <2>2. CASE UNCHANGED row /\ (Done(r) \/ Goto(r, "store-error"))
    BY <1>3, <2>1, <2>2, <1>m, <1>d, <1>g, <1>n DEF Provision
  <2>3. CASE Done(r)
    <3>1. /\ req'[r].pc = "idle"
          /\ \A q \in Request \ {r} : req'[q] = req[q] /\ req'[q].pc \in {"idle", "drop"}
      BY <2>1, <2>3, <1>d
    <3>2. Knowing'
      BY <3>1 DEF Knowing
    <3>3. CASE StoreProject(r) /\ row' # row
      <4>1. row' = [status |-> "ready", project |-> TRUE, key |-> req[r].key,
                    limit |-> DefaultAmount, pending |-> 0, spend |-> "ready"]
        BY <3>3 DEF StoreProject
      <4>2. req[r].key # 0 /\ DefaultAmount \in confirmed
        BY <3>3 DEF StoreProject, Shape, Knowing
      <4>3. RowShape' /\ PausedIsResumable' /\ LimitWasConfirmed'
        BY <2>1, <4>1, <4>2 DEF RowShape, PausedIsResumable, LimitWasConfirmed, Paused,
                          Resuming, Spending, Rotating
      <4>4. Provisional'
        BY <4>1, <3>1 DEF Provisional, Provision
      <4>5. QED
        BY <4>3, <4>4, <3>2 DEF Shape
    <3>4. CASE StoreError(r) /\ row' # row
      <4>1. row' = [status |-> "error", project |-> FALSE, key |-> 0,
                    limit |-> 0, pending |-> 0, spend |-> "unknown"]
        BY <3>4 DEF StoreError
      <4>2. RowShape' /\ PausedIsResumable' /\ LimitWasConfirmed'
        BY <4>1 DEF RowShape, PausedIsResumable, LimitWasConfirmed, Paused,
                    Resuming, Spending, Rotating
      <4>3. Provisional'
        BY <4>1, <3>1 DEF Provisional, Provision
      <4>4. QED
        BY <4>2, <4>3, <3>2 DEF Shape
    <3>5. QED
      BY <1>3, <2>2, <2>3, <3>3, <3>4
  <2>4. QED
    BY <1>3, <2>2, <2>3 DEF StoreProject, StoreError
(* Rotation, spend limit, deletion: steps that leave the row alone. *)
<1>4. ASSUME NEW r \in Request, NEW c \in Amount,
             \/ RotateKey(r) \/ UpdateSpendLimit(r, c) \/ DeleteParty(r)
      PROVE  Shape'
  <2>1. UNCHANGED <<row, replaced, confirmed>> /\ row.status # "none"
    BY <1>4 DEF RotateKey, UpdateSpendLimit, DeleteParty, Stored, Spending, Rotating
  <2>2. CASE RotateKey(r)
    BY <2>1, <2>2, <1>m, <1>b DEF RotateKey, Provision
  <2>3. CASE UpdateSpendLimit(r, c)
    BY <2>1, <2>3, <1>m, <1>b, <1>t DEF UpdateSpendLimit, Provision
  <2>4. CASE DeleteParty(r)
    BY <2>1, <2>4, <1>m, <1>b DEF DeleteParty, Provision
  <2>5. QED
    BY <1>4, <2>2, <2>3, <2>4
<1>5. ASSUME NEW r \in Request, NEW k,
             \/ CreateKey(r) \/ DiscardKey(r) \/ ListKeys(r) \/ RetireKey(r, k)
             \/ PostLimit(r) \/ ArchiveProject(r) \/ Stop(r)
      PROVE  Shape'
  <2>1. UNCHANGED <<row, replaced>> /\ confirmed \subseteq confirmed'
    BY <1>5 DEF CreateKey, DiscardKey, ListKeys, RetireKey, PostLimit, ArchiveProject,
                Stop, history
  <2>2. CASE Done(r)
    BY <2>1, <2>2, <1>m, <1>d DEF Provision
  <2>3. CASE CreateKey(r)
    <3>1. CASE req' = [req EXCEPT ![r].pc = "install", ![r].fresh = nextKey]
      <4>1. req'[r].pc = "install" /\ \A q \in Request \ {r} : req'[q] = req[q]
        BY <3>1, <1>t DEF Handler
      <4>2. QED
        BY <2>1, <2>3, <4>1, <1>m, <1>n DEF CreateKey, Provision
    <3>2. QED
      BY <2>2, <2>3, <3>1 DEF CreateKey
  <2>4. CASE ListKeys(r)
    <3>1. /\ req'[r].pc = "retire" \/ (req'[r].pc = "settle" /\ req'[r].failed)
          /\ \A q \in Request \ {r} : req'[q] = req[q]
      BY <2>4, <1>t DEF ListKeys, Handler
    <3>2. QED
      BY <2>1, <2>4, <3>1, <1>m, <1>n DEF ListKeys, Provision
  <2>5. CASE RetireKey(r, k)
    <3>1. req'[r].pc = "retire" /\ \A q \in Request \ {r} : req'[q] = req[q]
      BY <2>5, <1>t DEF RetireKey, Handler
    <3>2. QED
      BY <2>1, <2>5, <3>1, <1>m, <1>n DEF RetireKey, Provision
  <2>6. CASE PostLimit(r)
    <3>1. req[r].cents # 0
      BY <2>6 DEF PostLimit, Shape, Knowing
    <3>2. QED
      BY <2>1, <2>6, <3>1, <1>m, <1>n, <1>g DEF PostLimit, Provision
  <2>7. CASE ArchiveProject(r)
    BY <2>1, <2>2, <2>7, <1>m, <1>n, <1>g DEF ArchiveProject, Provision
  <2>8. QED
    BY <1>5, <2>2, <2>3, <2>4, <2>5, <2>6, <2>7 DEF DiscardKey, Stop
<1>6. ASSUME NEW e \in late, Land(e) PROVE Shape'
  BY <1>6 DEF Land, Shape, RowShape, Knowing, Provisional, PausedIsResumable,
              LimitWasConfirmed, Paused, Resuming
(* Steps of a handler on the row of a party with a project. *)
<1>w. ASSUME NEW r \in Request, row.project, row'.status # "none",
             UNCHANGED confirmed, \A q \in Request \ {r} : req'[q] = req[q],
             req'[r].pc \in {"idle", "list", "post"},
             req'[r].pc = "post" => req'[r].cents # 0
      PROVE  Knowing' /\ Provisional'
  <2>1. \A q \in Request : req[q].pc \notin Provision
    BY <1>w DEF Shape, RowShape, Provisional, Spending, Rotating
  <2>2. \A q \in Request : req'[q].pc \notin Provision
    BY <1>w, <2>1 DEF Provision
  <2>3. Knowing'
    BY <1>w DEF Shape, Knowing
  <2>4. QED
    BY <1>w, <2>2, <2>3 DEF Provisional
<1>7. ASSUME NEW r \in Request, InstallKey(r) PROVE Shape'
  <2>1. CASE UNCHANGED row /\ UNCHANGED replaced /\ Goto(r, "discard")
    BY <1>7, <2>1, <1>m, <1>g, <1>n DEF InstallKey, Provision
  <2>2. CASE /\ CanInstall(r)
             /\ row' = [row EXCEPT !.key = req[r].fresh, !.status = "rotating"]
             /\ req' = [req EXCEPT ![r].pc = "list", ![r].key = req[r].fresh]
    <3>1. /\ row.project /\ row.status = "ready" /\ UNCHANGED confirmed
          /\ req'[r].pc = "list" /\ \A q \in Request \ {r} : req'[q] = req[q]
      BY <1>7, <2>2, <1>t DEF InstallKey, CanInstall, Handler
    <3>2. /\ row'.status = "rotating" /\ row'.project /\ row'.key = req[r].fresh
          /\ row'.limit = row.limit /\ row'.pending = row.pending /\ row'.spend = row.spend
      BY <2>2, <3>1, <1>t DEF Row
    <3>3. ~Paused(row) /\ row.pending = 0
      BY <3>1 DEF Shape, PausedIsResumable, Resuming, Spending
    <3>4. row'.key # 0
      BY <1>7, <3>2 DEF InstallKey, KeyNumbers, Unclaimed
    <3>5. RowShape' /\ PausedIsResumable' /\ LimitWasConfirmed'
      BY <1>7, <3>1, <3>2, <3>3, <3>4 DEF InstallKey, Shape, RowShape, PausedIsResumable,
                  LimitWasConfirmed, Paused, Resuming, Spending, Rotating
    <3>6. QED
      BY <3>1, <3>2, <3>5, <1>w DEF Shape
  <2>3. QED
    BY <1>7, <2>1, <2>2 DEF InstallKey
<1>8. ASSUME NEW r \in Request,
             SettleRotation(r) \/ SetUpdateError(r) \/ FinishUpdate(r)
      PROVE  Shape'
  <2>1. UNCHANGED <<replaced, confirmed>> /\ Done(r) /\ req[r].pc # "idle"
    BY <1>8 DEF SettleRotation, SetUpdateError, FinishUpdate, history
  <2>2. CASE UNCHANGED row
    BY <2>1, <2>2, <1>m, <1>d, <1>n DEF Provision
  <2>3. CASE row' # row
    <3>1. row.status \in Spending \cup Rotating /\ row.project
      BY <1>8, <2>3 DEF SettleRotation, SetUpdateError, FinishUpdate, OwnUpdate, Shape,
                        RowShape, Spending, Rotating
    <3>2. CASE SettleRotation(r)
      <4>1. /\ row.status \in Rotating /\ row'.status \in {"ready", "rotation-error"}
            /\ row'.project /\ row'.key = row.key /\ row'.limit = row.limit
            /\ row'.pending = row.pending /\ row'.spend = row.spend
        BY <2>3, <3>1, <3>2, <1>t DEF SettleRotation, Row
      <4>2. RowShape' /\ PausedIsResumable' /\ LimitWasConfirmed'
        BY <2>1, <4>1 DEF Shape, RowShape, PausedIsResumable, LimitWasConfirmed,
                          Paused, Resuming, Spending, Rotating
      <4>3. QED
        BY <2>1, <3>1, <4>1, <4>2, <1>w, <1>d DEF Shape
    <3>3. CASE SetUpdateError(r)
      <4>1. /\ row.status \in Spending /\ row'.status = "spend-update-error"
            /\ row'.project /\ row'.key = row.key /\ row'.limit = row.limit
            /\ row'.pending = row.pending /\ row'.spend = "update-error"
        BY <2>3, <3>1, <3>3, <1>t DEF SetUpdateError, OwnUpdate, Row
      <4>2. RowShape' /\ PausedIsResumable' /\ LimitWasConfirmed'
        BY <2>1, <4>1, <1>t DEF Shape, RowShape, PausedIsResumable, LimitWasConfirmed,
                          Paused, Resuming, Spending, Rotating, Row
      <4>3. QED
        BY <2>1, <3>1, <4>1, <4>2, <1>w, <1>d DEF Shape
    <3>4. CASE FinishUpdate(r)
      <4>1. /\ row.status \in Spending /\ row'.status = "ready"
            /\ row'.project /\ row'.key = row.key /\ row'.limit = req[r].cents
            /\ row'.pending = 0 /\ row'.spend = "ready"
        BY <2>3, <3>1, <3>4, <1>t DEF FinishUpdate, OwnUpdate, Row
      <4>2. req[r].cents \in confirmed
        BY <3>4 DEF FinishUpdate, Shape, Knowing
      <4>3. RowShape' /\ PausedIsResumable' /\ LimitWasConfirmed'
        BY <2>1, <4>1, <4>2 DEF Shape, RowShape, PausedIsResumable, LimitWasConfirmed,
                          Paused, Resuming, Spending, Rotating
      <4>4. QED
        BY <2>1, <3>1, <4>1, <4>3, <1>w, <1>d DEF Shape
    <3>5. QED
      BY <1>8, <3>2, <3>3, <3>4
  <2>4. QED
    BY <2>2, <2>3
<1>9. ASSUME NEW r \in Request, StartUpdate(r) PROVE Shape'
  <2>1. UNCHANGED <<replaced, confirmed>> /\ req[r].pc # "idle"
    BY <1>9 DEF StartUpdate, history
  <2>2. CASE ~CanStartUpdate
    BY <1>9, <2>1, <2>2, <1>m, <1>d, <1>n DEF StartUpdate, Provision
  <2>3. CASE CanStartUpdate
    <3>1. /\ row.project /\ row.status = "ready"
          /\ req'[r].pc = "post" /\ req'[r].cents = req[r].cents
          /\ \A q \in Request \ {r} : req'[q] = req[q]
      BY <1>9, <2>3, <1>g DEF StartUpdate, CanStartUpdate, Shape, RowShape
    <3>2. req[r].cents # 0 /\ req[r].cents \in Nat
      BY <1>9, <1>t DEF StartUpdate, Shape, Knowing, Handler
    <3>3. /\ row'.status = "spend-updating" /\ row'.project /\ row'.key = row.key
          /\ row'.limit = row.limit /\ row'.pending = req[r].cents
          /\ row'.spend = "updating"
      BY <1>9, <2>3, <3>1, <1>t DEF StartUpdate, Row
    <3>4. RowShape' /\ PausedIsResumable' /\ LimitWasConfirmed'
      BY <2>1, <3>1, <3>2, <3>3 DEF Shape, RowShape, PausedIsResumable,
                  LimitWasConfirmed, Paused, Resuming, Spending, Rotating
    <3>5. QED
      BY <2>1, <3>1, <3>2, <3>3, <3>4, <1>w DEF Shape
  <2>4. QED
    BY <2>2, <2>3
<1>10. ASSUME NEW r \in Request, DropParty(r) PROVE Shape'
  <2>1. /\ UNCHANGED <<replaced, confirmed>> /\ row.status # "none" /\ req[r].pc = "drop"
        /\ row' = [status |-> "deleted", project |-> FALSE, key |-> 0,
                   limit |-> 0, pending |-> 0, spend |-> "unknown"]
        /\ req'[r].pc = "idle" /\ \A q \in Request \ {r} : req'[q] = req[q]
    BY <1>10, <1>d, <1>n DEF DropParty, history
  <2>2. RowShape' /\ PausedIsResumable' /\ LimitWasConfirmed'
    BY <2>1 DEF RowShape, PausedIsResumable, LimitWasConfirmed, Paused, Resuming,
                Spending, Rotating
  <2>3. Knowing' /\ Provisional'
    BY <2>1 DEF Shape, Knowing, Provisional, Provision
  <2>4. QED
    BY <2>2, <2>3 DEF Shape
<1>11. CASE UNCHANGED vars
  BY <1>11 DEF vars, Shape, RowShape, Knowing, Provisional, PausedIsResumable,
               LimitWasConfirmed, Paused, Resuming
<1>12. ASSUME NEW r \in Request, Provisioning(r) PROVE Shape'
  BY <1>12, <1>1, <1>2, <1>3 DEF Provisioning
<1>13. ASSUME NEW r \in Request, Rotation(r) PROVE Shape'
  BY <1>13, <1>4, <1>5, <1>7, <1>8 DEF Rotation
<1>14. ASSUME NEW r \in Request, SpendLimit(r) PROVE Shape'
  BY <1>14, <1>4, <1>5, <1>8, <1>9 DEF SpendLimit
<1>15. ASSUME NEW r \in Request, Deletion(r) PROVE Shape'
  BY <1>15, <1>4, <1>5, <1>10 DEF Deletion
<1>16. QED
  BY <1>5, <1>6, <1>11, <1>12, <1>13, <1>14, <1>15 DEF Next
----------------------------------------------------------------------------
(* Key numbers.                                                            *)

(* A step of r that neither creates, installs nor stores a key.            *)
Plain(r) ==
  /\ \A q \in Request \ {r} : req'[q] = req[q]
  /\ req'[r].key \in {0, row.key, req[r].key} /\ req'[r].pc # "install"
  /\ UNCHANGED <<replaced, nextKey>>
  /\ row'.key \in {row.key, 0}
  /\ \A e \in late' : e.op = "key" => e \in late
  /\ provider'.keys \subseteq provider.keys

LEMMA PlainStep ==
  ASSUME TypeOK, Shape, NEW r \in Request, NEW c, NEW k,
         \/ CreateParty(r) \/ ProvisionProject(r) \/ ProvisionLimit(r)
         \/ CleanupProject(r) \/ StoreError(r) \/ RotateKey(r) \/ DiscardKey(r)
         \/ ListKeys(r) \/ RetireKey(r, k) \/ SettleRotation(r)
         \/ (c \in Amount /\ UpdateSpendLimit(r, c)) \/ StartUpdate(r) \/ PostLimit(r)
         \/ SetUpdateError(r) \/ FinishUpdate(r) \/ DeleteParty(r)
         \/ ArchiveProject(r) \/ DropParty(r) \/ Stop(r)
  PROVE  Plain(r)
<1> USE PartyOpenAIAssumption DEF PartyOpenAIAssumption
<1>t. row \in Row /\ req \in [Request -> Handler]
  BY DEF TypeOK
<1>p. provider \in Provider /\ late \subseteq Effects
  BY DEF TypeOK, Provider
<1>d. ASSUME Done(r)
      PROVE  /\ req'[r].pc = "idle" /\ req'[r].key = 0
             /\ \A q \in Request \ {r} : req'[q] = req[q]
  BY <1>d, <1>t DEF Done, Idle
<1>g. ASSUME NEW pc, Goto(r, pc)
      PROVE  /\ req'[r].pc = pc /\ req'[r].key = req[r].key
             /\ \A q \in Request \ {r} : req'[q] = req[q]
  BY <1>g, <1>t DEF Goto, Handler
<1>b. ASSUME NEW pc, NEW key, NEW cents, Begin(r, pc, key, cents)
      PROVE  /\ req'[r].pc = pc /\ req'[r].key = key
             /\ \A q \in Request \ {r} : req'[q] = req[q]
  BY <1>b, <1>t DEF Begin, Idle, Handler
<1>a. ASSUME NEW e \in Effects, e.op # "key", Answered(e)
      PROVE  /\ \A x \in late' : x.op = "key" => x \in late
             /\ provider'.keys \subseteq provider.keys
  BY <1>a, <1>p, CallEffect
<1>1. CASE CreateParty(r)
  BY <1>1, <1>b, <1>t DEF CreateParty, Plain, Row
<1>2. CASE ProvisionProject(r)
  <2>1. Effect("project", 0) \in Effects /\ Answered(Effect("project", 0))
    BY <1>2 DEF Effects, Effect, ProvisionProject, Answered
  <2>2. QED
    BY <1>2, <2>1, <1>a, <1>g DEF ProvisionProject, Effect, Plain, history
<1>3. CASE ProvisionLimit(r)
  <2>1. /\ Effect("limit", DefaultAmount) \in Effects
        /\ Answered(Effect("limit", DefaultAmount))
    BY <1>3 DEF Effects, Effect, ProvisionLimit, Answered
  <2>2. QED
    BY <1>3, <2>1, <1>a, <1>g DEF ProvisionLimit, Effect, Plain
<1>4. CASE CleanupProject(r)
  <2>1. Effect("archive", 0) \in Effects /\ Answered(Effect("archive", 0))
    BY <1>4 DEF Effects, Effect, CleanupProject, Answered
  <2>2. QED
    BY <1>4, <2>1, <1>a, <1>g DEF CleanupProject, Effect, Plain, history
<1>5. CASE StoreError(r)
  BY <1>5, <1>d DEF StoreError, Plain, history
<1>6. CASE RotateKey(r)
  BY <1>6, <1>b DEF RotateKey, Plain
<1>7. CASE DiscardKey(r)
  <2>1. /\ Effect("delete", req[r].fresh) \in Effects
        /\ Answered(Effect("delete", req[r].fresh))
    BY <1>7, <1>t DEF Effects, Effect, DiscardKey, Answered, Handler
  <2>2. QED
    BY <1>7, <2>1, <1>a, <1>d DEF DiscardKey, Effect, Plain, history
<1>8. CASE ListKeys(r)
  <2>1. /\ req'[r].pc \in {"retire", "settle"} /\ req'[r].key = req[r].key
        /\ \A q \in Request \ {r} : req'[q] = req[q]
    BY <1>8, <1>t DEF ListKeys, Handler
  <2>2. QED
    BY <1>8, <2>1 DEF ListKeys, Plain, history
<1>9. CASE RetireKey(r, k)
  <2>1. Effect("delete", k) \in Effects /\ Answered(Effect("delete", k))
    BY <1>9, <1>t DEF Effects, Effect, RetireKey, Answered, Handler
  <2>2. /\ req'[r].pc = "retire" /\ req'[r].key = req[r].key
        /\ \A q \in Request \ {r} : req'[q] = req[q]
    BY <1>9, <1>t DEF RetireKey, Handler
  <2>3. QED
    BY <1>9, <2>1, <2>2, <1>a DEF RetireKey, Effect, Plain, history
<1>10. CASE SettleRotation(r) \/ SetUpdateError(r) \/ FinishUpdate(r)
  <2>1. row'.key = row.key
    BY <1>10, <1>t DEF SettleRotation, SetUpdateError, FinishUpdate, Row
  <2>2. QED
    BY <1>10, <2>1, <1>d DEF SettleRotation, SetUpdateError, FinishUpdate, Plain, history
<1>11. CASE c \in Amount /\ UpdateSpendLimit(r, c)
  BY <1>11, <1>b DEF UpdateSpendLimit, Plain
<1>12. CASE StartUpdate(r)
  <2>1. row'.key = row.key
    BY <1>12, <1>t DEF StartUpdate, Row
  <2>2. QED
    BY <1>12, <2>1, <1>d, <1>g DEF StartUpdate, Plain, history
<1>13. CASE PostLimit(r)
  <2>1. /\ Effect("limit", req[r].cents) \in Effects
        /\ Answered(Effect("limit", req[r].cents))
    BY <1>13, <1>t DEF Effects, Effect, PostLimit, Answered, Handler
  <2>2. QED
    BY <1>13, <2>1, <1>a, <1>g DEF PostLimit, Effect, Plain
<1>14. CASE DeleteParty(r)
  BY <1>14, <1>b DEF DeleteParty, Plain
<1>15. CASE ArchiveProject(r)
  <2>1. Effect("archive", 0) \in Effects /\ Answered(Effect("archive", 0))
    BY <1>15 DEF Effects, Effect, ArchiveProject, Answered
  <2>2. QED
    BY <1>15, <2>1, <1>a, <1>g, <1>d DEF ArchiveProject, Effect, Plain, history
<1>16. CASE DropParty(r)
  BY <1>16, <1>d DEF DropParty, Plain, history
<1>17. CASE Stop(r)
  BY <1>17, <1>d DEF Stop, Plain, history
<1>18. QED
  BY <1>1, <1>2, <1>3, <1>4, <1>5, <1>6, <1>7, <1>8, <1>9, <1>10, <1>11, <1>12,
     <1>13, <1>14, <1>15, <1>16, <1>17

(* A step that creates a key: the key is the next one, and either its      *)
(* creator has it or its creation is still on its way.                     *)
LEMMA CreateStep ==
  ASSUME TypeOK, NEW r \in Request, ProvisionAccount(r) \/ CreateKey(r)
  PROVE  /\ UNCHANGED <<row, replaced>>
         /\ \A q \in Request \ {r} : req'[q] = req[q]
         /\ provider'.keys \subseteq provider.keys \cup {nextKey}
         /\ \/ /\ req'[r].pc = "install" /\ req'[r].fresh = nextKey
               /\ req'[r].key = req[r].key
               /\ nextKey' = nextKey + 1 /\ late' = late
            \/ /\ req'[r].pc = "store" /\ req'[r].key = nextKey
               /\ nextKey' = nextKey + 1 /\ late' = late
            \/ /\ req'[r].pc \in {"idle", "cleanup"} /\ req'[r].key \in {0, req[r].key}
               /\ nextKey' = nextKey + 1 /\ late' \subseteq late \cup {Effect("key", nextKey)}
            \/ /\ req'[r].pc \in {"idle", "cleanup"} /\ req'[r].key \in {0, req[r].key}
               /\ nextKey' = nextKey /\ late' = late
<1>t. /\ row \in Row /\ req \in [Request -> Handler] /\ nextKey \in Nat
      /\ provider \in Provider /\ late \subseteq Effects
  BY DEF TypeOK, Provider
<1>1. Effect("key", nextKey) \in Effects /\ Answered(Effect("key", nextKey))
  BY <1>t DEF Effects, Effect, ProvisionAccount, CreateKey, Answered
<1>2. provider'.keys \subseteq provider.keys \cup {nextKey}
  BY <1>1, <1>t, CallEffect DEF Effect
<1>3. CASE ProvisionAccount(r)
  BY <1>2, <1>3, <1>t DEF ProvisionAccount, Confirm, Refuse, GiveUp, Goto, Handler, history
<1>4. CASE CreateKey(r)
  BY <1>2, <1>4, <1>t DEF CreateKey, Confirm, Refuse, GiveUp, Done, Idle, Handler, history
<1>5. QED
  BY <1>3, <1>4
LEMMA KeysPlain ==
  ASSUME TypeOK, KeyNumbers, NEW r \in Request, Plain(r)
  PROVE  KeyNumbers'
<1>t. /\ row.key \in Nat /\ nextKey \in Nat \ {0}
      /\ \A q \in Request : req[q].key \in Nat /\ req[q].fresh \in Nat
  BY DEF TypeOK, Row, Handler
<1>1. \A q \in Request : req'[q].key \in {0, row.key, req[q].key}
  BY DEF Plain
<1>2. \A q \in Request : req'[q].pc = "install" =>
        q # r /\ req'[q] = req[q]
  BY DEF Plain
<1>3. ASSUME NEW k, NEW R \in SUBSET Request, Unclaimed(k, R) PROVE Unclaimed(k, R)'
  BY <1>1, <1>2, <1>3, <1>t DEF Unclaimed, Plain
<1>4. \A q \in Request : req'[q].pc = "install" =>
        Unclaimed(req[q].fresh, Request \ {q})'
  BY <1>2, <1>3 DEF KeyNumbers
<1>5. \A e \in late' : e.op = "key" => Unclaimed(e.arg, Request)'
  BY <1>3 DEF KeyNumbers, Plain
<1>6. QED
  BY <1>1, <1>2, <1>4, <1>5, <1>t DEF KeyNumbers, Plain

LEMMA KeysNext == TypeOK /\ Shape /\ KeyNumbers /\ [Next]_vars => KeyNumbers'
<1> SUFFICES ASSUME TypeOK, Shape, KeyNumbers, [Next]_vars PROVE KeyNumbers'
  OBVIOUS
<1>t. /\ row \in Row /\ row.key \in Nat /\ nextKey \in Nat \ {0}
      /\ req \in [Request -> Handler]
      /\ \A q \in Request : req[q].key \in Nat /\ req[q].fresh \in Nat
  BY DEF TypeOK, Row, Handler
<1>1. ASSUME NEW r \in Request, ProvisionAccount(r) \/ CreateKey(r) PROVE KeyNumbers'
  <2>1. /\ UNCHANGED <<row, replaced>> /\ nextKey' \in {nextKey, nextKey + 1}
        /\ \A q \in Request \ {r} : req'[q] = req[q]
    BY <1>1, CreateStep
  <2>2. ASSUME NEW k, NEW R \in SUBSET Request, Unclaimed(k, R) PROVE Unclaimed(k, R)'
    BY <1>1, <1>t, <2>1, <2>2, CreateStep DEF Unclaimed
  <2>3. ASSUME NEW R \in SUBSET Request, NEW n, n = nextKey, nextKey' = nextKey + 1,
               r \in R => /\ req'[r].key # n
                          /\ req'[r].pc = "install" => req'[r].fresh # n
        PROVE  Unclaimed(n, R)'
    <3>1. \A q \in Request : req[q].key # n /\ (req[q].pc = "install" => req[q].fresh # n)
      BY <2>3, <1>t DEF KeyNumbers, Unclaimed
    <3>2. \A q \in R : req'[q].key # n /\ (req'[q].pc = "install" => req'[q].fresh # n)
      BY <2>1, <2>3, <3>1
    <3>3. n # row.key /\ n \notin replaced
      BY <2>3, <1>t DEF KeyNumbers
    <3>4. QED
      BY <2>1, <2>3, <3>2, <3>3, <1>t DEF Unclaimed
  <2>4. \A q \in Request : req'[q].key < nextKey'
    BY <1>1, <2>1, <1>t, CreateStep DEF KeyNumbers
  <2>5. ASSUME NEW q \in Request, req'[q].pc = "install"
        PROVE  Unclaimed(req[q].fresh, Request \ {q})'
    <3>1. CASE q # r
      <4>1. req'[q] = req[q] /\ req[q].pc = "install"
        BY <2>1, <2>5, <3>1
      <4>2. Unclaimed(req[q].fresh, Request \ {q})
        BY <4>1 DEF KeyNumbers
      <4>3. QED
        BY <2>2, <4>1, <4>2
    <3>2. CASE q = r
      <4>1. nextKey' = nextKey + 1 /\ req'[r].fresh = nextKey
        BY <1>1, <2>5, <3>2, CreateStep
      <4>2. QED
        BY <2>3, <3>2, <4>1
    <3>3. QED
      BY <3>1, <3>2
  <2>6. ASSUME NEW e \in late', e.op = "key" PROVE Unclaimed(e.arg, Request)'
    <3>1. CASE e \in late
      BY <2>2, <2>6, <3>1 DEF KeyNumbers
    <3>2. CASE e \notin late
      <4>1. /\ e = Effect("key", nextKey) /\ nextKey' = nextKey + 1
            /\ req'[r].pc # "install" /\ req'[r].key \in {0, req[r].key}
        BY <1>1, <2>6, <3>2, CreateStep
      <4>2. req'[r].key # nextKey
        BY <4>1, <1>t DEF KeyNumbers
      <4>3. QED
        BY <2>3, <4>1, <4>2 DEF Effect
    <3>3. QED
      BY <3>1, <3>2
  <2>7. /\ row'.key < nextKey' /\ row'.key \notin replaced'
        /\ \A k \in replaced' : 0 < k /\ k < nextKey'
    <3>1. replaced \subseteq Nat
      BY DEF TypeOK
    <3>2. QED
      BY <2>1, <3>1, <1>t DEF KeyNumbers
  <2>8. QED
    BY <2>4, <2>5, <2>6, <2>7 DEF KeyNumbers
<1>2. ASSUME NEW r \in Request, StoreProject(r) PROVE KeyNumbers'
  <2>1. CASE UNCHANGED row /\ Goto(r, "store-error")
    <3>1. Plain(r)
      BY <1>2, <2>1, <1>t DEF StoreProject, Goto, Plain, Handler, history
    <3>2. QED
      BY <3>1, KeysPlain
  <2>2. CASE /\ row' = [status |-> "ready", project |-> TRUE, key |-> req[r].key,
                        limit |-> DefaultAmount, pending |-> 0, spend |-> "ready"]
             /\ Done(r)
    <3>1. /\ row'.key = req[r].key /\ req'[r].pc = "idle" /\ req'[r].key = 0
          /\ \A q \in Request \ {r} : req'[q] = req[q]
          /\ UNCHANGED <<replaced, nextKey, late>> /\ replaced = {}
      BY <1>2, <2>2, <1>t DEF StoreProject, Done, Idle, history, Shape, Provisional,
                              Provision
    <3>2. \A q \in Request : req'[q].pc # "install"
      BY <1>2, <3>1 DEF StoreProject, Shape, Provisional, Provision
    <3>3. \A e \in late : e.op = "key" => Unclaimed(e.arg, Request)'
      BY <3>1, <3>2, <1>t DEF KeyNumbers, Unclaimed
    <3>4. QED
      BY <3>1, <3>2, <3>3, <1>t DEF KeyNumbers
  <2>3. QED
    BY <1>2, <2>1, <2>2 DEF StoreProject
<1>3. ASSUME NEW r \in Request, InstallKey(r) PROVE KeyNumbers'
  <2>1. CASE UNCHANGED <<row, replaced>> /\ Goto(r, "discard")
    <3>1. Plain(r)
      BY <1>3, <2>1, <1>t DEF InstallKey, Goto, Plain, Handler
    <3>2. QED
      BY <3>1, KeysPlain
  <2>2. CASE /\ CanInstall(r)
             /\ row' = [row EXCEPT !.key = req[r].fresh, !.status = "rotating"]
             /\ replaced' = replaced \cup {row.key}
             /\ req' = [req EXCEPT ![r].pc = "list", ![r].key = req[r].fresh]
    <3>1. /\ row'.key = req[r].fresh /\ UNCHANGED <<nextKey, late>>
          /\ req'[r].pc = "list" /\ req'[r].key = req[r].fresh
          /\ \A q \in Request \ {r} : req'[q] = req[q]
      BY <1>3, <2>2, <1>t DEF InstallKey, Row, Handler
    <3>2. Unclaimed(req[r].fresh, Request \ {r})
      BY <1>3 DEF InstallKey, KeyNumbers
    <3>3. row.key # 0
      BY <2>2 DEF CanInstall, Shape, RowShape
    <3>4. ASSUME NEW k, NEW R \in SUBSET Request, Unclaimed(k, R), k # req[r].fresh
          PROVE  Unclaimed(k, R)'
      BY <2>2, <3>1, <3>4 DEF Unclaimed
    <3>5. ASSUME NEW q \in Request, req'[q].pc = "install"
          PROVE  Unclaimed(req[q].fresh, Request \ {q})'
      <4>1. q # r /\ req'[q] = req[q] /\ req[q].pc = "install"
        BY <3>1, <3>5
      <4>2. Unclaimed(req[q].fresh, Request \ {q}) /\ req[q].fresh # req[r].fresh
        BY <3>2, <4>1 DEF KeyNumbers, Unclaimed
      <4>3. QED
        BY <3>4, <4>1, <4>2
    <3>6. ASSUME NEW e \in late', e.op = "key" PROVE Unclaimed(e.arg, Request)'
      <4>1. Unclaimed(e.arg, Request) /\ e.arg # req[r].fresh
        BY <1>3, <3>1, <3>6 DEF InstallKey, KeyNumbers, Unclaimed
      <4>2. QED
        BY <3>4, <4>1
    <3>7. row'.key < nextKey' /\ row'.key \notin replaced'
      BY <2>2, <3>1, <3>2 DEF Unclaimed
    <3>8. \A q \in Request : req'[q].key < nextKey'
      BY <3>1, <3>2 DEF KeyNumbers, Unclaimed
    <3>9. \A k \in replaced' : 0 < k /\ k < nextKey'
      BY <2>2, <3>1, <3>3, <1>t DEF KeyNumbers
    <3>10. QED
      BY <3>5, <3>6, <3>7, <3>8, <3>9 DEF KeyNumbers
  <2>3. QED
    BY <1>3, <2>1, <2>2 DEF InstallKey
<1>4. ASSUME NEW e \in late, Land(e) PROVE KeyNumbers'
  BY <1>4 DEF Land, KeyNumbers, Unclaimed
<1>5. CASE UNCHANGED vars
  BY <1>5 DEF vars, KeyNumbers, Unclaimed
<1>6. ASSUME NEW r \in Request, Provisioning(r) PROVE KeyNumbers'
  BY <1>6, <1>1, <1>2, PlainStep, KeysPlain DEF Provisioning
<1>7. ASSUME NEW r \in Request, Rotation(r) PROVE KeyNumbers'
  BY <1>7, <1>1, <1>3, PlainStep, KeysPlain DEF Rotation
<1>8. ASSUME NEW r \in Request, SpendLimit(r) PROVE KeyNumbers'
  BY <1>8, PlainStep, KeysPlain DEF SpendLimit
<1>9. ASSUME NEW r \in Request, Deletion(r) \/ Stop(r) PROVE KeyNumbers'
  BY <1>9, PlainStep, KeysPlain DEF Deletion
<1>10. QED
  BY <1>4, <1>5, <1>6, <1>7, <1>8, <1>9 DEF Next
----------------------------------------------------------------------------
(* Replaced keys.                                                          *)

(* No call, answered or late, brings a replaced key back.                  *)
LEMMA NoRevival ==
  TypeOK /\ Shape /\ KeyNumbers /\ [Next]_vars
    => replaced \cap provider'.keys \subseteq provider.keys
<1> SUFFICES ASSUME TypeOK, Shape, KeyNumbers, [Next]_vars
             PROVE  replaced \cap provider'.keys \subseteq provider.keys
  OBVIOUS
<1>1. ASSUME NEW r \in Request, ProvisionAccount(r) \/ CreateKey(r)
      PROVE  replaced \cap provider'.keys \subseteq provider.keys
  <2>1. nextKey \notin replaced /\ nextKey \in Nat
    BY DEF KeyNumbers, TypeOK
  <2>2. QED
    BY <1>1, <2>1, CreateStep
<1>2. ASSUME NEW r \in Request, InstallKey(r) \/ StoreProject(r)
      PROVE  replaced \cap provider'.keys \subseteq provider.keys
  BY <1>2 DEF InstallKey, StoreProject
<1>3. ASSUME NEW e \in late, Land(e)
      PROVE  replaced \cap provider'.keys \subseteq provider.keys
  <2>1. provider \in Provider /\ e \in Effects
    BY DEF TypeOK, Provider
  <2>2. e.op = "key" => e.arg \notin replaced
    BY DEF KeyNumbers, Unclaimed
  <2>3. QED
    BY <1>3, <2>1, <2>2, ApplyEffect DEF Land
<1>4. CASE UNCHANGED vars
  BY <1>4 DEF vars
<1>5. ASSUME NEW r \in Request, Plain(r)
      PROVE  replaced \cap provider'.keys \subseteq provider.keys
  BY <1>5 DEF Plain
<1>6. ASSUME NEW r \in Request, Provisioning(r)
      PROVE  replaced \cap provider'.keys \subseteq provider.keys
  BY <1>6, <1>1, <1>2, <1>5, PlainStep DEF Provisioning
<1>7. ASSUME NEW r \in Request, Rotation(r)
      PROVE  replaced \cap provider'.keys \subseteq provider.keys
  BY <1>7, <1>1, <1>2, <1>5, PlainStep DEF Rotation
<1>8. ASSUME NEW r \in Request, SpendLimit(r)
      PROVE  replaced \cap provider'.keys \subseteq provider.keys
  BY <1>8, <1>5, PlainStep DEF SpendLimit
<1>9. ASSUME NEW r \in Request, Deletion(r) \/ Stop(r)
      PROVE  replaced \cap provider'.keys \subseteq provider.keys
  BY <1>9, <1>5, PlainStep DEF Deletion
<1>10. QED
  BY <1>3, <1>4, <1>6, <1>7, <1>8, <1>9 DEF Next

Dead == Retiring /\ RetiredKeysStayDead

LEMMA DeadNext == Inv /\ [Next]_vars => Dead'
<1> SUFFICES ASSUME Inv, [Next]_vars PROVE Dead'
  OBVIOUS
<1>t. /\ row \in Row /\ req \in [Request -> Handler] /\ provider \in Provider
      /\ TypeOK /\ Shape /\ KeyNumbers /\ Retiring /\ RetiredKeysStayDead
  BY DEF Inv, TypeOK, Provider
<1>v. replaced \cap provider'.keys \subseteq provider.keys
  BY <1>t, NoRevival
<1>u. row' = row => row'.status = row.status /\ row'.key = row.key
  OBVIOUS
(* Most steps neither list, retire, settle nor install. *)
<1>c. ASSUME NEW r \in Request, \A q \in Request \ {r} : req'[q] = req[q],
             req'[r].pc # "retire", UNCHANGED replaced,
             row'.status \in {"ready"} \cup Spending =>
               row.status \in {"ready"} \cup Spending,
             row'.status \in Rotating => row.status \in Rotating /\ row'.key = row.key
      PROVE  Dead'
  <2>1. RetiredKeysStayDead'
    BY <1>c, <1>t, <1>v DEF RetiredKeysStayDead
  <2>2. ASSUME NEW q \in Request, req'[q].pc = "retire", ~req'[q].failed,
               req'[q].key = row'.key, row'.status \in Rotating
        PROVE  replaced' \cap provider'.keys \subseteq req'[q].todo
    <3>1. q # r /\ req'[q] = req[q]
      BY <1>c, <2>2
    <3>2. replaced \cap provider.keys \subseteq req[q].todo
      BY <1>c, <1>t, <2>2, <3>1 DEF Retiring
    <3>3. QED
      BY <1>c, <1>v, <3>1, <3>2
  <2>3. QED
    BY <2>1, <2>2 DEF Dead, Retiring
<1>d. ASSUME NEW r \in Request, Done(r)
      PROVE  req'[r].pc = "idle" /\ \A q \in Request \ {r} : req'[q] = req[q]
  BY <1>d, <1>t DEF Done, Idle
<1>g. ASSUME NEW r \in Request, NEW pc, Goto(r, pc)
      PROVE  req'[r].pc = pc /\ \A q \in Request \ {r} : req'[q] = req[q]
  BY <1>g, <1>t DEF Goto, Handler
<1>b. ASSUME NEW r \in Request, NEW pc, NEW key, NEW cents, Begin(r, pc, key, cents)
      PROVE  req'[r].pc = pc /\ \A q \in Request \ {r} : req'[q] = req[q]
  BY <1>b, <1>t DEF Begin, Idle, Handler
<1>1. ASSUME NEW r \in Request, Provisioning(r) PROVE Dead'
  <2>1. CASE CreateParty(r)
    BY <2>1, <1>b, <1>c, <1>t DEF CreateParty, Row, Spending, Rotating
  <2>2. CASE ProvisionProject(r) \/ ProvisionLimit(r) \/ CleanupProject(r)
    BY <2>2, <1>g, <1>c, <1>u DEF ProvisionProject, ProvisionLimit, CleanupProject, history
  <2>3. CASE ProvisionAccount(r)
    BY <2>3, <1>t, <1>c, <1>u, CreateStep
  <2>4. CASE StoreProject(r) \/ StoreError(r)
    <3>1. replaced = {} /\ UNCHANGED replaced
          /\ \A q \in Request \ {r} : req[q].pc \in {"idle", "drop"}
      BY <2>4, <1>t DEF StoreProject, StoreError, Shape, Provisional, Provision, history
    <3>2. QED
      BY <2>4, <3>1 DEF Dead, Retiring, RetiredKeysStayDead
  <2>5. QED
    BY <1>1, <2>1, <2>2, <2>3, <2>4 DEF Provisioning
<1>2. ASSUME NEW r \in Request, SpendLimit(r) PROVE Dead'
  <2>1. ASSUME NEW c \in Amount, UpdateSpendLimit(r, c) PROVE Dead'
    BY <2>1, <1>b, <1>c, <1>u DEF UpdateSpendLimit
  <2>2. CASE PostLimit(r)
    BY <2>2, <1>g, <1>c, <1>u DEF PostLimit
  <2>3. CASE StartUpdate(r)
    <3>1. /\ row'.status \in Rotating => row' = row
          /\ row'.status \in {"ready"} \cup Spending => row.status \in {"ready"} \cup Spending
      BY <2>3, <1>t DEF StartUpdate, CanStartUpdate, Row, Spending, Rotating
    <3>2. QED
      BY <2>3, <3>1, <1>d, <1>g, <1>c DEF StartUpdate, history
  <2>4. CASE SetUpdateError(r) \/ FinishUpdate(r)
    <3>1. /\ row'.status \in Rotating => row' = row
          /\ row'.status \in {"ready"} \cup Spending => row.status \in {"ready"} \cup Spending
      BY <2>4, <1>t DEF SetUpdateError, FinishUpdate, OwnUpdate, Row, Spending, Rotating
    <3>2. QED
      BY <2>4, <3>1, <1>d, <1>c DEF SetUpdateError, FinishUpdate, history
  <2>5. QED
    BY <1>2, <2>1, <2>2, <2>3, <2>4 DEF SpendLimit
<1>3. ASSUME NEW r \in Request, Deletion(r) \/ Stop(r) PROVE Dead'
  <2>1. CASE DeleteParty(r)
    BY <2>1, <1>b, <1>c, <1>u DEF DeleteParty
  <2>2. CASE ArchiveProject(r) \/ Stop(r)
    BY <2>2, <1>d, <1>g, <1>c, <1>u DEF ArchiveProject, Stop, history
  <2>3. CASE DropParty(r)
    BY <2>3, <1>d, <1>c DEF DropParty, Spending, Rotating, history
  <2>4. QED
    BY <1>3, <2>1, <2>2, <2>3 DEF Deletion
<1>4. ASSUME NEW r \in Request,
             RotateKey(r) \/ CreateKey(r) \/ DiscardKey(r)
      PROVE  Dead'
  <2>1. CASE RotateKey(r)
    BY <2>1, <1>b, <1>c, <1>u DEF RotateKey
  <2>2. CASE CreateKey(r)
    BY <2>2, <1>t, <1>c, <1>u, CreateStep DEF CreateKey
  <2>3. CASE DiscardKey(r)
    BY <2>3, <1>d, <1>c, <1>u DEF DiscardKey, history
  <2>4. QED
    BY <1>4, <2>1, <2>2, <2>3
(* The new key is nobody's yet, so no rotation can settle on it but this   *)
(* one, which has its list still to make. *)
<1>5. ASSUME NEW r \in Request, InstallKey(r) PROVE Dead'
  <2>1. CASE UNCHANGED <<row, replaced>> /\ Goto(r, "discard")
    BY <2>1, <1>g, <1>c, <1>u
  <2>2. CASE /\ row' = [row EXCEPT !.key = req[r].fresh, !.status = "rotating"]
             /\ req' = [req EXCEPT ![r].pc = "list", ![r].key = req[r].fresh]
    <3>1. /\ row'.key = req[r].fresh /\ row'.status = "rotating"
          /\ req'[r].pc = "list" /\ \A q \in Request \ {r} : req'[q] = req[q]
      BY <2>2, <1>t DEF Row, Handler
    <3>2. \A q \in Request \ {r} : req[q].key # req[r].fresh
      BY <1>5, <1>t DEF InstallKey, KeyNumbers, Unclaimed
    <3>3. Retiring'
      BY <3>1, <3>2 DEF Retiring
    <3>4. RetiredKeysStayDead'
      BY <3>1 DEF RetiredKeysStayDead, Spending
    <3>5. QED
      BY <3>3, <3>4 DEF Dead
  <2>3. QED
    BY <1>5, <2>1, <2>2 DEF InstallKey
<1>6. ASSUME NEW r \in Request, ListKeys(r) PROVE Dead'
  <2>1. /\ UNCHANGED <<row, replaced, provider>>
        /\ \A q \in Request \ {r} : req'[q] = req[q]
        /\ req'[r].key = req[r].key
        /\ \/ req'[r].pc = "retire" /\ req'[r].todo = provider.keys \ {req[r].key}
           \/ req'[r].pc = "settle"
    BY <1>6, <1>t DEF ListKeys, Handler, history
  <2>2. RetiredKeysStayDead'
    BY <2>1, <1>t DEF RetiredKeysStayDead
  <2>3. row.key \notin replaced
    BY <1>t DEF KeyNumbers
  <2>4. Retiring'
    BY <2>1, <2>3, <1>t DEF Retiring
  <2>5. QED
    BY <2>2, <2>4 DEF Dead
<1>7. ASSUME NEW r \in Request, NEW k, RetireKey(r, k) PROVE Dead'
  <2>1. /\ UNCHANGED <<row, replaced>> /\ req'[r].key = req[r].key
        /\ \A q \in Request \ {r} : req'[q] = req[q]
        /\ req'[r].todo = req[r].todo \ {k} /\ k \in Nat /\ req[r].pc = "retire"
        /\ ~req'[r].failed => ~req[r].failed /\ Confirm(Effect("delete", k))
    BY <1>7, <1>t DEF RetireKey, Handler, history
  <2>2. RetiredKeysStayDead'
    BY <2>1, <1>t, <1>v DEF RetiredKeysStayDead
  <2>3. ASSUME NEW q \in Request, req'[q].pc = "retire", ~req'[q].failed,
               req'[q].key = row'.key, row'.status \in Rotating
        PROVE  replaced' \cap provider'.keys \subseteq req'[q].todo
    <3>1. CASE q # r
      BY <2>1, <2>3, <3>1, <1>t, <1>v DEF Retiring
    <3>2. CASE q = r
      <4>1. provider'.keys = provider.keys \ {k}
        BY <2>1, <2>3, <3>2, <1>t, DeleteEffect
      <4>2. replaced \cap provider.keys \subseteq req[r].todo
        BY <2>1, <2>3, <3>2, <1>t DEF Retiring
      <4>3. QED
        BY <2>1, <3>2, <4>1, <4>2
    <3>3. QED
      BY <3>1, <3>2
  <2>4. QED
    BY <2>2, <2>3 DEF Dead, Retiring
<1>8. ASSUME NEW r \in Request, SettleRotation(r) PROVE Dead'
  <2>1. /\ UNCHANGED <<replaced, provider>> /\ req'[r].pc = "idle"
        /\ \A q \in Request \ {r} : req'[q] = req[q]
    BY <1>8, <1>d DEF SettleRotation, history
  <2>2. CASE UNCHANGED row \/ req[r].failed
    <3>1. row'.status \in {"ready"} \cup Spending => row' = row
      BY <1>8, <2>2, <1>t DEF SettleRotation, Row, Spending
    <3>2. row'.key = row.key /\ (row'.status \in Rotating => row.status \in Rotating)
      BY <1>8, <2>2, <1>t DEF SettleRotation, Row
    <3>3. QED
      BY <2>1, <3>1, <3>2, <1>c
  <2>3. CASE row' # row /\ ~req[r].failed
    <3>1. /\ req[r].key = row.key /\ row.status \in Rotating
          /\ row'.status = "ready" /\ row'.key = row.key
      BY <1>8, <2>3, <1>t DEF SettleRotation, Row
    <3>2. req[r].pc = "retire" /\ req[r].todo = {}
      BY <1>8, <2>3, <1>t DEF SettleRotation, Shape, Knowing
    <3>3. replaced \cap provider.keys = {}
      BY <2>3, <3>1, <3>2, <1>t DEF Retiring
    <3>4. QED
      BY <2>1, <3>1, <3>3 DEF Dead, Retiring, RetiredKeysStayDead, Rotating
  <2>4. QED
    BY <2>2, <2>3
<1>9. ASSUME NEW r \in Request, Rotation(r) PROVE Dead'
  BY <1>9, <1>4, <1>5, <1>6, <1>7, <1>8 DEF Rotation
<1>10. ASSUME NEW e \in late, Land(e) PROVE Dead'
  BY <1>10, <1>t, <1>v DEF Land, Dead, Retiring, RetiredKeysStayDead
<1>11. CASE UNCHANGED vars
  BY <1>11, <1>t DEF vars, Dead, Retiring, RetiredKeysStayDead
<1>12. QED
  BY <1>1, <1>2, <1>3, <1>9, <1>10, <1>11 DEF Next
----------------------------------------------------------------------------
(* The theorems.                                                           *)

LEMMA InvNext == Inv /\ [Next]_vars => Inv'
BY TypeNext, ShapeNext, KeysNext, DeadNext DEF Inv, Dead

LEMMA Invariance == Spec => []Inv
BY InvInit, InvNext, PTL DEF Spec

(* A party paused by a rotation or a spend limit update can be resumed,    *)
(* whatever stopped where.                                                 *)
THEOREM Resumable == Spec => []PausedIsResumable
<1>1. Inv => PausedIsResumable
  BY DEF Inv, Shape
<1>2. QED
  BY <1>1, Invariance, PTL

(* The limit shown as in force was confirmed by the provider.              *)
THEOREM Confirmed == Spec => []LimitWasConfirmed
<1>1. Inv => LimitWasConfirmed
  BY DEF Inv, Shape
<1>2. QED
  BY <1>1, Invariance, PTL

(* A ready party's replaced keys are dead, for any number of overlapping   *)
(* rotations and lost calls.                                               *)
THEOREM Retired == Spec => []RetiredKeysStayDead
<1>1. Inv => RetiredKeysStayDead
  BY DEF Inv
<1>2. QED
  BY <1>1, Invariance, PTL

(* A key once replaced is not installed again by any handler, and once     *)
(* deleted at the provider it does not come back, whatever calls land late. *)
ReplacedForGood ==
  [][\A k \in replaced :
       k # row'.key /\ (k \in provider'.keys => k \in provider.keys)]_vars

LEMMA ReplacedGrows == TypeOK /\ [Next]_vars => replaced \subseteq replaced'
<1> SUFFICES ASSUME TypeOK, [Next]_vars PROVE replaced \subseteq replaced'
  OBVIOUS
<1>1. ASSUME NEW r \in Request, Provisioning(r) PROVE replaced \subseteq replaced'
  BY <1>1 DEF Provisioning, CreateParty, ProvisionProject, ProvisionLimit,
              ProvisionAccount, CleanupProject, StoreProject, StoreError,
              history
<1>2. ASSUME NEW r \in Request, Rotation(r) PROVE replaced \subseteq replaced'
  BY <1>2 DEF Rotation, RotateKey, CreateKey, InstallKey, DiscardKey, ListKeys,
              RetireKey, SettleRotation, history
<1>3. ASSUME NEW r \in Request, SpendLimit(r) PROVE replaced \subseteq replaced'
  BY <1>3 DEF SpendLimit, UpdateSpendLimit, StartUpdate, PostLimit, SetUpdateError,
              FinishUpdate, history
<1>4. ASSUME NEW r \in Request, Deletion(r) \/ Stop(r) PROVE replaced \subseteq replaced'
  BY <1>4 DEF Deletion, DeleteParty, ArchiveProject, DropParty, Stop, history
<1> QED
  BY <1>1, <1>2, <1>3, <1>4 DEF Next, Land, vars

(* The keys' part of Inv and the provider's own numbering give it, for any *)
(* number of rotations at once.                                            *)
THEOREM NoReplacedKeyReturns == Spec => ReplacedForGood
<1> DEFINE Final ==
      \A k \in replaced : k # row'.key /\ (k \in provider'.keys => k \in provider.keys)
<1>1. ASSUME Inv, [Next]_vars PROVE Final
  <2>1. row'.key \notin replaced'
    BY <1>1, InvNext DEF Inv, KeyNumbers
  <2>2. replaced \subseteq replaced'
    BY <1>1, ReplacedGrows DEF Inv
  <2>3. replaced \cap provider'.keys \subseteq provider.keys
    BY <1>1, NoRevival DEF Inv
  <2> QED
    BY <2>1, <2>2, <2>3
<1>2. Inv /\ [Next]_vars => [Final]_vars
  BY <1>1
<1> QED
  BY <1>2, Invariance, PTL DEF Spec, ReplacedForGood

PendingStays ==
  row.pending # 0 /\ row'.pending # row.pending =>
    row'.status = "deleted" \/ (row'.pending = 0 /\ row'.limit = row.pending)

LEMMA PendingStep == Inv /\ [Next]_vars => PendingStays
<1> SUFFICES ASSUME Inv, [Next]_vars, row.pending # 0, row'.pending # row.pending
             PROVE  row'.status = "deleted"
                    \/ (row'.pending = 0 /\ row'.limit = row.pending)
  BY DEF PendingStays
<1>t. row \in Row /\ req \in [Request -> Handler]
  BY DEF Inv, TypeOK
<1>u. row' # row /\ row.project
  BY DEF Inv, Shape, RowShape
<1>1. ASSUME NEW r \in Request PROVE ~Provisioning(r)
  <2>1. row.status \notin {"none", "pending", "error", "deleted"}
    BY <1>u DEF Inv, Shape, RowShape, Spending, Rotating
  <2>2. req[r].pc \notin Provision
    BY <2>1 DEF Inv, Shape, Provisional
  <2>3. QED
    BY <2>1, <2>2 DEF Provisioning, CreateParty, ProvisionProject, ProvisionLimit,
                      ProvisionAccount, CleanupProject, StoreProject, StoreError,
                      Provision
<1>2. ASSUME NEW r \in Request PROVE ~Rotation(r)
  BY <1>t, <1>u DEF Rotation, RotateKey, CreateKey, InstallKey, DiscardKey, ListKeys,
                    RetireKey, SettleRotation, Row
<1>3. ASSUME NEW r \in Request, SpendLimit(r) PROVE FinishUpdate(r)
  BY <1>3, <1>t, <1>u DEF SpendLimit, UpdateSpendLimit, StartUpdate, CanStartUpdate,
                          PostLimit, SetUpdateError, Row
<1>4. ASSUME NEW r \in Request, FinishUpdate(r)
      PROVE  row'.pending = 0 /\ row'.limit = row.pending
  BY <1>4, <1>t, <1>u DEF FinishUpdate, OwnUpdate, Row
<1>5. ASSUME NEW r \in Request, Deletion(r) PROVE row'.status = "deleted"
  BY <1>5, <1>u DEF Deletion, DeleteParty, ArchiveProject, DropParty
<1>6. ASSUME NEW r \in Request PROVE ~Stop(r)
  BY <1>u DEF Stop
<1>7. QED
  BY <1>u, <1>1, <1>2, <1>3, <1>4, <1>5, <1>6 DEF Next, Land, vars

(* A pending amount becomes the limit or goes with the party; no update    *)
(* changes it, however many run.                                           *)
THEOREM PendingFinal == Spec => PendingAmountIsFinal
<1>1. Inv /\ [Next]_vars => [PendingStays]_vars
  BY PendingStep
<1>2. QED
  BY <1>1, Invariance, PTL DEF Spec, PendingAmountIsFinal, PendingStays
----------------------------------------------------------------------------
(* Without overlapping requests the installed key is never deleted.        *)

(* A key that works and that no deletion on its way will reach.            *)
Safe(k) == k \in provider.keys /\ Effect("delete", k) \notin late

(* Every key that anything may still delete has been issued.               *)
Issued ==
  /\ \A k \in provider.keys : k < nextKey
  /\ \A e \in late : e.op = "delete" => e.arg < nextKey
  /\ \A r \in Request : req[r].fresh < nextKey /\ \A k \in req[r].todo : k < nextKey

(* What the only handler at work may rely on.                              *)
Relying(r) ==
  /\ req[r].pc = "store" => Safe(req[r].key)
  /\ req[r].pc = "install" => Safe(req[r].fresh)
  /\ req[r].pc = "discard" => req[r].fresh # row.key
  /\ req[r].pc \in {"list", "retire", "settle"} /\ row.project => req[r].key = row.key
  /\ req[r].pc = "retire" => req[r].key \notin req[r].todo

Alone ==
  /\ \A r, q \in Request : req[r].pc # "idle" /\ req[q].pc # "idle" => r = q
  /\ row.project => Safe(row.key)
  /\ \A r \in Request : Relying(r)

Solo == Issued /\ (~overlapped => Alone)

LEMMA CallSafe ==
  ASSUME provider \in Provider, NEW e \in Effects, Answered(e),
         NEW k, Safe(k), e # Effect("delete", k)
  PROVE  Safe(k)'
<1>1. k \in Apply(e).keys
  <2>1. CASE e.op = "project"
    BY <2>1 DEF Apply, Provider, Effects, Safe
  <2>2. CASE e.op # "project" /\ provider.project # "active"
    BY <2>2 DEF Apply, Provider, Effects, Safe
  <2>3. CASE provider.project = "active" /\ e.op \in {"limit", "archive"}
    BY <2>3 DEF Apply, Provider, Effects, Safe
  <2>4. CASE provider.project = "active" /\ e.op = "key"
    BY <2>4 DEF Apply, Provider, Effects, Safe
  <2>5. CASE provider.project = "active" /\ e.op = "delete"
    BY <2>5 DEF Apply, Provider, Effects, Safe, Effect
  <2>6. QED
    BY <2>1, <2>2, <2>3, <2>4, <2>5 DEF Effects
<1>2. Effect("delete", k)' = Effect("delete", k)
  BY DEF Effect
<1>3. QED
  BY <1>1, <1>2 DEF Answered, Confirm, Refuse, GiveUp, Safe
LEMMA IssuedNext == Inv /\ Issued /\ [Next]_vars => Issued'
<1> SUFFICES ASSUME Inv, Issued, [Next]_vars PROVE Issued'
  OBVIOUS
<1> USE PartyOpenAIAssumption DEF PartyOpenAIAssumption
<1>t. /\ TypeOK /\ Shape /\ req \in [Request -> Handler] /\ nextKey \in Nat \ {0}
      /\ provider \in Provider /\ late \subseteq Effects
  BY DEF Inv, TypeOK, Provider
<1>h. \A q \in Request : req[q].fresh \in Nat /\ req[q].todo \subseteq Nat
  BY <1>t DEF Handler
(* A step that issues no key: the handler keeps its numbers, drops them,   *)
(* or lists the provider's. *)
<1>k. ASSUME NEW r \in Request, Plain(r),
             req'[r].fresh \in {0, req[r].fresh},
             req'[r].todo \subseteq req[r].todo \cup provider.keys,
             \A e \in late' \ late : e.op = "delete" => e.arg < nextKey
      PROVE  Issued'
  BY <1>k, <1>t DEF Plain, Issued
<1>a. ASSUME NEW e \in Effects, Answered(e), e.op = "delete" => e.arg < nextKey
      PROVE  \A x \in late' \ late : x.op = "delete" => x.arg < nextKey
  BY <1>a, <1>t, CallEffect
<1>d. ASSUME NEW r \in Request, Done(r) PROVE req'[r].fresh = 0 /\ req'[r].todo = {}
  BY <1>d, <1>t DEF Done, Idle
<1>g. ASSUME NEW r \in Request, NEW pc, Goto(r, pc)
      PROVE  req'[r].fresh = req[r].fresh /\ req'[r].todo = req[r].todo
  BY <1>g, <1>t DEF Goto, Handler
<1>b. ASSUME NEW r \in Request, NEW pc, NEW key, NEW cents, Begin(r, pc, key, cents)
      PROVE  req'[r].fresh = 0 /\ req'[r].todo = {}
  BY <1>b, <1>t DEF Begin, Idle, Handler
<1>1. ASSUME NEW r \in Request, NEW c \in Amount,
             \/ CreateParty(r) \/ RotateKey(r) \/ UpdateSpendLimit(r, c) \/ DeleteParty(r)
      PROVE  Issued'
  <2>1. Plain(r) /\ req'[r].fresh = 0 /\ req'[r].todo = {} /\ late' = late
    BY <1>1, <1>t, <1>b, PlainStep
       DEF CreateParty, RotateKey, UpdateSpendLimit, DeleteParty
  <2>2. QED
    BY <2>1, <1>k
<1>2. ASSUME NEW r \in Request,
             \/ ProvisionProject(r) \/ ProvisionLimit(r) \/ CleanupProject(r)
             \/ PostLimit(r) \/ ArchiveProject(r)
      PROVE  Issued'
  <2>1. \E e \in Effects : Answered(e) /\ e.op # "delete"
    <3>1. /\ Effect("project", 0) \in Effects /\ Effect("archive", 0) \in Effects
          /\ Effect("limit", DefaultAmount) \in Effects
          /\ Effect("limit", req[r].cents) \in Effects
      BY <1>t DEF Effect, Effects, Handler
    <3>2. QED
      BY <1>2, <3>1 DEF Effect, Answered, ProvisionProject, ProvisionLimit,
                        CleanupProject, PostLimit, ArchiveProject
  <2>2. \A x \in late' \ late : x.op = "delete" => x.arg < nextKey
    BY <2>1, <1>a
  <2>3. Plain(r) /\ ((\E pc : Goto(r, pc)) \/ Done(r))
    BY <1>2, <1>t, PlainStep DEF ProvisionProject, ProvisionLimit, CleanupProject,
                                 PostLimit, ArchiveProject
  <2>4. QED
    BY <2>2, <2>3, <1>d, <1>g, <1>k
<1>3. ASSUME NEW r \in Request,
             \/ StoreError(r) \/ SettleRotation(r) \/ StartUpdate(r)
             \/ SetUpdateError(r) \/ FinishUpdate(r) \/ DropParty(r) \/ Stop(r)
      PROVE  Issued'
  <2>1. Plain(r) /\ ((\E pc : Goto(r, pc)) \/ Done(r)) /\ late' = late
    BY <1>3, <1>t, PlainStep DEF StoreError, SettleRotation, StartUpdate,
                                 SetUpdateError, FinishUpdate, DropParty, Stop
  <2>2. QED
    BY <2>1, <1>d, <1>g, <1>k
<1>4. ASSUME NEW r \in Request, DiscardKey(r) PROVE Issued'
  <2>1. /\ Effect("delete", req[r].fresh) \in Effects
        /\ Answered(Effect("delete", req[r].fresh))
    BY <1>4, <1>h DEF Effect, Effects, DiscardKey, Answered
  <2>2. \A x \in late' \ late : x.op = "delete" => x.arg < nextKey
    BY <2>1, <1>a DEF Issued, Effect
  <2>3. QED
    BY <1>4, <1>t, <2>2, <1>d, <1>k, PlainStep DEF DiscardKey
<1>5. ASSUME NEW r \in Request, NEW k, RetireKey(r, k) PROVE Issued'
  <2>1. k \in req[r].todo /\ k \in Nat /\ k < nextKey
    BY <1>5, <1>h DEF RetireKey, Issued
  <2>2. Effect("delete", k) \in Effects /\ Answered(Effect("delete", k))
    BY <1>5, <2>1 DEF Effect, Effects, RetireKey, Answered
  <2>3. \A x \in late' \ late : x.op = "delete" => x.arg < nextKey
    BY <2>1, <2>2, <1>a DEF Effect
  <2>4. req'[r].fresh = req[r].fresh /\ req'[r].todo \subseteq req[r].todo
    BY <1>5, <1>t DEF RetireKey, Handler
  <2>5. QED
    BY <1>5, <1>t, <2>3, <2>4, <1>k, PlainStep
<1>6. ASSUME NEW r \in Request, ListKeys(r) PROVE Issued'
  <2>1. /\ req'[r].fresh = req[r].fresh /\ late' = late
        /\ req'[r].todo \subseteq req[r].todo \cup provider.keys
    BY <1>6, <1>t DEF ListKeys, Handler
  <2>2. QED
    BY <1>6, <1>t, <2>1, <1>k, PlainStep
<1>7. ASSUME NEW r \in Request, ProvisionAccount(r) \/ CreateKey(r) PROVE Issued'
  <2>1. /\ provider'.keys \subseteq provider.keys \cup {nextKey}
        /\ nextKey' \in {nextKey, nextKey + 1}
        /\ late' \subseteq late \cup {Effect("key", nextKey)}
        /\ \A q \in Request \ {r} : req'[q] = req[q]
    BY <1>7, <1>t, CreateStep
  <2>2. provider'.keys # provider.keys => nextKey' = nextKey + 1
    BY <1>7 DEF ProvisionAccount, CreateKey, Confirm, Refuse, GiveUp
  <2>3. \/ req'[r].fresh = req[r].fresh /\ req'[r].todo = req[r].todo
        \/ req'[r].fresh = 0 /\ req'[r].todo = {}
        \/ /\ req'[r].fresh = nextKey /\ req'[r].todo = req[r].todo
           /\ nextKey' = nextKey + 1
    BY <1>7, <1>t, <1>d, <1>g DEF ProvisionAccount, CreateKey, Handler
  <2>4. \A k \in provider'.keys : k < nextKey'
    <3>1. CASE provider'.keys = provider.keys
      BY <2>1, <3>1, <1>t DEF Issued, Provider
    <3>2. CASE provider'.keys # provider.keys
      BY <2>1, <2>2, <3>2, <1>t DEF Issued, Provider
    <3>3. QED
      BY <3>1, <3>2
  <2>5. \A e \in late' : e.op = "delete" => e.arg < nextKey'
    <3>1. \A e \in late' : e.op = "delete" => e \in late /\ e.arg \in Nat
      BY <2>1, <1>t DEF Effect, Effects
    <3>2. QED
      BY <2>1, <3>1, <1>t DEF Issued
  <2>6. \A q \in Request : req'[q].fresh < nextKey' /\ \A k \in req'[q].todo : k < nextKey'
    BY <2>1, <2>3, <1>t, <1>h DEF Issued
  <2>7. QED
    BY <2>4, <2>5, <2>6 DEF Issued
<1>8. ASSUME NEW r \in Request, StoreProject(r) \/ InstallKey(r) PROVE Issued'
  <2>1. /\ UNCHANGED <<provider, late, nextKey>>
        /\ \A q \in Request \ {r} : req'[q] = req[q]
        /\ req'[r].fresh \in {0, req[r].fresh} /\ req'[r].todo \in {{}, req[r].todo}
    BY <1>8, <1>t DEF StoreProject, InstallKey, Done, Goto, Idle, Handler
  <2>2. QED
    BY <2>1, <1>t DEF Issued
<1>9. ASSUME NEW e \in late, Land(e) PROVE Issued'
  <2>1. \A k \in provider'.keys : k \in provider.keys \/ (e.op = "key" /\ k = e.arg)
    BY <1>9, <1>t, ApplyEffect DEF Land
  <2>2. e.op = "key" => e.arg < nextKey
    BY DEF Inv, KeyNumbers, Unclaimed
  <2>3. QED
    BY <1>9, <2>1, <2>2 DEF Land, Issued
<1>10. CASE UNCHANGED vars
  BY <1>10 DEF vars, Issued
<1>11. ASSUME NEW r \in Request, Provisioning(r) PROVE Issued'
  BY <1>11, <1>1, <1>2, <1>3, <1>7, <1>8 DEF Provisioning
<1>12. ASSUME NEW r \in Request, Rotation(r) PROVE Issued'
  BY <1>12, <1>1, <1>3, <1>4, <1>5, <1>6, <1>7, <1>8 DEF Rotation
<1>13. ASSUME NEW r \in Request, SpendLimit(r) PROVE Issued'
  BY <1>13, <1>1, <1>2, <1>3 DEF SpendLimit
<1>14. ASSUME NEW r \in Request, Deletion(r) \/ Stop(r) PROVE Issued'
  BY <1>14, <1>1, <1>2, <1>3 DEF Deletion
<1>15. QED
  BY <1>9, <1>10, <1>11, <1>12, <1>13, <1>14 DEF Next
LEMMA AloneNext ==
  ASSUME Inv, Issued, Alone, Next, ~overlapped'
  PROVE  Alone'
<1> USE PartyOpenAIAssumption DEF PartyOpenAIAssumption
<1>t. /\ TypeOK /\ Shape /\ KeyNumbers /\ row \in Row /\ req \in [Request -> Handler]
      /\ nextKey \in Nat \ {0} /\ provider \in Provider /\ late \subseteq Effects
      /\ \A q \in Request : /\ req[q].key \in Nat /\ req[q].fresh \in Nat
                            /\ req[q].todo \subseteq Nat
  BY DEF Inv, TypeOK, Provider, Handler
<1>d. ASSUME NEW r \in Request, Done(r)
      PROVE  req'[r].pc = "idle" /\ \A q \in Request \ {r} : req'[q] = req[q]
  BY <1>d, <1>t DEF Done, Idle
<1>g. ASSUME NEW r \in Request, NEW pc, Goto(r, pc)
      PROVE  /\ req'[r].pc = pc /\ req'[r].key = req[r].key
             /\ req'[r].fresh = req[r].fresh /\ req'[r].todo = req[r].todo
             /\ \A q \in Request \ {r} : req'[q] = req[q]
  BY <1>g, <1>t DEF Goto, Handler
<1>b. ASSUME NEW r \in Request, NEW pc, NEW key, NEW cents, Begin(r, pc, key, cents)
      PROVE  /\ req'[r].pc = pc /\ req'[r].key = key
             /\ \A q \in Request \ {r} : req'[q] = req[q] /\ req[q].pc = "idle"
  BY <1>b, <1>t DEF Begin, Idle, Handler
<1>s. ASSUME NEW r \in Request, req[r].pc # "idle"
      PROVE  \A q \in Request \ {r} : req[q].pc = "idle"
  BY <1>s DEF Alone
(* The others are idle, and stay so. *)
<1>o. ASSUME NEW r \in Request,
             \A q \in Request \ {r} : req'[q] = req[q] /\ req[q].pc = "idle",
             row'.project => Safe(row.key)', Relying(r)'
      PROVE  Alone'
  BY <1>o DEF Alone, Relying
(* A step that asks the provider nothing. *)
<1>q. ASSUME UNCHANGED <<provider, late>>, NEW k, Safe(k) PROVE Safe(k)'
  BY <1>q DEF Safe, Effect
(* A call that deletes something else leaves the installed key alone. *)
<1>c. ASSUME NEW r \in Request, req[r].pc # "idle", UNCHANGED row,
             \A q \in Request \ {r} : req'[q] = req[q],
             NEW e \in Effects, Answered(e), row.project => e # Effect("delete", row.key),
             Relying(r)'
      PROVE  Alone'
  <2>1. ASSUME row.project PROVE Safe(row.key)'
    <3>1. Safe(row.key) /\ e # Effect("delete", row.key)
      BY <1>c, <2>1 DEF Alone
    <3>2. ASSUME NEW k, k = row.key PROVE Safe(k)'
      BY <1>c, <1>t, <3>1, <3>2, CallSafe
    <3>3. QED
      BY <1>c, <3>2 DEF Safe, Effect
  <2>2. QED
    BY <1>c, <1>s, <2>1, <1>o
<1>1. ASSUME NEW r \in Request, NEW c \in Amount,
             \/ CreateParty(r) \/ RotateKey(r) \/ UpdateSpendLimit(r, c) \/ DeleteParty(r)
      PROVE  Alone'
  <2>1. /\ UNCHANGED <<provider, late>> /\ row'.project = row.project /\ row'.key = row.key
        /\ req'[r].pc \notin {"idle", "store", "install", "discard", "retire", "settle"}
        /\ req'[r].pc = "list" => req'[r].key = row.key
        /\ \A q \in Request \ {r} : req'[q] = req[q] /\ req[q].pc = "idle"
    BY <1>1, <1>b, <1>t DEF CreateParty, RotateKey, UpdateSpendLimit, DeleteParty, Row
  <2>2. Relying(r)'
    BY <2>1 DEF Relying
  <2>3. row'.project => Safe(row.key)'
    BY <2>1 DEF Alone, Safe, Effect
  <2>4. QED
    BY <2>1, <2>2, <2>3, <1>o
<1>2. ASSUME NEW r \in Request,
             \/ ProvisionProject(r) \/ ProvisionLimit(r) \/ CleanupProject(r)
             \/ PostLimit(r) \/ ArchiveProject(r)
      PROVE  Alone'
  <2>1. \E e \in Effects : Answered(e) /\ e.op # "delete"
    <3>1. /\ Effect("project", 0) \in Effects /\ Effect("archive", 0) \in Effects
          /\ Effect("limit", DefaultAmount) \in Effects
          /\ Effect("limit", req[r].cents) \in Effects
      BY <1>t DEF Effect, Effects, Handler
    <3>2. QED
      BY <1>2, <3>1 DEF Effect, Answered, ProvisionProject, ProvisionLimit,
                        CleanupProject, PostLimit, ArchiveProject
  <2>2. /\ UNCHANGED row /\ req[r].pc # "idle"
        /\ req'[r].pc \notin {"store", "install", "discard", "list", "retire", "settle"}
        /\ \A q \in Request \ {r} : req'[q] = req[q]
    BY <1>2, <1>d, <1>g DEF ProvisionProject, ProvisionLimit, CleanupProject, PostLimit,
                            ArchiveProject
  <2>3. Relying(r)'
    BY <2>2 DEF Relying
  <2>4. PICK e \in Effects : Answered(e) /\ e # Effect("delete", row.key)
    BY <2>1 DEF Effect
  <2>5. QED
    BY <2>2, <2>3, <2>4, <1>c
<1>3. ASSUME NEW r \in Request, ProvisionAccount(r) \/ CreateKey(r) PROVE Alone'
  <2>1. Effect("key", nextKey) \in Effects /\ Answered(Effect("key", nextKey))
    BY <1>3, <1>t DEF Effects, Effect, ProvisionAccount, CreateKey, Answered
  <2>2. Effect("key", nextKey) # Effect("delete", row.key)
    BY DEF Effect
  <2>3. /\ UNCHANGED row /\ req[r].pc # "idle"
        /\ \A q \in Request \ {r} : req'[q] = req[q]
    BY <1>3, <1>t, CreateStep DEF ProvisionAccount, CreateKey
  <2>4. Relying(r)'
    <3>1. CASE req'[r].pc \in {"idle", "cleanup"}
      BY <3>1 DEF Relying
    <3>2. CASE req'[r].pc \in {"install", "store"}
      <4>1. Confirm(Effect("key", nextKey))
        BY <1>3, <3>2, <1>d, <1>g DEF ProvisionAccount, CreateKey
      <4>2. nextKey \in provider'.keys /\ late' = late
        BY <4>1, <1>t DEF Confirm, Accepts, Apply, Effect, Provider
      <4>3. Effect("delete", nextKey) \notin late
        BY <1>t DEF Issued, Effect
      <4>4. /\ req'[r].pc = "store" => req'[r].key = nextKey
            /\ req'[r].pc = "install" => req'[r].fresh = nextKey
        BY <1>3, <1>t, CreateStep
      <4>5. QED
        BY <3>2, <4>2, <4>3, <4>4 DEF Relying, Safe, Effect
    <3>3. QED
      BY <1>3, <1>t, <3>1, <3>2, CreateStep
  <2>5. QED
    BY <2>1, <2>2, <2>3, <2>4, <1>c
<1>4. ASSUME NEW r \in Request, StoreProject(r) PROVE Alone'
  <2>1. /\ req[r].pc = "store" /\ UNCHANGED <<provider, late>> /\ ~row.project
        /\ Safe(req[r].key)
    <3>1. row.status \in {"pending", "deleted"}
      BY <1>4, <1>t DEF StoreProject, Shape, Provisional, Provision
    <3>2. QED
      BY <1>4, <1>t, <3>1 DEF StoreProject, Shape, RowShape, Spending, Rotating, Alone,
                              Relying
  <2>2. /\ req'[r].pc \in {"idle", "store-error"}
        /\ \A q \in Request \ {r} : req'[q] = req[q]
    BY <1>4, <1>d, <1>g DEF StoreProject
  <2>3. row'.project => row'.key = req[r].key
    BY <1>4, <2>1 DEF StoreProject
  <2>4. Relying(r)' /\ (row'.project => Safe(row.key)')
    BY <2>1, <2>2, <2>3 DEF Relying, Safe, Effect
  <2>5. QED
    BY <2>1, <2>2, <2>4, <1>s, <1>o
<1>5. ASSUME NEW r \in Request,
             \/ StoreError(r) \/ SettleRotation(r) \/ StartUpdate(r)
             \/ SetUpdateError(r) \/ FinishUpdate(r) \/ DropParty(r) \/ Stop(r)
      PROVE  Alone'
  <2>1. /\ UNCHANGED <<provider, late>> /\ req[r].pc # "idle"
        /\ req'[r].pc \in {"idle", "post"}
        /\ \A q \in Request \ {r} : req'[q] = req[q]
    BY <1>5, <1>d, <1>g DEF StoreError, SettleRotation, StartUpdate, SetUpdateError,
                            FinishUpdate, DropParty, Stop
  <2>2. row'.project => row.project /\ row'.key = row.key
    <3>1. CASE StoreError(r) \/ DropParty(r) \/ Stop(r)
      BY <3>1 DEF StoreError, DropParty, Stop
    <3>2. CASE SettleRotation(r)
      BY <3>2, <1>t DEF SettleRotation, Row
    <3>3. CASE StartUpdate(r)
      BY <3>3, <1>t DEF StartUpdate, Row
    <3>4. CASE SetUpdateError(r) \/ FinishUpdate(r)
      BY <3>4, <1>t DEF SetUpdateError, FinishUpdate, Row
    <3>5. QED
      BY <1>5, <3>1, <3>2, <3>3, <3>4
  <2>3. Relying(r)' /\ (row'.project => Safe(row.key)')
    BY <2>1, <2>2 DEF Relying, Alone, Safe, Effect
  <2>4. QED
    BY <2>1, <2>3, <1>s, <1>o
<1>6. ASSUME NEW r \in Request, InstallKey(r) PROVE Alone'
  <2>1. /\ req[r].pc = "install" /\ UNCHANGED <<provider, late>>
        /\ Safe(req[r].fresh) /\ req[r].fresh # row.key
    BY <1>6, <1>t DEF InstallKey, Alone, Relying, KeyNumbers, Unclaimed
  <2>2. CASE UNCHANGED row /\ Goto(r, "discard")
    <3>1. /\ req'[r].pc = "discard" /\ req'[r].fresh = req[r].fresh
          /\ \A q \in Request \ {r} : req'[q] = req[q]
      BY <2>2, <1>g
    <3>2. Relying(r)' /\ (row'.project => Safe(row.key)')
      BY <2>1, <2>2, <3>1 DEF Relying, Alone, Safe, Effect
    <3>3. QED
      BY <2>1, <3>1, <3>2, <1>s, <1>o
  <2>3. CASE /\ row' = [row EXCEPT !.key = req[r].fresh, !.status = "rotating"]
             /\ req' = [req EXCEPT ![r].pc = "list", ![r].key = req[r].fresh]
    <3>1. /\ row'.key = req[r].fresh /\ req'[r].pc = "list" /\ req'[r].key = req[r].fresh
          /\ \A q \in Request \ {r} : req'[q] = req[q]
      BY <2>3, <1>t DEF Row, Handler
    <3>2. Relying(r)' /\ (row'.project => Safe(row.key)')
      BY <2>1, <3>1 DEF Relying, Safe, Effect
    <3>3. QED
      BY <2>1, <3>1, <3>2, <1>s, <1>o
  <2>4. QED
    BY <1>6, <2>2, <2>3 DEF InstallKey
<1>7. ASSUME NEW r \in Request, DiscardKey(r) PROVE Alone'
  <2>1. /\ Effect("delete", req[r].fresh) \in Effects
        /\ Answered(Effect("delete", req[r].fresh))
        /\ Effect("delete", req[r].fresh) # Effect("delete", row.key)
    BY <1>7, <1>t DEF DiscardKey, Answered, Effect, Effects, Alone, Relying
  <2>2. Relying(r)'
    BY <1>7, <1>d DEF DiscardKey, Relying
  <2>3. QED
    BY <1>7, <2>1, <2>2, <1>c, <1>d DEF DiscardKey
<1>8. ASSUME NEW r \in Request, ListKeys(r) PROVE Alone'
  <2>1. /\ UNCHANGED <<provider, late, row>> /\ req[r].pc = "list"
        /\ \A q \in Request \ {r} : req'[q] = req[q]
        /\ req'[r].key = req[r].key
        /\ \/ req'[r].pc = "retire" /\ req'[r].todo = provider.keys \ {req[r].key}
           \/ req'[r].pc = "settle"
    BY <1>8, <1>t DEF ListKeys, Handler
  <2>2. Relying(r)' /\ (row'.project => Safe(row.key)')
    BY <2>1 DEF Relying, Alone, Safe, Effect
  <2>3. QED
    BY <2>1, <2>2, <1>s, <1>o
<1>9. ASSUME NEW r \in Request, NEW k, RetireKey(r, k) PROVE Alone'
  <2>1. /\ UNCHANGED row /\ req[r].pc = "retire" /\ req'[r].pc = "retire"
        /\ k \in req[r].todo /\ k \in Nat
        /\ \A q \in Request \ {r} : req'[q] = req[q]
        /\ req'[r].key = req[r].key /\ req'[r].todo \subseteq req[r].todo
    BY <1>9, <1>t DEF RetireKey, Handler
  <2>2. /\ row.project => req[r].key = row.key
        /\ req[r].key \notin req[r].todo
    BY <2>1 DEF Alone, Relying
  <2>3. /\ Effect("delete", k) \in Effects /\ Answered(Effect("delete", k))
        /\ row.project => Effect("delete", k) # Effect("delete", row.key)
    BY <1>9, <2>1, <2>2 DEF RetireKey, Answered, Effect, Effects
  <2>4. Relying(r)'
    BY <2>1, <2>2 DEF Relying
  <2>5. QED
    BY <2>1, <2>3, <2>4, <1>c
<1>10. ASSUME NEW e \in late, Land(e) PROVE Alone'
  <2>1. ASSUME NEW k, Safe(k) PROVE Safe(k)'
    <3>1. e # Effect("delete", k) /\ k \in provider.keys
      BY <2>1 DEF Safe
    <3>2. k \in Apply(e).keys
      BY <1>t, <3>1 DEF Apply, Provider, Effects, Effect
    <3>3. QED
      BY <1>10, <2>1, <3>2 DEF Land, Safe, Effect
  <2>2. row'.project => Safe(row.key)'
    BY <1>10, <2>1 DEF Land, Alone, Safe, Effect
  <2>3. ASSUME NEW r \in Request PROVE Relying(r)'
    <3>1. Relying(r)
      BY DEF Alone
    <3>2. UNCHANGED <<req, row>>
      BY <1>10 DEF Land
    <3>3. req'[r].pc = "store" => Safe(req[r].key)'
      BY <2>1, <3>1, <3>2 DEF Relying, Safe, Effect
    <3>4. req'[r].pc = "install" => Safe(req[r].fresh)'
      BY <2>1, <3>1, <3>2 DEF Relying, Safe, Effect
    <3>5. QED
      BY <3>1, <3>2, <3>3, <3>4 DEF Relying
  <2>4. QED
    BY <1>10, <2>2, <2>3 DEF Land, Alone
<1>11. ASSUME NEW r \in Request, Provisioning(r) PROVE Alone'
  BY <1>11, <1>1, <1>2, <1>3, <1>4, <1>5 DEF Provisioning
<1>12. ASSUME NEW r \in Request, Rotation(r) PROVE Alone'
  BY <1>12, <1>1, <1>3, <1>5, <1>6, <1>7, <1>8, <1>9 DEF Rotation
<1>13. ASSUME NEW r \in Request, SpendLimit(r) PROVE Alone'
  BY <1>13, <1>1, <1>2, <1>5 DEF SpendLimit
<1>14. ASSUME NEW r \in Request, Deletion(r) \/ Stop(r) PROVE Alone'
  BY <1>14, <1>1, <1>2, <1>5 DEF Deletion
<1>15. QED
  BY <1>10, <1>11, <1>12, <1>13, <1>14 DEF Next

LEMMA OverlapStays == TypeOK /\ [Next]_vars /\ ~overlapped' => ~overlapped
<1> SUFFICES ASSUME TypeOK, [Next]_vars, overlapped PROVE overlapped'
  BY DEF TypeOK
<1>1. ASSUME NEW r \in Request, Provisioning(r) PROVE overlapped'
  BY <1>1 DEF Provisioning, CreateParty, ProvisionProject, ProvisionLimit,
              ProvisionAccount, CleanupProject, StoreProject, StoreError, Begin, history
<1>2. ASSUME NEW r \in Request, Rotation(r) PROVE overlapped'
  BY <1>2 DEF Rotation, RotateKey, CreateKey, InstallKey, DiscardKey, ListKeys,
              RetireKey, SettleRotation, Begin, history
<1>3. ASSUME NEW r \in Request, SpendLimit(r) PROVE overlapped'
  BY <1>3 DEF SpendLimit, UpdateSpendLimit, StartUpdate, PostLimit, SetUpdateError,
              FinishUpdate, Begin, history
<1>4. ASSUME NEW r \in Request, Deletion(r) \/ Stop(r) PROVE overlapped'
  BY <1>4 DEF Deletion, DeleteParty, ArchiveProject, DropParty, Stop, Begin, history
<1>5. QED
  BY <1>1, <1>2, <1>3, <1>4 DEF Next, Land, vars

LEMMA SoloInit == Init => Solo
<1> SUFFICES ASSUME Init PROVE Solo
  OBVIOUS
<1>1. \A r \in Request : req[r] = Idle
  BY DEF Init
<1>2. QED
  BY <1>1 DEF Init, Solo, Issued, Alone, Relying, Idle

LEMMA SoloNext == Inv /\ Solo /\ [Next]_vars => Solo'
<1> SUFFICES ASSUME Inv, Solo, [Next]_vars PROVE Solo'
  OBVIOUS
<1>1. Issued'
  BY IssuedNext DEF Solo
<1>2. ASSUME ~overlapped' PROVE Alone'
  <2>1. ~overlapped
    BY <1>2, OverlapStays DEF Inv
  <2>2. CASE Next
    BY <1>2, <2>1, <2>2, AloneNext DEF Solo
  <2>3. CASE UNCHANGED vars
    BY <2>1, <2>3 DEF Solo, vars, Alone, Relying, Safe, Effect
  <2>4. QED
    BY <2>2, <2>3
<1>3. QED
  BY <1>1, <1>2 DEF Solo

LEMMA SoloAlways == Spec => []Solo
BY SoloInit, SoloNext, Invariance, PTL DEF Spec

(* Losing calls, stopping anywhere and retrying never delete the installed *)
(* key of a ready party, as long as no two requests overlap.               *)
THEOREM Survives == Spec => []KeySurvivesRetries
<1>1. Inv /\ Solo => KeySurvivesRetries
  BY DEF Inv, Shape, RowShape, Solo, Alone, Safe, KeySurvivesRetries
<1>2. QED
  BY <1>1, Invariance, SoloAlways, PTL

----------------------------------------------------------------------------
(* The spend limit.  The provider enforces the amount a handler goes by,   *)
(* or one asked in a call that was given up and took effect late.          *)

LimitKept(l) == provider.limit = l \/ provider.limit \in strayed

(* Only amounts that were asked can still arrive.                          *)
Strays == \A e \in late : e.op = "limit" => e.arg \in strayed

Amounts(r) ==
  /\ req[r].pc \in {"account", "store"} => LimitKept(DefaultAmount)
  /\ req[r].pc = "finish" => LimitKept(req[r].cents)
  /\ req[r].pc \in {"post", "post-error", "finish"} => OwnUpdate(r)

Limits ==
  /\ row.status \in {"ready"} \cup Rotating => LimitKept(row.limit)
  /\ \A r \in Request : Amounts(r)

(* A step that leaves the enforced limit alone and forgets no stray one.   *)
Quiet == provider'.limit = provider.limit /\ strayed \subseteq strayed'

(* A call sets the limit only if it asks for one and is confirmed.         *)
LEMMA LimitEffect ==
  ASSUME provider \in Provider, NEW e \in Effects, Answered(e)
  PROVE  /\ strayed \subseteq strayed'
         /\ Strays => Strays'
         /\ ~(e.op = "limit" /\ Confirm(e)) => Quiet
         /\ e.op = "limit" /\ Confirm(e) => provider'.limit = e.arg
<1>1. e.op # "limit" => Apply(e).limit = provider.limit
  <2>1. CASE e.op = "project" \/ provider.project # "active"
    BY <2>1 DEF Apply, Provider, Effects
  <2>2. CASE provider.project = "active" /\ e.op \in {"key", "delete", "archive"}
    BY <2>2 DEF Apply, Provider, Effects
  <2>3. QED
    BY <2>1, <2>2 DEF Effects
<1>2. e.op = "limit" /\ provider.project = "active" => Apply(e).limit = e.arg
  BY DEF Apply, Provider, Effects
<1>3. CASE Confirm(e)
  BY <1>1, <1>2, <1>3 DEF Confirm, Accepts, Quiet, Strays
<1>4. CASE ~Confirm(e) /\ Refuse
  BY <1>4 DEF Refuse, Quiet, Strays
<1>5. CASE ~Confirm(e) /\ GiveUp(e)
  BY <1>5 DEF GiveUp, Quiet, Strays
<1>6. QED
  BY <1>3, <1>4, <1>5 DEF Answered

LEMMA QuietKeeps == ASSUME Quiet, NEW l, LimitKept(l) PROVE LimitKept(l)'
BY DEF Quiet, LimitKept

(* Every step but a late arrival answers one call or asks for none.        *)
LEMMA StraysNext == Inv /\ Strays /\ [Next]_vars => Strays'
<1> SUFFICES ASSUME Inv, Strays, [Next]_vars PROVE Strays'
  OBVIOUS
<1> USE PartyOpenAIAssumption DEF PartyOpenAIAssumption
<1>t. /\ TypeOK /\ provider \in Provider /\ req \in [Request -> Handler]
      /\ nextKey \in Nat
      /\ \A q \in Request : /\ req[q].cents \in Nat /\ req[q].fresh \in Nat
                            /\ req[q].todo \subseteq Nat
  BY DEF Inv, TypeOK, Provider, Handler
<1>q. ASSUME UNCHANGED <<late, strayed>> PROVE Strays'
  BY <1>q DEF Strays
<1>c. ASSUME NEW e \in Effects, Answered(e) PROVE Strays'
  BY <1>c, <1>t, LimitEffect
<1>1. ASSUME NEW r \in Request, Provisioning(r) PROVE Strays'
  <2>1. CASE CreateParty(r) \/ StoreProject(r) \/ StoreError(r)
    BY <2>1, <1>q DEF CreateParty, StoreProject, StoreError
  <2>2. /\ Effect("project", 0) \in Effects /\ Effect("archive", 0) \in Effects
        /\ Effect("limit", DefaultAmount) \in Effects
        /\ Effect("key", nextKey) \in Effects
    BY <1>t DEF Effect, Effects
  <2>3. CASE \/ ProvisionProject(r) \/ ProvisionLimit(r) \/ ProvisionAccount(r)
             \/ CleanupProject(r)
    BY <2>2, <2>3, <1>c DEF ProvisionProject, ProvisionLimit, ProvisionAccount,
                            CleanupProject, Answered
  <2>4. QED
    BY <1>1, <2>1, <2>3 DEF Provisioning
<1>2. ASSUME NEW r \in Request, Rotation(r) PROVE Strays'
  <2>1. CASE RotateKey(r) \/ InstallKey(r) \/ ListKeys(r) \/ SettleRotation(r)
    BY <2>1, <1>q DEF RotateKey, InstallKey, ListKeys, SettleRotation
  <2>2. CASE CreateKey(r) \/ DiscardKey(r)
    <3>1. Effect("key", nextKey) \in Effects /\ Effect("delete", req[r].fresh) \in Effects
      BY <1>t DEF Effect, Effects
    <3>2. QED
      BY <2>2, <3>1, <1>c DEF CreateKey, DiscardKey, Answered
  <2>3. ASSUME NEW k \in req[r].todo, RetireKey(r, k) PROVE Strays'
    <3>1. Effect("delete", k) \in Effects
      BY <1>t DEF Effect, Effects
    <3>2. QED
      BY <2>3, <3>1, <1>c DEF RetireKey, Answered
  <2>4. QED
    BY <1>2, <2>1, <2>2, <2>3 DEF Rotation
<1>3. ASSUME NEW r \in Request, SpendLimit(r) PROVE Strays'
  <2>1. CASE PostLimit(r)
    <3>1. Effect("limit", req[r].cents) \in Effects
      BY <1>t DEF Effect, Effects
    <3>2. QED
      BY <2>1, <3>1, <1>c DEF PostLimit, Answered
  <2>2. QED
    BY <1>3, <2>1, <1>q DEF SpendLimit, UpdateSpendLimit, StartUpdate, SetUpdateError,
                            FinishUpdate
<1>4. ASSUME NEW r \in Request, Deletion(r) \/ Stop(r) PROVE Strays'
  <2>1. CASE ArchiveProject(r)
    <3>1. Effect("archive", 0) \in Effects
      BY DEF Effect, Effects
    <3>2. QED
      BY <2>1, <3>1, <1>c DEF ArchiveProject, Answered
  <2>2. QED
    BY <1>4, <2>1, <1>q DEF Deletion, DeleteParty, DropParty, Stop
<1>5. ASSUME NEW e \in late, Land(e) PROVE Strays'
  BY <1>5 DEF Land, Strays
<1>6. QED
  BY <1>1, <1>2, <1>3, <1>4, <1>5, <1>q DEF Next, vars

LEMMA LimitsNext ==
  ASSUME Inv, Strays, Alone, Limits, Next, ~overlapped'
  PROVE  Limits'
<1> USE PartyOpenAIAssumption DEF PartyOpenAIAssumption
<1>t. /\ TypeOK /\ Shape /\ KeyNumbers /\ row \in Row /\ req \in [Request -> Handler]
      /\ nextKey \in Nat \ {0} /\ provider \in Provider /\ late \subseteq Effects
      /\ \A q \in Request : /\ req[q].cents \in Nat /\ req[q].fresh \in Nat
                            /\ req[q].todo \subseteq Nat
  BY DEF Inv, TypeOK, Provider, Handler
<1>d. ASSUME NEW r \in Request, Done(r)
      PROVE  req'[r].pc = "idle" /\ \A q \in Request \ {r} : req'[q] = req[q]
  BY <1>d, <1>t DEF Done, Idle
<1>g. ASSUME NEW r \in Request, NEW pc, Goto(r, pc)
      PROVE  /\ req'[r].pc = pc /\ req'[r].cents = req[r].cents
             /\ \A q \in Request \ {r} : req'[q] = req[q]
  BY <1>g, <1>t DEF Goto, Handler
<1>b. ASSUME NEW r \in Request, NEW pc, NEW key, NEW cents, Begin(r, pc, key, cents)
      PROVE  /\ req'[r].pc = pc /\ req'[r].cents = cents
             /\ \A q \in Request \ {r} : req'[q] = req[q] /\ req[q].pc = "idle"
  BY <1>b, <1>t DEF Begin, Idle, Handler
<1>s. ASSUME NEW r \in Request, req[r].pc # "idle"
      PROVE  \A q \in Request \ {r} : req[q].pc = "idle"
  BY <1>s DEF Alone
(* The others are idle, and stay so. *)
<1>o. ASSUME NEW r \in Request,
             \A q \in Request \ {r} : req'[q] = req[q] /\ req[q].pc = "idle",
             row'.status \in {"ready"} \cup Rotating => LimitKept(row.limit)',
             Amounts(r)'
      PROVE  Limits'
  BY <1>o DEF Limits, Amounts
<1>k. ASSUME Quiet, UNCHANGED row
      PROVE  row'.status \in {"ready"} \cup Rotating => LimitKept(row.limit)'
  BY <1>k DEF Limits, LimitKept, Quiet
<1>h. ASSUME UNCHANGED <<provider, strayed>> PROVE Quiet
  BY <1>h DEF Quiet
(* A quiet step after which the handler goes by no amount. *)
<1>n. ASSUME NEW r \in Request, req[r].pc # "idle", Quiet,
             \A q \in Request \ {r} : req'[q] = req[q],
             req'[r].pc \notin {"account", "store", "post", "post-error", "finish"},
             \/ UNCHANGED row
             \/ row'.status \notin {"ready"} \cup Rotating
             \/ row.status \in {"ready"} \cup Rotating /\ row'.limit = row.limit
      PROVE  Limits'
  <2>1. Amounts(r)'
    BY <1>n DEF Amounts
  <2>2. row'.status \in {"ready"} \cup Rotating => LimitKept(row.limit)'
    BY <1>n DEF Limits, LimitKept, Quiet
  <2>3. QED
    BY <1>n, <1>s, <1>o, <2>1, <2>2
<1>1. ASSUME NEW r \in Request, CreateParty(r) \/ RotateKey(r) \/ DeleteParty(r)
      PROVE  Limits'
  <2>1. /\ Quiet
        /\ req'[r].pc \in {"project", "newkey", "list", "archive", "drop"}
        /\ \A q \in Request \ {r} : req'[q] = req[q] /\ req[q].pc = "idle"
    BY <1>1, <1>b, <1>h DEF CreateParty, RotateKey, DeleteParty
  <2>2. row'.status \in {"ready"} \cup Rotating => UNCHANGED row
    BY <1>1, <1>t DEF CreateParty, RotateKey, DeleteParty, Row, Rotating
  <2>3. QED
    BY <2>1, <2>2, <1>k, <1>o DEF Amounts
<1>2. ASSUME NEW r \in Request, NEW c \in Amount, UpdateSpendLimit(r, c) PROVE Limits'
  <2>1. /\ Quiet /\ UNCHANGED row
        /\ req'[r].pc \in {"post", "start"} /\ req'[r].cents = c
        /\ \A q \in Request \ {r} : req'[q] = req[q] /\ req[q].pc = "idle"
        /\ req'[r].pc = "post" => Resuming(row) /\ c = row.pending
    BY <1>2, <1>b, <1>h DEF UpdateSpendLimit
  <2>2. Amounts(r)'
    BY <2>1 DEF Amounts, OwnUpdate, Resuming
  <2>3. QED
    BY <2>1, <2>2, <1>k, <1>o
<1>3. ASSUME NEW r \in Request,
             \/ ProvisionProject(r) \/ CleanupProject(r) \/ CreateKey(r)
             \/ DiscardKey(r) \/ ArchiveProject(r)
      PROVE  Limits'
  <2>1. \E e \in Effects : Answered(e) /\ e.op # "limit"
    <3>1. /\ Effect("project", 0) \in Effects /\ Effect("archive", 0) \in Effects
          /\ Effect("key", nextKey) \in Effects
          /\ Effect("delete", req[r].fresh) \in Effects
      BY <1>t DEF Effect, Effects
    <3>2. QED
      BY <1>3, <3>1 DEF Effect, Answered, ProvisionProject, CleanupProject, CreateKey,
                        DiscardKey, ArchiveProject
  <2>2. Quiet
    BY <2>1, <1>t, LimitEffect
  <2>3. /\ UNCHANGED row /\ req[r].pc # "idle"
        /\ req'[r].pc \in {"idle", "limit", "store-error", "install", "drop"}
        /\ \A q \in Request \ {r} : req'[q] = req[q]
    <3>1. CASE CreateKey(r)
      BY <3>1, <1>t, <1>d DEF CreateKey, Handler
    <3>2. CASE ~CreateKey(r)
      BY <1>3, <3>2, <1>d, <1>g DEF ProvisionProject, CleanupProject, DiscardKey,
                                    ArchiveProject
    <3>3. QED
      BY <3>1, <3>2
  <2>4. QED
    BY <2>2, <2>3, <1>n
<1>4. ASSUME NEW r \in Request, ProvisionLimit(r) PROVE Limits'
  <2>1. /\ Effect("limit", DefaultAmount) \in Effects
        /\ Answered(Effect("limit", DefaultAmount))
    BY <1>4 DEF Effect, Effects, Answered, ProvisionLimit
  <2>2. /\ req[r].pc = "limit" /\ UNCHANGED row
        /\ row.status \in {"pending", "deleted"}
    BY <1>4, <1>t DEF ProvisionLimit, Shape, Provisional, Provision
  <2>3. CASE Goto(r, "account") /\ Confirm(Effect("limit", DefaultAmount))
    <3>1. provider'.limit = DefaultAmount
      BY <2>1, <2>3, <1>t, LimitEffect DEF Effect
    <3>2. Amounts(r)'
      BY <2>3, <3>1, <1>g DEF Amounts, LimitKept
    <3>3. QED
      BY <2>2, <2>3, <3>2, <1>g, <1>s, <1>o DEF Rotating
  <2>4. CASE Goto(r, "cleanup")
    BY <2>2, <2>4, <1>g, <1>s, <1>o DEF Amounts, Rotating
  <2>5. QED
    BY <1>4, <2>3, <2>4 DEF ProvisionLimit
<1>5. ASSUME NEW r \in Request, ProvisionAccount(r) PROVE Limits'
  <2>1. Effect("key", nextKey) \in Effects /\ Answered(Effect("key", nextKey))
    BY <1>5, <1>t DEF Effect, Effects, Answered, ProvisionAccount
  <2>2. Quiet
    BY <2>1, <1>t, LimitEffect DEF Effect
  <2>3. /\ req[r].pc = "account" /\ UNCHANGED row
        /\ req'[r].pc \in {"store", "cleanup"}
        /\ \A q \in Request \ {r} : req'[q] = req[q]
    BY <1>5, <1>t, <1>g DEF ProvisionAccount, Handler
  <2>4. LimitKept(DefaultAmount)'
    BY <2>2, <2>3 DEF Limits, Amounts, LimitKept, Quiet
  <2>5. Amounts(r)'
    BY <2>3, <2>4 DEF Amounts
  <2>6. QED
    BY <2>2, <2>3, <2>5, <1>k, <1>s, <1>o
<1>6. ASSUME NEW r \in Request, StoreProject(r) PROVE Limits'
  <2>1. /\ req[r].pc = "store" /\ Quiet
        /\ req'[r].pc \in {"idle", "store-error"}
        /\ \A q \in Request \ {r} : req'[q] = req[q]
    BY <1>6, <1>d, <1>g, <1>h DEF StoreProject
  <2>2. LimitKept(DefaultAmount)'
    BY <2>1 DEF Limits, Amounts, LimitKept, Quiet
  <2>3. UNCHANGED row \/ row'.limit = DefaultAmount
    BY <1>6 DEF StoreProject
  <2>4. row'.status \in {"ready"} \cup Rotating => LimitKept(row.limit)'
    BY <2>1, <2>2, <2>3, <1>k DEF LimitKept
  <2>5. QED
    BY <2>1, <2>4, <1>s, <1>o DEF Amounts
<1>7. ASSUME NEW r \in Request,
             \/ StoreError(r) \/ InstallKey(r) \/ ListKeys(r) \/ SettleRotation(r)
             \/ DropParty(r) \/ Stop(r)
      PROVE  Limits'
  <2>1. Quiet /\ req[r].pc # "idle"
    BY <1>7, <1>h DEF StoreError, InstallKey, ListKeys, SettleRotation, DropParty, Stop
  <2>2. /\ req'[r].pc \in {"idle", "list", "discard", "retire", "settle"}
        /\ \A q \in Request \ {r} : req'[q] = req[q]
    <3>1. CASE InstallKey(r) \/ ListKeys(r)
      BY <3>1, <1>t, <1>g DEF InstallKey, ListKeys, Handler
    <3>2. CASE StoreError(r) \/ SettleRotation(r) \/ DropParty(r) \/ Stop(r)
      BY <3>2, <1>d DEF StoreError, SettleRotation, DropParty, Stop
    <3>3. QED
      BY <1>7, <3>1, <3>2
  <2>3. \/ UNCHANGED row
        \/ row'.status \notin {"ready"} \cup Rotating
        \/ row.status \in {"ready"} \cup Rotating /\ row'.limit = row.limit
    <3>1. CASE StoreError(r) \/ DropParty(r)
      BY <3>1 DEF StoreError, DropParty, Rotating
    <3>2. CASE InstallKey(r)
      BY <3>2, <1>t DEF InstallKey, CanInstall, Row
    <3>3. CASE SettleRotation(r)
      BY <3>3, <1>t DEF SettleRotation, Row
    <3>4. CASE ListKeys(r) \/ Stop(r)
      BY <3>4 DEF ListKeys, Stop
    <3>5. QED
      BY <1>7, <3>1, <3>2, <3>3, <3>4
  <2>4. QED
    BY <2>1, <2>2, <2>3, <1>n
<1>8. ASSUME NEW r \in Request, NEW k \in req[r].todo, RetireKey(r, k) PROVE Limits'
  <2>1. Effect("delete", k) \in Effects /\ Answered(Effect("delete", k))
    BY <1>8, <1>t DEF Effect, Effects, Answered, RetireKey
  <2>2. Quiet
    BY <2>1, <1>t, LimitEffect DEF Effect
  <2>3. /\ req[r].pc = "retire" /\ req'[r].pc = "retire" /\ UNCHANGED row
        /\ \A q \in Request \ {r} : req'[q] = req[q]
    BY <1>8, <1>t DEF RetireKey, Handler
  <2>4. QED
    BY <2>2, <2>3, <1>n
<1>9. ASSUME NEW r \in Request, StartUpdate(r) PROVE Limits'
  <2>1. req[r].pc = "start" /\ Quiet
    BY <1>9, <1>h DEF StartUpdate
  <2>2. CASE UNCHANGED row /\ Done(r)
    BY <2>1, <2>2, <1>d, <1>n
  <2>3. CASE /\ row' = [row EXCEPT !.pending = req[r].cents, !.spend = "updating",
                                   !.status = "spend-updating"]
             /\ Goto(r, "post")
    <3>1. Amounts(r)'
      BY <2>3, <1>t, <1>g DEF Amounts, OwnUpdate, Row, Spending
    <3>2. row'.status \notin {"ready"} \cup Rotating
      BY <2>3, <1>t DEF Row, Rotating
    <3>3. QED
      BY <2>1, <2>3, <3>1, <3>2, <1>g, <1>s, <1>o
  <2>4. QED
    BY <1>9, <2>2, <2>3 DEF StartUpdate
<1>10. ASSUME NEW r \in Request, PostLimit(r) PROVE Limits'
  <2>1. /\ Effect("limit", req[r].cents) \in Effects
        /\ Answered(Effect("limit", req[r].cents))
    BY <1>10, <1>t DEF Effect, Effects, Answered, PostLimit
  <2>2. req[r].pc = "post" /\ UNCHANGED row /\ OwnUpdate(r)
    BY <1>10 DEF PostLimit, Limits, Amounts
  <2>3. row.status \notin {"ready"} \cup Rotating
    BY <2>2 DEF OwnUpdate, Spending, Rotating
  <2>4. CASE Goto(r, "finish") /\ Confirm(Effect("limit", req[r].cents))
    <3>1. provider'.limit = req[r].cents
      BY <2>1, <2>4, <1>t, LimitEffect DEF Effect
    <3>2. Amounts(r)'
      BY <2>2, <2>4, <3>1, <1>g DEF Amounts, LimitKept, OwnUpdate
    <3>3. QED
      BY <2>2, <2>3, <2>4, <3>2, <1>g, <1>s, <1>o
  <2>5. CASE Goto(r, "post-error")
    <3>1. Amounts(r)'
      BY <2>2, <2>5, <1>g DEF Amounts, OwnUpdate
    <3>2. QED
      BY <2>2, <2>3, <2>5, <3>1, <1>g, <1>s, <1>o
  <2>6. QED
    BY <1>10, <2>4, <2>5 DEF PostLimit
<1>11. ASSUME NEW r \in Request, SetUpdateError(r) PROVE Limits'
  <2>1. Quiet /\ req[r].pc = "post-error" /\ OwnUpdate(r)
    BY <1>11, <1>h DEF SetUpdateError, Limits, Amounts
  <2>2. row'.status \notin {"ready"} \cup Rotating
    BY <1>11, <2>1, <1>t DEF SetUpdateError, Row, Rotating
  <2>3. QED
    BY <1>11, <2>1, <2>2, <1>d, <1>n DEF SetUpdateError
<1>12. ASSUME NEW r \in Request, FinishUpdate(r) PROVE Limits'
  <2>1. /\ Quiet /\ req[r].pc = "finish" /\ OwnUpdate(r)
        /\ LimitKept(req[r].cents)
    BY <1>12, <1>h DEF FinishUpdate, Limits, Amounts
  <2>2. row'.limit = req[r].cents
    BY <1>12, <2>1, <1>t DEF FinishUpdate, Row
  <2>3. LimitKept(row.limit)'
    BY <2>1, <2>2 DEF LimitKept, Quiet
  <2>4. /\ req'[r].pc = "idle" /\ \A q \in Request \ {r} : req'[q] = req[q]
    BY <1>12, <1>d DEF FinishUpdate
  <2>5. QED
    BY <2>1, <2>3, <2>4, <1>s, <1>o DEF Amounts
(* A late arrival is a stray amount, or leaves the limit alone. *)
<1>13. ASSUME NEW e \in late, Land(e) PROVE Limits'
  <2>1. UNCHANGED <<row, req, strayed>> /\ provider' = Apply(e) /\ e \in Effects
    BY <1>13, <1>t DEF Land
  <2>2. provider'.limit = provider.limit \/ provider'.limit \in strayed
    BY <2>1, <1>t DEF Apply, Provider, Effects, Strays
  <2>3. ASSUME NEW l, LimitKept(l) PROVE LimitKept(l)'
    BY <2>1, <2>2, <2>3 DEF LimitKept
  <2>4. row'.status \in {"ready"} \cup Rotating => LimitKept(row.limit)'
    BY <2>1, <2>2 DEF Limits, LimitKept
  <2>5. ASSUME NEW r \in Request PROVE Amounts(r)'
    BY <2>1, <2>2 DEF Limits, Amounts, LimitKept, OwnUpdate
  <2>6. QED
    BY <2>4, <2>5 DEF Limits
<1>14. ASSUME NEW r \in Request, Provisioning(r) PROVE Limits'
  BY <1>14, <1>1, <1>3, <1>4, <1>5, <1>6, <1>7 DEF Provisioning
<1>15. ASSUME NEW r \in Request, Rotation(r) PROVE Limits'
  BY <1>15, <1>1, <1>3, <1>7, <1>8 DEF Rotation
<1>16. ASSUME NEW r \in Request, SpendLimit(r) PROVE Limits'
  BY <1>16, <1>2, <1>9, <1>10, <1>11, <1>12 DEF SpendLimit
<1>17. ASSUME NEW r \in Request, Deletion(r) \/ Stop(r) PROVE Limits'
  BY <1>17, <1>1, <1>3, <1>7 DEF Deletion
<1>18. QED
  BY <1>13, <1>14, <1>15, <1>16, <1>17 DEF Next

(* The limit, as long as no two requests have overlapped.                  *)
Enforced == Strays /\ (~overlapped => Limits)

LEMMA EnforcedNext == Inv /\ Solo /\ Enforced /\ [Next]_vars => Enforced'
<1> SUFFICES ASSUME Inv, Solo, Enforced, [Next]_vars PROVE Enforced'
  OBVIOUS
<1>1. Strays'
  BY StraysNext DEF Enforced
<1>2. ASSUME ~overlapped' PROVE Limits'
  <2>1. ~overlapped
    BY <1>2, OverlapStays DEF Inv
  <2>2. CASE Next
    BY <1>2, <2>1, <2>2, LimitsNext DEF Solo, Enforced
  <2>3. CASE UNCHANGED vars
    BY <2>1, <2>3 DEF Enforced, vars, Limits, Amounts, LimitKept, OwnUpdate
  <2>4. QED
    BY <2>2, <2>3
<1>3. QED
  BY <1>1, <1>2 DEF Enforced

(* Refusals, stops and retries never part the limit shown from the limit   *)
(* enforced: with requests that do not overlap only a call given up that   *)
(* takes effect late can.                                                  *)
THEOREM LimitSurvives == Spec => []LimitSurvivesRetries
<1>1. Init => Enforced
  <2> SUFFICES ASSUME Init PROVE Enforced
    OBVIOUS
  <2>1. \A r \in Request : req[r] = Idle
    BY DEF Init
  <2>2. QED
    BY <2>1 DEF Init, Enforced, Strays, Limits, Amounts, Idle, Rotating
<1>2. Spec => []Enforced
  BY <1>1, EnforcedNext, Invariance, SoloAlways, PTL DEF Spec
<1>3. Enforced => LimitSurvivesRetries
  BY DEF Enforced, Limits, LimitKept, LimitSurvivesRetries
<1>4. QED
  BY <1>2, <1>3, PTL
=============================================================================
