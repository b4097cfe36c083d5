----------------------------- MODULE Reconciler -----------------------------
(***************************************************************************)
(* Publication of the directory to Asterisk: internal/telephony.Reconciler *)
(* and the handlers that commit a change and then call it.                 *)
(*                                                                         *)
(* What the two routing queries return is abstracted to a version, one     *)
(* for the devices and one for the services.  A request commits, waits for *)
(* the reconciler's mutex, reads the devices and the services in two       *)
(* queries, replaces pjsip.conf, then extensions.conf, sends a reload over *)
(* AMI and waits for its answer.  Any stage may fail: a canceled request,  *)
(* an unreadable secret, a full disk, an AMI that does not answer in time. *)
(* A failure is logged and nothing retries it but the next change or the   *)
(* next start of the app.                                                  *)
(***************************************************************************)
EXTENDS Integers, Sequences

CONSTANTS
  Request,      \* requests that change the directory, each once
  Startup,      \* the reconciliation main runs before it serves
  Nobody,       \* no request: a free mutex, a reload nobody waits for
  MaxSilent,    \* commits whose handler does not reconcile
  MaxCrashes, MaxPbxRestarts

ASSUME ReconcilerAssumption ==
  /\ Startup \notin Request /\ Nobody \notin Request /\ Startup # Nobody

Run == Request \cup {Startup}

Part == {"devices", "services"}
File == {"pjsip", "extensions"}

(* Render: endpoints come from the devices alone, the dialplan from both.  *)
Carries(f) == IF f = "pjsip" THEN {"devices"} ELSE Part

VARIABLES
  db,       \* versions committed
  need,     \* request -> the versions its commit produced
  pc,       \* where each request is
  holder,   \* who holds the reconciler's mutex
  seen,     \* the versions the holder's queries returned
  file,     \* the generated files on disk
  live,     \* what Asterisk has loaded of each
  reloads,  \* reload commands Asterisk has received, by sender
  loaded,   \* files the first of them has already loaded
  up,       \* "down", "starting" or "serving"
  last,     \* how the last reconciliation to finish ended
  silent, crashes, pbxRestarts

vars == <<db, need, pc, holder, seen, file, live, reloads, loaded, up, last,
          silent, crashes, pbxRestarts>>

bounds == <<silent, crashes, pbxRestarts>>

None == [p \in Part |-> 0]

Finished == {"ok", "failed", "killed"}

Holding == {"devices", "services", "pjsip", "extensions", "reload", "reply"}

----------------------------------------------------------------------------
(* A fresh installation: main starts over an empty directory.              *)
Init ==
  /\ db = None
  /\ need = [r \in Run |-> None]
  /\ pc = [r \in Run |-> IF r = Startup THEN "waiting" ELSE "idle"]
  /\ holder = Nobody
  /\ seen = None
  /\ file = [f \in File |-> None] /\ live = [f \in File |-> None]
  /\ reloads = <<>> /\ loaded = {}
  /\ up = "starting"
  /\ last = "failed"
  /\ silent = 0 /\ crashes = 0 /\ pbxRestarts = 0

Bump(parts) == [p \in Part |-> IF p \in parts THEN db[p] + 1 ELSE db[p]]

(* A handler's transaction commits; the handler goes on to reconcile.      *)
Commit(r, parts) ==
  /\ up = "serving" /\ pc[r] = "idle"
  /\ db' = Bump(parts)
  /\ need' = [need EXCEPT ![r] = db']
  /\ pc' = [pc EXCEPT ![r] = "waiting"]
  /\ UNCHANGED <<holder, seen, file, live, reloads, loaded, up, last, bounds>>

(* A new party and a key rotation change the services and reconcile        *)
(* nothing; a claim by the app whose answer cannot be encoded (more than   *)
(* 128 numbers to call) has added a phone and reconciles nothing.          *)
SilentCommit ==
  /\ up = "serving" /\ silent < MaxSilent
  /\ \E parts \in SUBSET Part \ {{}} : db' = Bump(parts)
  /\ silent' = silent + 1
  /\ UNCHANGED <<need, pc, holder, seen, file, live, reloads, loaded, up, last,
                 crashes, pbxRestarts>>

Lock(r) ==
  /\ pc[r] = "waiting" /\ holder = Nobody
  /\ holder' = r
  /\ pc' = [pc EXCEPT ![r] = "devices"]
  /\ UNCHANGED <<db, need, seen, file, live, reloads, loaded, up, last, bounds>>

(* Publishing the caller's own change, instead of what the database holds  *)
(* once the mutex is taken, would be a bug.                                *)
ReadOwnChange(r, p) ==
  /\ pc[r] = p
  /\ seen' = [seen EXCEPT ![p] = need[r][p]]
  /\ pc' = [pc EXCEPT ![r] = IF p = "devices" THEN "services" ELSE "pjsip"]
  /\ UNCHANGED <<db, need, holder, file, live, reloads, loaded, up, last, bounds>>

(* RoutingDevices, or RoutingServices, with the decryption and rendering   *)
(* of what it returned.                                                    *)
Read(r, p) ==
  /\ pc[r] = p
  /\ seen' = [seen EXCEPT ![p] = db[p]]
  /\ pc' = [pc EXCEPT ![r] = IF p = "devices" THEN "services" ELSE "pjsip"]
  /\ UNCHANGED <<db, need, holder, file, live, reloads, loaded, up, last, bounds>>

(* atomicWrite renames a complete file into place.                         *)
Write(r, f) ==
  /\ pc[r] = f
  /\ file' = [file EXCEPT ![f] = [p \in Part |-> IF p \in Carries(f) THEN seen[p]
                                                                     ELSE 0]]
  /\ pc' = [pc EXCEPT ![r] = IF f = "pjsip" THEN "extensions" ELSE "reload"]
  /\ UNCHANGED <<db, need, holder, seen, live, reloads, loaded, up, last, bounds>>

(* Reconcile returns and its caller goes on; main starts to serve whatever *)
(* the outcome.  Taking the stage reached for the outcome would be a bug.  *)
ReturnStage(r, outcome) ==
  /\ pc' = [pc EXCEPT ![r] = outcome]
  /\ holder' = Nobody
  /\ last' = pc[r]
  /\ seen' = None
  /\ up' = IF r = Startup THEN "serving" ELSE up

Return(r, outcome) ==
  /\ pc' = [pc EXCEPT ![r] = outcome]
  /\ holder' = Nobody
  /\ last' = outcome
  /\ seen' = None
  /\ up' = IF r = Startup THEN "serving" ELSE up

(* Taking the command's delivery for its completion would be a bug.        *)
SendReloadAndReturn(r) ==
  /\ pc[r] = "reload"
  /\ reloads' = Append(reloads, Nobody)
  /\ Return(r, "ok")
  /\ UNCHANGED <<db, need, file, live, loaded, bounds>>

SendReload(r) ==
  /\ pc[r] = "reload"
  /\ reloads' = Append(reloads, r)
  /\ pc' = [pc EXCEPT ![r] = "reply"]
  /\ UNCHANGED <<db, need, holder, seen, file, live, loaded, up, last, bounds>>

(* Asterisk finishes a reload whose sender has gone.                       *)
Abandon(who) == [i \in 1..Len(reloads) |-> IF reloads[i] \in who THEN Nobody
                                                                 ELSE reloads[i]]

(* Returning an error with the mutex held, or none when the AMI deadline   *)
(* has passed, would be bugs.                                              *)
FailHoldingMutex(r) ==
  /\ pc[r] \in Holding
  /\ pc' = [pc EXCEPT ![r] = "failed"]
  /\ last' = "failed"
  /\ up' = IF r = Startup THEN "serving" ELSE up
  /\ reloads' = Abandon({r})
  /\ UNCHANGED <<db, need, holder, seen, file, live, loaded, bounds>>

FailIgnoringDeadline(r) ==
  /\ pc[r] \in Holding
  /\ Return(r, IF pc[r] = "reply" THEN "ok" ELSE "failed")
  /\ reloads' = Abandon({r})
  /\ UNCHANGED <<db, need, file, live, loaded, bounds>>

(* An error at the stage r is in.  A reload already sent goes on without   *)
(* its sender.                                                             *)
Fail(r) ==
  /\ pc[r] \in Holding
  /\ Return(r, "failed")
  /\ reloads' = Abandon({r})
  /\ UNCHANGED <<db, need, file, live, loaded, bounds>>

(* Asterisk serves one reload at a time, one file after the other, and     *)
(* answers when both are loaded.                                           *)
Load(f) ==
  /\ reloads # <<>> /\ f \notin loaded
  /\ live' = [live EXCEPT ![f] = file[f]]
  /\ loaded' = loaded \cup {f}
  /\ UNCHANGED <<db, need, pc, holder, seen, file, reloads, up, last, bounds>>

Answer ==
  /\ reloads # <<>> /\ loaded = File
  /\ reloads' = Tail(reloads) /\ loaded' = {}
  /\ IF Head(reloads) = Nobody THEN UNCHANGED <<pc, holder, seen, last, up>>
                               ELSE Return(Head(reloads), "ok")
  /\ UNCHANGED <<db, need, file, live, bounds>>

(* A restarted Asterisk loads the files as they are; commands are lost.    *)
PbxRestart ==
  /\ pbxRestarts < MaxPbxRestarts
  /\ pbxRestarts' = pbxRestarts + 1
  /\ live' = file
  /\ reloads' = <<>> /\ loaded' = {}
  /\ UNCHANGED <<db, need, pc, holder, seen, file, up, last, silent, crashes>>

(* The app dies: requests that have committed are never reconciled.        *)
Crash ==
  /\ up # "down" /\ crashes < MaxCrashes
  /\ crashes' = crashes + 1
  /\ up' = "down"
  /\ pc' = [r \in Run |-> IF pc[r] \in Finished \cup {"idle"} THEN pc[r] ELSE "killed"]
  /\ holder' = Nobody
  /\ last' = IF holder = Nobody THEN last ELSE "killed"
  /\ reloads' = Abandon(Run)
  /\ seen' = None
  /\ UNCHANGED <<db, need, file, live, loaded, silent, pbxRestarts>>

Restart ==
  /\ up = "down"
  /\ up' = "starting"
  /\ need' = [need EXCEPT ![Startup] = db]
  /\ pc' = [pc EXCEPT ![Startup] = "waiting"]
  /\ UNCHANGED <<db, holder, seen, file, live, reloads, loaded, last, bounds>>

----------------------------------------------------------------------------
HolderStep(r) ==
  \/ \E p \in Part : Read(r, p)
  \/ \E f \in File : Write(r, f)
  \/ SendReload(r)
  \/ Fail(r)

Pbx == (\E f \in File : Load(f)) \/ Answer

Next ==
  \/ \E r \in Request, parts \in SUBSET Part \ {{}} : Commit(r, parts)
  \/ SilentCommit
  \/ \E r \in Run : Lock(r) \/ HolderStep(r)
  \/ Pbx \/ PbxRestart \/ Crash \/ Restart

Spec == Init /\ [][Next]_vars

(* Goroutines are scheduled, every query and file operation returns, and   *)
(* an AMI connection has a deadline; nothing is assumed of Asterisk.       *)
Fairness == \A r \in Run : WF_vars(Lock(r)) /\ WF_vars(HolderStep(r))

FairSpec == Spec /\ Fairness

----------------------------------------------------------------------------
(* Properties.                                                             *)

Version == [Part -> Nat]

TypeOK ==
  /\ db \in Version /\ need \in [Run -> Version] /\ seen \in Version
  /\ pc \in [Run -> {"idle", "waiting"} \cup Holding \cup Finished]
  /\ holder \in Run \cup {Nobody}
  /\ file \in [File -> Version] /\ live \in [File -> Version]
  /\ reloads \in Seq(Run \cup {Nobody}) /\ loaded \in SUBSET File
  /\ up \in {"down", "starting", "serving"}
  /\ last \in {"ok", "failed", "killed"}
  /\ {silent, crashes, pbxRestarts} \subseteq Nat

(* A request whose reconciliation succeeded has its change in Asterisk,    *)
(* from then on, whatever fails, restarts or overtakes it later: a phone   *)
(* revoked with a successful reconciliation never registers again.         *)
SuccessIsPublished ==
  \A r \in Run : pc[r] = "ok" =>
    \A f \in File : \A p \in Carries(f) : need[r][p] <= live[f][p]

(* When the last reconciliation to finish succeeded and none is under way, *)
(* Asterisk runs the two files on disk and they show the same phones: a    *)
(* mixture of two configurations is always preceded by a reported error.   *)
SuccessIsConsistent ==
  holder = Nobody /\ last = "ok" =>
    /\ \A f \in File : live[f] = file[f]
    /\ file["pjsip"]["devices"] = file["extensions"]["devices"]

(* Neither the files nor what Asterisk loaded ever goes back to an older   *)
(* state of the directory.                                                 *)
NeverGoesBack ==
  [][\A f \in File : \A p \in Part :
       file[f][p] <= file'[f][p] /\ live[f][p] <= live'[f][p]]_vars

(* Every change that waits for the reconciler gets a verdict: no failure   *)
(* leaves the mutex held.                                                  *)
EveryChangeGetsAVerdict ==
  \A r \in Request : pc[r] = "waiting" ~> pc[r] \in Finished

----------------------------------------------------------------------------
(* Each kind of routing data is published as Publication promises: the     *)
(* version in force is the older of those the files that carry it show.    *)

InForce(p) ==
  IF p = "services" \/ live["extensions"][p] <= live["pjsip"][p]
  THEN live["extensions"][p] ELSE live["pjsip"][p]

Acked(p) == {need[r][p] : r \in {q \in Request : pc[q] = "ok"}}

Devices == INSTANCE Publication
  WITH committed <- db["devices"], published <- InForce("devices"),
       acked <- Acked("devices")

Services == INSTANCE Publication
  WITH committed <- db["services"], published <- InForce("services"),
       acked <- Acked("services")

(* Phones and service lines reach Asterisk in the order their changes were *)
(* committed, and what a request that reports success changed is in force: *)
(* Reconciler implements Publication for both, though they are read by two *)
(* queries and carried by two files.                                       *)
PublishesInOrder == Devices!PubSpec /\ Services!PubSpec
=============================================================================
