-------------------------- MODULE ReconcilerProofs --------------------------
(***************************************************************************)
(* Proofs about Reconciler, for any number of requests, crashes, failures  *)
(* and Asterisk restarts.                                                  *)
(***************************************************************************)
EXTENDS Reconciler, SequenceTheorems, TLAPS

----------------------------------------------------------------------------
(* The inductive invariant, part by part.                                  *)

(* The mutex excludes: whoever is past Lock is its holder, and nobody is   *)
(* anywhere while the app is down.                                         *)
Mutex ==
  /\ \A r \in Run : pc[r] \in Holding <=> holder = r
  /\ up = "down" => \A r \in Run : pc[r] \in Finished \cup {"idle"}

(* Every reload that is waited for is waited for by one run, once.         *)
Awaited ==
  /\ \A i \in 1..Len(reloads) : reloads[i] \in Run => pc[reloads[i]] = "reply"
  /\ \A i, j \in 1..Len(reloads) :
       reloads[i] \in Run /\ reloads[i] = reloads[j] => i = j
  /\ reloads = <<>> => loaded = {}

(* Everything downstream is at most as new as what it was taken from.      *)
Ages ==
  /\ \A f \in File : \A p \in Part :
       live[f][p] <= file[f][p] /\ file[f][p] <= db[p]
  /\ \A p \in Part : seen[p] <= db[p]
  /\ \A r \in Run : \A p \in Part : need[r][p] <= db[p]
  /\ file["pjsip"]["services"] = 0

(* The holder's snapshot covers its own change and everything already      *)
(* written, and the files it has written show the snapshot.                *)
ReadPart(r, p) ==
  IF p = "devices" THEN pc[r] \in Holding \ {"devices"}
                   ELSE pc[r] \in Holding \ {"devices", "services"}

Fresh ==
  \A r \in Run :
    /\ \A p \in Part : ReadPart(r, p) =>
         need[r][p] <= seen[p] /\ \A f \in File : file[f][p] <= seen[p]
    /\ pc[r] \in {"extensions", "reload", "reply"} =>
         file["pjsip"]["devices"] = seen["devices"]
    /\ pc[r] \in {"reload", "reply"} =>
         \A p \in Part : file["extensions"][p] = seen[p]

(* A reload that is waited for loads the files its sender wrote.           *)
Loading ==
  reloads # <<>> /\ Head(reloads) \in Run =>
    \A f \in loaded : live[f] = file[f]

Inv == /\ TypeOK /\ Mutex /\ Awaited /\ Ages /\ Fresh /\ Loading
       /\ SuccessIsPublished /\ SuccessIsConsistent

----------------------------------------------------------------------------
LEMMA NobodyIsNoRun == Nobody \notin Run
BY ReconcilerAssumption DEF ReconcilerAssumption, Run

LEMMA AbandonType ==
  ASSUME reloads \in Seq(Run \cup {Nobody}), NEW who
  PROVE  /\ Abandon(who) \in Seq(Run \cup {Nobody})
         /\ Len(Abandon(who)) = Len(reloads)
         /\ \A i \in 1..Len(reloads) :
              Abandon(who)[i] = IF reloads[i] \in who THEN Nobody ELSE reloads[i]
         /\ Abandon(who) = <<>> <=> reloads = <<>>
<1>1. Len(reloads) \in Nat /\ \A i \in 1..Len(reloads) : reloads[i] \in Run \cup {Nobody}
  OBVIOUS
<1>2. Abandon(who) \in [1..Len(reloads) -> Run \cup {Nobody}]
  BY <1>1 DEF Abandon
<1>3. Abandon(who) \in Seq(Run \cup {Nobody}) /\ Len(Abandon(who)) = Len(reloads)
  BY <1>1, <1>2
<1> QED
  BY <1>1, <1>2, <1>3 DEF Abandon

LEMMA NoneType == None \in Version /\ \A p \in Part : None[p] = 0
BY DEF None, Version

LEMMA ReturnType ==
  ASSUME TypeOK, NEW r \in Run, NEW outcome \in {"ok", "failed", "killed"},
         Return(r, outcome)
  PROVE  /\ pc' \in [Run -> {"idle", "waiting"} \cup Holding \cup Finished]
         /\ holder' \in Run \cup {Nobody}
         /\ seen' \in Version
         /\ up' \in {"down", "starting", "serving"}
         /\ last' \in {"ok", "failed", "killed"}
BY NoneType DEF TypeOK, Return, Finished

LEMMA TypeInit == Init => TypeOK
<1> SUFFICES ASSUME Init PROVE TypeOK
  OBVIOUS
<1>1. <<>> \in Seq(Run \cup {Nobody})
  OBVIOUS
<1> QED
  BY <1>1, NoneType DEF Init, TypeOK, Holding, Finished

LEMMA TypeNext == TypeOK /\ [Next]_vars => TypeOK'
<1> SUFFICES ASSUME TypeOK, [Next]_vars PROVE TypeOK'
  OBVIOUS
<1> USE DEF bounds
<1>a. \A parts : Bump(parts) \in Version
  BY DEF Bump, TypeOK, Version
<1>1. ASSUME NEW r \in Request, NEW parts \in SUBSET Part \ {{}}, Commit(r, parts)
      PROVE TypeOK'
  <2>1. db' \in Version /\ need' \in [Run -> Version]
    BY <1>1, <1>a DEF Commit, TypeOK
  <2> QED
    BY <1>1, <2>1 DEF Commit, TypeOK
<1>2. CASE SilentCommit
  BY <1>2, <1>a DEF SilentCommit, TypeOK
<1>3. ASSUME NEW r \in Run, Lock(r) PROVE TypeOK'
  BY <1>3 DEF Lock, TypeOK, Holding
<1>4. ASSUME NEW r \in Run, NEW p \in Part, Read(r, p) PROVE TypeOK'
  <2>1. seen' \in Version
    BY <1>4 DEF Read, TypeOK, Version
  <2> QED
    BY <1>4, <2>1 DEF Read, TypeOK, Holding
<1>5. ASSUME NEW r \in Run, NEW f \in File, Write(r, f) PROVE TypeOK'
  <2>1. [p \in Part |-> IF p \in Carries(f) THEN seen[p] ELSE 0] \in Version
    BY DEF TypeOK, Version
  <2>2. file' \in [File -> Version]
    BY <1>5, <2>1 DEF Write, TypeOK
  <2> QED
    BY <1>5, <2>2 DEF Write, TypeOK, Holding
<1>6. ASSUME NEW r \in Run, SendReload(r) PROVE TypeOK'
  <2>1. reloads' \in Seq(Run \cup {Nobody})
    BY <1>6 DEF SendReload, TypeOK
  <2> QED
    BY <1>6, <2>1 DEF SendReload, TypeOK, Holding
<1>7. ASSUME NEW r \in Run, Fail(r) PROVE TypeOK'
  BY <1>7, ReturnType, AbandonType DEF Fail, TypeOK
<1>8. ASSUME NEW f \in File, Load(f) PROVE TypeOK'
  BY <1>8 DEF Load, TypeOK
<1>9. CASE Answer
  <2>1. Tail(reloads) \in Seq(Run \cup {Nobody}) /\ Head(reloads) \in Run \cup {Nobody}
    BY <1>9 DEF Answer, TypeOK
  <2>2. CASE Head(reloads) = Nobody
    BY <1>9, <2>1, <2>2 DEF Answer, TypeOK
  <2>3. CASE Head(reloads) # Nobody
    BY <1>9, <2>1, <2>3, ReturnType DEF Answer, TypeOK
  <2> QED
    BY <2>2, <2>3
<1>10. CASE PbxRestart
  <2>1. <<>> \in Seq(Run \cup {Nobody})
    OBVIOUS
  <2> QED
    BY <1>10, <2>1 DEF PbxRestart, TypeOK
<1>11. CASE Crash
  BY <1>11, NoneType, AbandonType DEF Crash, TypeOK, Finished
<1>12. CASE Restart
  BY <1>12 DEF Restart, TypeOK, Run
<1>13. CASE UNCHANGED vars
  BY <1>13 DEF vars, TypeOK
<1> QED
  BY <1>1, <1>2, <1>3, <1>4, <1>5, <1>6, <1>7, <1>8, <1>9, <1>10, <1>11, <1>12, <1>13
     DEF Next, HolderStep, Pbx

(* Type correctness of the publication.                                    *)
THEOREM TypeCorrect == Spec => []TypeOK
BY TypeInit, TypeNext, PTL DEF Spec
----------------------------------------------------------------------------
(* What an answered reload was.                                            *)
LEMMA HeadIsFirst ==
  ASSUME TypeOK, reloads # <<>>
  PROVE  /\ Len(reloads) \in Nat \ {0} /\ Head(reloads) = reloads[1]
         /\ Head(reloads) \in Run \cup {Nobody}
         /\ Len(Tail(reloads)) = Len(reloads) - 1
         /\ \A i \in 1..Len(Tail(reloads)) : Tail(reloads)[i] = reloads[i + 1]
BY DEF TypeOK

LEMMA MutexNext == TypeOK /\ Mutex /\ Awaited /\ [Next]_vars => Mutex'
<1> SUFFICES ASSUME TypeOK, Mutex, Awaited, [Next]_vars PROVE Mutex'
  OBVIOUS
<1> USE NobodyIsNoRun DEF Mutex
<1>1. ASSUME NEW r \in Request, NEW parts \in SUBSET Part \ {{}}, Commit(r, parts)
      PROVE Mutex'
  BY <1>1 DEF Commit, TypeOK, Holding, Finished
<1>2. ASSUME NEW r \in Run, Lock(r) PROVE Mutex'
  BY <1>2 DEF Lock, TypeOK, Holding, Finished
<1>3. ASSUME NEW r \in Run, NEW p \in Part, Read(r, p) PROVE Mutex'
  BY <1>3 DEF Read, TypeOK, Holding, Part, Finished
<1>4. ASSUME NEW r \in Run, NEW f \in File, Write(r, f) PROVE Mutex'
  BY <1>4 DEF Write, TypeOK, Holding, File, Finished
<1>5. ASSUME NEW r \in Run, SendReload(r) PROVE Mutex'
  BY <1>5 DEF SendReload, TypeOK, Holding, Finished
<1>6. ASSUME NEW r \in Run, Fail(r) PROVE Mutex'
  BY <1>6 DEF Fail, Return, TypeOK, Holding, Finished
<1>7. CASE Answer
  <2>1. CASE Head(reloads) = Nobody
    BY <1>7, <2>1 DEF Answer
  <2>2. CASE Head(reloads) # Nobody
    <3>1. Head(reloads) \in Run /\ pc[Head(reloads)] = "reply"
      BY <1>7, <2>2, HeadIsFirst DEF Answer, Awaited
    <3>2. holder = Head(reloads)
      BY <3>1 DEF Holding
    <3> QED
      BY <1>7, <2>2, <3>1, <3>2 DEF Answer, Return, TypeOK, Holding, Finished
  <2> QED
    BY <2>1, <2>2
<1>8. CASE Crash
  BY <1>8 DEF Crash, TypeOK, Holding, Finished
<1>9. CASE Restart
  BY <1>9, ReconcilerAssumption DEF Restart, TypeOK, Holding, Run, Finished
<1>10. CASE UNCHANGED <<pc, holder, up>>
  BY <1>10
<1>11. SilentCommit \/ (\E f \in File : Load(f)) \/ PbxRestart \/ UNCHANGED vars
         => UNCHANGED <<pc, holder, up>>
  BY DEF SilentCommit, Load, PbxRestart, vars
<1> HIDE DEF Mutex
<1> QED
  BY <1>1, <1>2, <1>3, <1>4, <1>5, <1>6, <1>7, <1>8, <1>9, <1>10, <1>11
     DEF Next, HolderStep, Pbx

LEMMA AwaitedNext == TypeOK /\ Mutex /\ Awaited /\ [Next]_vars => Awaited'
<1> SUFFICES ASSUME TypeOK, Mutex, Awaited, [Next]_vars PROVE Awaited'
  OBVIOUS
<1> USE NobodyIsNoRun
<1>a. ASSUME NEW r \in Run, pc[r] # "reply", UNCHANGED <<reloads, loaded>>,
             NEW to, pc' = [pc EXCEPT ![r] = to]
      PROVE  Awaited'
  BY <1>a DEF Awaited, TypeOK
<1>1. ASSUME NEW r \in Request, NEW parts \in SUBSET Part \ {{}}, Commit(r, parts)
      PROVE Awaited'
  BY <1>1, <1>a DEF Commit, Run
<1>2. ASSUME NEW r \in Run, Lock(r) PROVE Awaited'
  BY <1>2, <1>a DEF Lock
<1>3. ASSUME NEW r \in Run, NEW p \in Part, Read(r, p) PROVE Awaited'
  BY <1>3, <1>a DEF Read, Part
<1>4. ASSUME NEW r \in Run, NEW f \in File, Write(r, f) PROVE Awaited'
  BY <1>4, <1>a DEF Write, File
<1>5. ASSUME NEW r \in Run, SendReload(r) PROVE Awaited'
  <2>1. /\ Len(reloads') = Len(reloads) + 1 /\ Len(reloads) \in Nat
        /\ reloads'[Len(reloads) + 1] = r
        /\ \A i \in 1..Len(reloads) : reloads'[i] = reloads[i]
        /\ reloads' # <<>>
    BY <1>5 DEF SendReload, TypeOK
  <2>2. /\ pc[r] = "reload" /\ pc'[r] = "reply"
        /\ \A q \in Run \ {r} : pc'[q] = pc[q]
    BY <1>5 DEF SendReload, TypeOK
  <2>3. \A i \in 1..Len(reloads) : reloads[i] # r
    BY <2>2 DEF Awaited
  <2>4. \A i \in 1..Len(reloads') : i \in 1..Len(reloads) \/ i = Len(reloads) + 1
    BY <2>1
  <2> QED
    BY <2>1, <2>2, <2>3, <2>4 DEF Awaited
<1>6. ASSUME NEW r \in Run, Fail(r) PROVE Awaited'
  <2>1. /\ reloads' = Abandon({r}) /\ UNCHANGED loaded
        /\ \A q \in Run \ {r} : pc'[q] = pc[q]
    BY <1>6 DEF Fail, Return, TypeOK
  <2>2. /\ Len(reloads') = Len(reloads)
        /\ \A i \in 1..Len(reloads) : reloads'[i] \in Run => reloads'[i] = reloads[i]
        /\ \A i \in 1..Len(reloads) : reloads'[i] # r
        /\ reloads' = <<>> => reloads = <<>>
    <3>1. /\ Len(Abandon({r})) = Len(reloads)
          /\ \A i \in 1..Len(reloads) :
               Abandon({r})[i] = IF reloads[i] \in {r} THEN Nobody ELSE reloads[i]
          /\ Abandon({r}) = <<>> <=> reloads = <<>>
      BY AbandonType DEF TypeOK
    <3> QED
      BY <2>1, <3>1
  <2>3. \A i \in 1..Len(reloads') :
          reloads'[i] \in Run => reloads'[i] = reloads[i] /\ reloads[i] \in Run \ {r}
    <3> SUFFICES ASSUME NEW i \in 1..Len(reloads), reloads'[i] \in Run
                 PROVE  reloads'[i] = reloads[i] /\ reloads[i] # r
      BY <2>2
    <3> QED
      BY <2>2
  <2>4. \A i \in 1..Len(reloads') : reloads'[i] \in Run => pc'[reloads'[i]] = "reply"
    <3> SUFFICES ASSUME NEW i \in 1..Len(reloads), reloads'[i] \in Run
                 PROVE  pc'[reloads[i]] = "reply"
      BY <2>2, <2>3
    <3>1. reloads[i] \in Run \ {r} /\ pc[reloads[i]] = "reply"
      BY <2>2, <2>3 DEF Awaited
    <3> QED
      BY <2>1, <3>1
  <2>5. \A i, j \in 1..Len(reloads') :
          reloads'[i] \in Run /\ reloads'[i] = reloads'[j] => i = j
    <3> SUFFICES ASSUME NEW i \in 1..Len(reloads), NEW j \in 1..Len(reloads),
                        reloads'[i] \in Run, reloads'[i] = reloads'[j]
                 PROVE  i = j
      BY <2>2
    <3>1. reloads[i] \in Run /\ reloads[i] = reloads[j]
      BY <2>2, <2>3
    <3> QED
      BY <3>1 DEF Awaited
  <2>6. reloads' = <<>> => loaded' = {}
    BY <2>1, <2>2 DEF Awaited
  <2> QED
    BY <2>4, <2>5, <2>6 DEF Awaited
<1>7. CASE Answer
  <2>1. reloads # <<>> /\ reloads' = Tail(reloads) /\ loaded' = {}
    BY <1>7 DEF Answer
  <2>2. \A i \in 1..Len(reloads') : i + 1 \in 2..Len(reloads) /\ reloads'[i] = reloads[i + 1]
    BY <2>1, HeadIsFirst
  <2>3. \A i \in 1..Len(reloads') : reloads'[i] \in Run => reloads'[i] # Head(reloads)
    BY <2>1, <2>2, HeadIsFirst DEF Awaited
  <2>4. \A q \in Run : q # Head(reloads) => pc'[q] = pc[q]
    BY <1>7 DEF Answer, Return, TypeOK
  <2>5. \A i \in 1..Len(reloads') : reloads'[i] \in Run => pc'[reloads'[i]] = "reply"
    BY <2>2, <2>3, <2>4, HeadIsFirst, <2>1 DEF Awaited
  <2>6. \A i, j \in 1..Len(reloads') :
          reloads'[i] \in Run /\ reloads'[i] = reloads'[j] => i = j
    BY <2>2, HeadIsFirst, <2>1 DEF Awaited
  <2> QED
    BY <2>1, <2>5, <2>6 DEF Awaited
<1>8. CASE Crash
  <2>1. reloads' = Abandon(Run) /\ UNCHANGED loaded
    BY <1>8 DEF Crash
  <2>2. \A i \in 1..Len(reloads') : reloads'[i] \notin Run
    BY <2>1, AbandonType DEF TypeOK
  <2> QED
    BY <2>1, <2>2, AbandonType DEF Awaited, TypeOK
<1>9. CASE Restart
  <2>1. pc[Startup] # "reply" /\ Startup \in Run
    BY <1>9 DEF Restart, Mutex, Finished, Run
  <2> QED
    BY <1>9, <2>1, <1>a DEF Restart
<1>10. CASE UNCHANGED <<pc, reloads, loaded>>
  BY <1>10 DEF Awaited
<1>11. SilentCommit \/ UNCHANGED vars => UNCHANGED <<pc, reloads, loaded>>
  BY DEF SilentCommit, vars
<1>12. ASSUME NEW f \in File, Load(f) PROVE Awaited'
  BY <1>12 DEF Load, Awaited
<1>13. CASE PbxRestart
  BY <1>13 DEF PbxRestart, Awaited
<1> QED
  BY <1>1, <1>2, <1>3, <1>4, <1>5, <1>6, <1>7, <1>8, <1>9, <1>10, <1>11, <1>12, <1>13
     DEF Next, HolderStep, Pbx
----------------------------------------------------------------------------
(* What the steps do to the versions.                                      *)

LEMMA Numbers ==
  ASSUME TypeOK
  PROVE  \A p \in Part :
           /\ db[p] \in Nat /\ seen[p] \in Nat
           /\ \A f \in File : file[f][p] \in Nat /\ live[f][p] \in Nat
           /\ \A r \in Run : need[r][p] \in Nat
BY DEF TypeOK, Version

LEMMA BumpGrows ==
  ASSUME TypeOK, NEW parts
  PROVE  \A p \in Part : Bump(parts)[p] \in Nat /\ db[p] <= Bump(parts)[p]
BY Numbers DEF Bump

LEMMA WriteEffect ==
  ASSUME TypeOK, NEW r \in Run, NEW f \in File, Write(r, f)
  PROVE  \A g \in File : \A p \in Part :
           file'[g][p] = IF g # f THEN file[g][p]
                         ELSE IF p \in Carries(f) THEN seen[p] ELSE 0
BY DEF Write, TypeOK

LEMMA ReadEffect ==
  ASSUME TypeOK, NEW r \in Run, NEW p \in Part, Read(r, p)
  PROVE  \A q \in Part : seen'[q] = IF q = p THEN db[q] ELSE seen[q]
BY DEF Read, TypeOK, Version

LEMMA Agree == 
  ASSUME NEW a \in Version, NEW b \in Version, \A p \in Part : a[p] = b[p]
  PROVE  a = b
BY DEF Version

(* A step that leaves the versions alone, or forgets the snapshot.         *)
LEMMA AgesKept ==
  ASSUME TypeOK, Ages, UNCHANGED <<db, need, file, live>>,
         UNCHANGED seen \/ seen' = None
  PROVE  Ages'
BY NoneType, Numbers DEF Ages

LEMMA AgesNext == TypeOK /\ Ages /\ Fresh /\ [Next]_vars => Ages'
<1> SUFFICES ASSUME TypeOK, Ages, Fresh, [Next]_vars PROVE Ages'
  OBVIOUS
<1>1. ASSUME NEW parts, db' = Bump(parts),
             need' = need \/ \E r \in Run : need' = [need EXCEPT ![r] = db'],
             UNCHANGED <<seen, file, live>>
      PROVE Ages'
  <2>1. \A p \in Part : db'[p] \in Nat /\ db[p] <= db'[p]
    BY <1>1, BumpGrows
  <2>2. \A r \in Run : \A p \in Part : need'[r][p] = need[r][p] \/ need'[r][p] = db'[p]
    BY <1>1 DEF TypeOK
  <2> QED
    BY <1>1, <2>1, <2>2, Numbers DEF Ages
<1>2. ASSUME NEW r \in Run, NEW p \in Part, Read(r, p) PROVE Ages'
  <2>1. UNCHANGED <<db, need, file, live>>
    BY <1>2 DEF Read
  <2> QED
    BY <1>2, <2>1, ReadEffect, Numbers DEF Ages
<1>3. ASSUME NEW r \in Run, NEW f \in File, Write(r, f) PROVE Ages'
  <2>1. pc[r] = f /\ UNCHANGED <<db, need, seen, live>>
    BY <1>3 DEF Write
  <2>2. \A p \in Carries(f) : file[f][p] <= seen[p]
    BY <2>1 DEF Fresh, ReadPart, Carries, File, Part, Holding
  <2>3. \A g \in File : \A p \in Part :
          file[g][p] <= file'[g][p] /\ file'[g][p] <= db[p]
    BY <1>3, <2>2, WriteEffect, Numbers DEF Ages, Carries, File, Part
  <2>4. file'["pjsip"]["services"] = 0
    BY <1>3, WriteEffect DEF Ages, Carries, File, Part
  <2>5. \A g \in File : \A p \in Part : file'[g][p] \in Nat
    BY <1>3, WriteEffect, Numbers
  <2> QED
    BY <2>1, <2>3, <2>4, <2>5, Numbers DEF Ages
<1>4. ASSUME NEW f \in File, Load(f) PROVE Ages'
  <2>1. \A g \in File : live'[g] = live[g] \/ live'[g] = file[g]
    BY <1>4 DEF Load, TypeOK
  <2>2. UNCHANGED <<db, need, seen, file>>
    BY <1>4 DEF Load
  <2> QED
    BY <2>1, <2>2, Numbers DEF Ages
<1>5. CASE PbxRestart
  BY <1>5, Numbers DEF PbxRestart, Ages
<1>6. CASE Restart
  <2>1. \A r \in Run : \A p \in Part : need'[r][p] = need[r][p] \/ need'[r][p] = db[p]
    BY <1>6 DEF Restart, TypeOK
  <2> QED
    BY <1>6, <2>1, Numbers DEF Restart, Ages
<1>7. (\E r \in Run : Lock(r) \/ SendReload(r)) \/ UNCHANGED vars => Ages'
  BY AgesKept DEF Lock, SendReload, vars
<1>8. (\E r \in Run : Fail(r)) \/ Crash => Ages'
  BY AgesKept DEF Fail, Return, Crash
<1>9. Answer => Ages'
  BY AgesKept DEF Answer, Return
<1>10. \A r \in Request, parts \in SUBSET Part \ {{}} : Commit(r, parts) => Ages'
  BY <1>1 DEF Commit, Run
<1>11. SilentCommit => Ages'
  BY <1>1 DEF SilentCommit
<1> QED
  BY <1>2, <1>3, <1>4, <1>5, <1>6, <1>7, <1>8, <1>9, <1>10, <1>11
     DEF Next, HolderStep, Pbx
----------------------------------------------------------------------------
(* The holder's snapshot and files.                                        *)

FreshFor(r) ==
  /\ \A p \in Part : ReadPart(r, p) =>
       need[r][p] <= seen[p] /\ \A f \in File : file[f][p] <= seen[p]
  /\ pc[r] \in {"extensions", "reload", "reply"} =>
       file["pjsip"]["devices"] = seen["devices"]
  /\ pc[r] \in {"reload", "reply"} =>
       \A p \in Part : file["extensions"][p] = seen[p]

LEMMA FreshIsFreshFor == Fresh <=> \A r \in Run : FreshFor(r)
BY DEF Fresh, FreshFor

LEMMA NotHolding ==
  ASSUME NEW r \in Run, pc'[r] \notin Holding
  PROVE  FreshFor(r)'
BY DEF FreshFor, ReadPart, Holding

(* A step of the holder r leaves the others where they are: outside.       *)
LEMMA OthersFresh ==
  ASSUME TypeOK, Mutex, NEW r \in Run, pc[r] \in Holding \/ holder = Nobody,
         NEW to, pc' = [pc EXCEPT ![r] = to], FreshFor(r)'
  PROVE  Fresh'
<1>1. ASSUME NEW q \in Run, q # r PROVE pc'[q] \notin Holding
  BY <1>1, NobodyIsNoRun DEF Mutex, TypeOK
<1>2. \A q \in Run : FreshFor(q)'
  BY <1>1, NotHolding
<1> QED
  BY <1>2 DEF Fresh, FreshFor

LEMMA FreshNext ==
  TypeOK /\ Mutex /\ Awaited /\ Ages /\ Fresh /\ [Next]_vars => Fresh'
<1> SUFFICES ASSUME TypeOK, Mutex, Awaited, Ages, Fresh, [Next]_vars PROVE Fresh'
  OBVIOUS
<1>1. ASSUME NEW r \in Request, NEW parts \in SUBSET Part \ {{}}, Commit(r, parts)
      PROVE Fresh'
  <2>1. /\ r \in Run /\ pc'[r] = "waiting"
        /\ \A q \in Run \ {r} : pc'[q] = pc[q] /\ need'[q] = need[q]
        /\ UNCHANGED <<seen, file>>
    BY <1>1 DEF Commit, TypeOK, Run
  <2>2. FreshFor(r)'
    BY <2>1, NotHolding DEF Holding
  <2>3. ASSUME NEW q \in Run, q # r PROVE FreshFor(q)'
    BY <2>1, <2>3, FreshIsFreshFor DEF FreshFor, ReadPart
  <2>4. \A q \in Run : FreshFor(q)'
    BY <2>2, <2>3
  <2> QED
    BY <2>4 DEF Fresh, FreshFor
<1>2. ASSUME NEW r \in Run, Lock(r) PROVE Fresh'
  <2>1. FreshFor(r)'
    BY <1>2 DEF Lock, TypeOK, FreshFor, ReadPart, Part
  <2> QED
    BY <1>2, <2>1, OthersFresh DEF Lock
<1>3. ASSUME NEW r \in Run, NEW p \in Part, Read(r, p) PROVE Fresh'
  <2>1. /\ pc[r] = p /\ pc'[r] = IF p = "devices" THEN "services" ELSE "pjsip"
        /\ UNCHANGED <<need, file>>
    BY <1>3 DEF Read, TypeOK
  <2>2. need[r][p] <= seen'[p] /\ \A f \in File : file[f][p] <= seen'[p]
    BY <1>3, ReadEffect, Numbers DEF Ages
  <2>3. ASSUME p = "services"
        PROVE  /\ need[r]["devices"] <= seen'["devices"]
               /\ \A f \in File : file[f]["devices"] <= seen'["devices"]
    BY <1>3, <2>1, <2>3, ReadEffect DEF Fresh, ReadPart, Part, Holding
  <2>4. FreshFor(r)'
    BY <2>1, <2>2, <2>3 DEF FreshFor, ReadPart, Part
  <2>5. pc[r] \in Holding
    BY <2>1 DEF Part, Holding
  <2> QED
    BY <1>3, <2>4, <2>5, OthersFresh DEF Read
<1>4. ASSUME NEW r \in Run, NEW f \in File, Write(r, f) PROVE Fresh'
  <2>1. /\ pc[r] = f /\ pc'[r] = IF f = "pjsip" THEN "extensions" ELSE "reload"
        /\ UNCHANGED <<need, seen>>
    BY <1>4 DEF Write, TypeOK
  <2>2. \A p \in Part : need[r][p] <= seen[p] /\ \A g \in File : file[g][p] <= seen[p]
    BY <2>1 DEF Fresh, ReadPart, File, Holding
  <2>3. \A p \in Part : \A g \in File : file'[g][p] <= seen[p]
    BY <1>4, <2>2, WriteEffect, Numbers
  <2>4. f = "pjsip" => file'["pjsip"]["devices"] = seen["devices"]
    BY <1>4, WriteEffect DEF File, Part, Carries
  <2>5. f = "extensions" => /\ file'["pjsip"]["devices"] = seen["devices"]
                            /\ \A p \in Part : file'["extensions"][p] = seen[p]
    BY <1>4, <2>1, WriteEffect DEF File, Part, Carries, Fresh
  <2>6. FreshFor(r)'
    BY <2>1, <2>2, <2>3, <2>4, <2>5 DEF FreshFor, File
  <2>7. pc[r] \in Holding
    BY <2>1 DEF File, Holding
  <2> QED
    BY <1>4, <2>6, <2>7, OthersFresh DEF Write
<1>5. ASSUME NEW r \in Run, SendReload(r) PROVE Fresh'
  <2>1. /\ pc[r] = "reload" /\ pc'[r] = "reply"
        /\ UNCHANGED <<need, seen, file>>
    BY <1>5 DEF SendReload, TypeOK
  <2>2. FreshFor(r)'
    BY <2>1 DEF Fresh, FreshFor, ReadPart, Holding
  <2> QED
    BY <1>5, <2>1, <2>2, OthersFresh DEF SendReload, Holding
<1>6. ASSUME NEW r \in Run, pc[r] \in Holding, NEW outcome \in Finished,
             pc' = [pc EXCEPT ![r] = outcome]
      PROVE Fresh'
  <2>1. FreshFor(r)'
    BY <1>6, NotHolding DEF TypeOK, Holding, Finished
  <2> QED
    BY <1>6, <2>1, OthersFresh
<1>7. ASSUME NEW r \in Run, Fail(r) PROVE Fresh'
  BY <1>6, <1>7 DEF Fail, Return, Finished
<1>8. CASE UNCHANGED <<need, pc, seen, file>>
  BY <1>8 DEF Fresh, ReadPart
<1>9. SilentCommit \/ (\E f \in File : Load(f)) \/ PbxRestart \/ UNCHANGED vars
        => UNCHANGED <<need, pc, seen, file>>
  BY DEF SilentCommit, Load, PbxRestart, vars
<1>10. CASE Answer
  <2>1. CASE Head(reloads) = Nobody
    BY <1>8, <1>10, <2>1 DEF Answer
  <2>2. CASE Head(reloads) # Nobody
    <3>1. Head(reloads) \in Run /\ pc[Head(reloads)] \in Holding
      BY <1>10, <2>2, HeadIsFirst DEF Answer, Awaited, Holding
    <3> QED
      BY <1>6, <1>10, <2>2, <3>1 DEF Answer, Return, Finished
  <2> QED
    BY <2>1, <2>2
<1>11. CASE Crash
  <2>1. \A r \in Run : pc'[r] \notin Holding
    BY <1>11 DEF Crash, Holding, Finished
  <2>2. \A r \in Run : FreshFor(r)'
    BY <2>1, NotHolding
  <2> QED
    BY <2>2 DEF Fresh, FreshFor
<1>12. CASE Restart
  <2>1. \A r \in Run : pc'[r] \notin Holding
    BY <1>12 DEF Restart, Mutex, TypeOK, Holding, Finished
  <2>2. \A r \in Run : FreshFor(r)'
    BY <2>1, NotHolding
  <2> QED
    BY <2>2 DEF Fresh, FreshFor
<1> QED
  BY <1>1, <1>2, <1>3, <1>4, <1>5, <1>7, <1>8, <1>9, <1>10, <1>11, <1>12
     DEF Next, HolderStep, Pbx
----------------------------------------------------------------------------
(* Reloads.                                                                *)

LEMMA LoadingNext ==
  TypeOK /\ Mutex /\ Awaited /\ Loading /\ [Next]_vars => Loading'
<1> SUFFICES ASSUME TypeOK, Mutex, Awaited, Loading, [Next]_vars PROVE Loading'
  OBVIOUS
<1>1. CASE UNCHANGED <<reloads, loaded, live, file>>
  BY <1>1 DEF Loading
<1>2. ASSUME NEW r \in Run, NEW f \in File, Write(r, f) PROVE Loading'
  <2>1. pc[r] = f /\ UNCHANGED reloads
    BY <1>2 DEF Write
  <2>2. ASSUME reloads # <<>>, Head(reloads) \in Run PROVE FALSE
    <3>1. pc[Head(reloads)] = "reply"
      BY <2>2, HeadIsFirst DEF Awaited
    <3>2. holder = Head(reloads) /\ holder = r
      BY <2>1, <2>2, <3>1 DEF Mutex, Holding, File
    <3> QED
      BY <2>1, <3>1, <3>2 DEF File
  <2> QED
    BY <2>1, <2>2 DEF Loading
<1>3. ASSUME NEW r \in Run, SendReload(r) PROVE Loading'
  <2>1. CASE reloads = <<>>
    BY <1>3, <2>1 DEF SendReload, Awaited, Loading
  <2>2. CASE reloads # <<>>
    <3>1. Head(reloads') = Head(reloads)
      BY <1>3, <2>2 DEF SendReload, TypeOK
    <3> QED
      BY <1>3, <2>2, <3>1 DEF SendReload, Loading
  <2> QED
    BY <2>1, <2>2
<1>4. ASSUME NEW who, reloads' = Abandon(who), UNCHANGED <<loaded, live, file>>
      PROVE Loading'
  <2> SUFFICES ASSUME reloads' # <<>>, Head(reloads') \in Run
               PROVE  \A f \in loaded : live[f] = file[f]
    BY <1>4 DEF Loading
  <2>1. /\ reloads # <<>> /\ Len(reloads') = Len(reloads)
        /\ reloads' \in Seq(Run \cup {Nobody})
        /\ \A i \in 1..Len(reloads) :
             reloads'[i] = IF reloads[i] \in who THEN Nobody ELSE reloads[i]
    BY <1>4, AbandonType DEF TypeOK
  <2>2. 1 \in 1..Len(reloads) /\ Head(reloads') = reloads'[1] /\ Head(reloads) = reloads[1]
    BY <2>1, HeadIsFirst
  <2>3. Head(reloads) \in Run
    BY <2>1, <2>2, NobodyIsNoRun
  <2> QED
    BY <2>1, <2>3 DEF Loading
<1>5. ASSUME NEW f \in File, Load(f) PROVE Loading'
  BY <1>5 DEF Load, Loading, TypeOK
<1>6. Answer \/ PbxRestart => Loading'
  BY DEF Answer, PbxRestart, Loading
<1>7. ASSUME NEW r \in Run, Fail(r) PROVE Loading'
  BY <1>4, <1>7 DEF Fail
<1>8. CASE Crash
  BY <1>4, <1>8 DEF Crash
<1>9. SilentCommit \/ Restart \/ UNCHANGED vars => UNCHANGED <<reloads, loaded, live, file>>
  BY DEF SilentCommit, Restart, vars
<1>10. ASSUME NEW r \in Run, NEW p \in Part, Lock(r) \/ Read(r, p)
       PROVE UNCHANGED <<reloads, loaded, live, file>>
  BY <1>10 DEF Lock, Read
<1>11. ASSUME NEW r \in Request, NEW parts, Commit(r, parts)
       PROVE UNCHANGED <<reloads, loaded, live, file>>
  BY <1>11 DEF Commit
<1>12. Part # {}
  BY DEF Part
<1> QED
  BY <1>1, <1>2, <1>3, <1>5, <1>6, <1>7, <1>8, <1>9, <1>10, <1>11, <1>12
     DEF Next, HolderStep, Pbx

(* When Asterisk answers a run that still waits, both files it loaded are  *)
(* that run's and cover its change.                                        *)
LEMMA Answered ==
  ASSUME TypeOK, Mutex, Awaited, Ages, Fresh, Loading, Answer, Head(reloads) # Nobody
  PROVE  /\ Head(reloads) \in Run
         /\ \A f \in File : live[f] = file[f]
         /\ file["pjsip"]["devices"] = file["extensions"]["devices"]
         /\ \A f \in File : \A p \in Carries(f) : need[Head(reloads)][p] <= live[f][p]
<1> DEFINE r == Head(reloads)
<1>1. reloads # <<>> /\ loaded = File
  BY DEF Answer
<1>2. r \in Run /\ pc[r] = "reply"
  BY <1>1, HeadIsFirst DEF Awaited
<1>3. \A f \in File : live[f] = file[f]
  BY <1>1, <1>2 DEF Loading
<1> HIDE DEF r
<1>4. /\ \A p \in Part : need[r][p] <= seen[p]
      /\ file["pjsip"]["devices"] = seen["devices"]
      /\ \A p \in Part : file["extensions"][p] = seen[p]
  BY <1>2 DEF Fresh, ReadPart, Holding
<1>5. file["pjsip"]["devices"] = file["extensions"]["devices"]
  BY <1>4 DEF Part
<1>6. \A f \in File : \A p \in Carries(f) : need[r][p] <= live[f][p]
  BY <1>3, <1>4 DEF Carries, File, Part
<1> QED
  BY <1>2, <1>3, <1>5, <1>6 DEF r

LEMMA LiveGrows ==
  TypeOK /\ Ages /\ [Next]_vars
    => \A f \in File : \A p \in Part : live[f][p] <= live'[f][p]
<1> SUFFICES ASSUME TypeOK, Ages, [Next]_vars,
                    NEW f \in File, NEW p \in Part
             PROVE  live[f][p] <= live'[f][p]
  OBVIOUS
<1>1. live[f][p] \in Nat /\ file[f][p] \in Nat /\ live[f][p] <= file[f][p]
  BY Numbers DEF Ages
<1>2. ASSUME NEW g \in File, Load(g) PROVE live[f][p] <= live'[f][p]
  BY <1>1, <1>2 DEF Load, TypeOK
<1>3. CASE PbxRestart
  BY <1>1, <1>3 DEF PbxRestart
<1>4. CASE UNCHANGED live
  BY <1>1, <1>4
<1>5. (\E r \in Request, parts \in SUBSET Part \ {{}} : Commit(r, parts))
        \/ SilentCommit \/ (\E r \in Run : Lock(r) \/ HolderStep(r))
        \/ Answer \/ Crash \/ Restart \/ UNCHANGED vars => UNCHANGED live
  BY DEF Commit, SilentCommit, Lock, HolderStep, Read, Write, SendReload, Fail,
         Answer, Crash, Restart, vars
<1> QED
  BY <1>2, <1>3, <1>4, <1>5 DEF Next, Pbx

LEMMA FileGrows ==
  TypeOK /\ Ages /\ Fresh /\ [Next]_vars
    => \A f \in File : \A p \in Part : file[f][p] <= file'[f][p]
<1> SUFFICES ASSUME TypeOK, Ages, Fresh, [Next]_vars,
                    NEW f \in File, NEW p \in Part
             PROVE  file[f][p] <= file'[f][p]
  OBVIOUS
<1>1. file[f][p] \in Nat
  BY Numbers
<1>2. ASSUME NEW r \in Run, NEW g \in File, Write(r, g)
      PROVE  file[f][p] <= file'[f][p]
  <2>1. \A q \in Part : file[f][q] <= seen[q]
    BY <1>2 DEF Write, Fresh, ReadPart, File, Holding
  <2>2. CASE f = g
    <3>1. CASE p \in Carries(g)
      BY <1>2, <2>1, <2>2, <3>1, WriteEffect
    <3>2. CASE p \notin Carries(g)
      BY <1>2, <2>2, <3>2, WriteEffect DEF Carries, File, Part, Ages
    <3> QED
      BY <3>1, <3>2
  <2>3. CASE f # g
    BY <1>1, <1>2, <2>3, WriteEffect
  <2> QED
    BY <2>2, <2>3
<1>3. CASE UNCHANGED file
  BY <1>1, <1>3
<1>4. (\E r \in Request, parts \in SUBSET Part \ {{}} : Commit(r, parts))
        \/ SilentCommit \/ Pbx \/ PbxRestart \/ Crash \/ Restart \/ UNCHANGED vars
        => UNCHANGED file
  BY DEF Commit, SilentCommit, Pbx, Load, Answer, PbxRestart, Crash, Restart, vars
<1>5. ASSUME NEW r \in Run, NEW q \in Part,
             Lock(r) \/ Read(r, q) \/ SendReload(r) \/ Fail(r)
      PROVE UNCHANGED file
  BY <1>5 DEF Lock, Read, SendReload, Fail
<1>6. Part # {}
  BY DEF Part
<1> QED
  BY <1>2, <1>3, <1>4, <1>5, <1>6 DEF Next, HolderStep
LEMMA PublishedNext ==
  /\ TypeOK /\ Mutex /\ Awaited /\ Ages /\ Fresh /\ Loading /\ SuccessIsPublished
  /\ [Next]_vars
  => SuccessIsPublished'
<1> SUFFICES ASSUME TypeOK, Mutex, Awaited, Ages, Fresh, Loading,
                    SuccessIsPublished, [Next]_vars
             PROVE  SuccessIsPublished'
  OBVIOUS
<1>a. \A f \in File : \A p \in Carries(f) :
        p \in Part /\ live[f][p] <= live'[f][p] /\ live[f][p] \in Nat
  BY LiveGrows, Numbers DEF Carries, Part
<1>b. TypeOK'
  BY TypeNext
<1>c. \A f \in File : \A p \in Carries(f) :
        live'[f][p] \in Nat /\ \A r \in Run : need[r][p] \in Nat
  BY <1>a, <1>b, Numbers DEF TypeOK, Version
<1>1. ASSUME \A r \in Run : pc'[r] = "ok" => pc[r] = "ok" /\ need'[r] = need[r]
      PROVE SuccessIsPublished'
  <2> SUFFICES ASSUME NEW r \in Run, pc'[r] = "ok", NEW f \in File, NEW p \in Carries(f)
               PROVE  need'[r][p] <= live'[f][p]
    BY DEF SuccessIsPublished
  <2>1. need[r][p] <= live[f][p] /\ need'[r] = need[r]
    BY <1>1 DEF SuccessIsPublished
  <2> QED
    BY <2>1, <1>a, <1>c
<1>2. ASSUME Answer, Head(reloads) # Nobody PROVE SuccessIsPublished'
  <2>1. /\ UNCHANGED <<need, live>>
        /\ \A r \in Run : pc'[r] = "ok" => pc[r] = "ok" \/ r = Head(reloads)
    BY <1>2 DEF Answer, Return, TypeOK
  <2> QED
    BY <1>2, <2>1, Answered DEF SuccessIsPublished
<1>3. ASSUME Answer, Head(reloads) = Nobody PROVE SuccessIsPublished'
  BY <1>3 DEF Answer, SuccessIsPublished
<1>4. ASSUME NEW r \in Request, NEW parts, Commit(r, parts) PROVE SuccessIsPublished'
  BY <1>1, <1>4 DEF Commit, TypeOK, Run
<1>5. ASSUME NEW r \in Run, NEW to, to # "ok", UNCHANGED need,
             pc' = [pc EXCEPT ![r] = to]
      PROVE SuccessIsPublished'
  BY <1>1, <1>5 DEF TypeOK
<1>6. ASSUME NEW r \in Run, NEW p \in Part, NEW f \in File,
             Lock(r) \/ Read(r, p) \/ Write(r, f) \/ SendReload(r) \/ Fail(r)
      PROVE SuccessIsPublished'
  BY <1>5, <1>6 DEF Lock, Read, Write, SendReload, Fail, Return
<1>7. Crash => SuccessIsPublished'
  BY <1>1 DEF Crash, Finished
<1>8. Restart => SuccessIsPublished'
  BY <1>1 DEF Restart, TypeOK
<1>9. CASE UNCHANGED <<pc, need>>
  BY <1>1, <1>9
<1>10. SilentCommit \/ (\E f \in File : Load(f)) \/ PbxRestart \/ UNCHANGED vars
         => UNCHANGED <<pc, need>>
  BY DEF SilentCommit, Load, PbxRestart, vars
<1>11. Part # {} /\ File # {}
  BY DEF Part, File
<1> QED
  BY <1>2, <1>3, <1>4, <1>6, <1>7, <1>8, <1>9, <1>10, <1>11 DEF Next, HolderStep, Pbx

LEMMA ConsistentNext ==
  /\ TypeOK /\ Mutex /\ Awaited /\ Ages /\ Fresh /\ Loading /\ SuccessIsConsistent
  /\ [Next]_vars
  => SuccessIsConsistent'
<1> SUFFICES ASSUME TypeOK, Mutex, Awaited, Ages, Fresh, Loading,
                    SuccessIsConsistent, [Next]_vars
             PROVE  SuccessIsConsistent'
  OBVIOUS
<1>1. CASE UNCHANGED <<holder, last, live, file>>
  BY <1>1 DEF SuccessIsConsistent
<1>2. ASSUME Answer, Head(reloads) # Nobody PROVE SuccessIsConsistent'
  BY <1>2, Answered DEF Answer, SuccessIsConsistent
<1>3. ASSUME Answer, Head(reloads) = Nobody
      PROVE UNCHANGED <<holder, last, live, file>>
  BY <1>3 DEF Answer
<1>4. ASSUME NEW f \in File, Load(f) PROVE SuccessIsConsistent'
  BY <1>4 DEF Load, TypeOK, SuccessIsConsistent
<1>5. PbxRestart => SuccessIsConsistent'
  BY DEF PbxRestart, SuccessIsConsistent
<1>6. ASSUME NEW r \in Run, Lock(r) PROVE SuccessIsConsistent'
  BY <1>6, NobodyIsNoRun DEF Lock, SuccessIsConsistent
<1>7. ASSUME NEW r \in Run, pc[r] \in Holding, UNCHANGED holder
      PROVE SuccessIsConsistent'
  BY <1>7, NobodyIsNoRun DEF Mutex, SuccessIsConsistent
<1>8. ASSUME NEW r \in Run, NEW p \in Part, NEW f \in File,
             Read(r, p) \/ Write(r, f) \/ SendReload(r)
      PROVE SuccessIsConsistent'
  <2>1. pc[r] \in Holding /\ UNCHANGED holder
    BY <1>8 DEF Read, Write, SendReload, Part, File, Holding
  <2> QED
    BY <1>7, <2>1
<1>9. ASSUME NEW r \in Run, Fail(r) PROVE SuccessIsConsistent'
  BY <1>9 DEF Fail, Return, SuccessIsConsistent
<1>10. Crash => SuccessIsConsistent'
  BY DEF Crash, SuccessIsConsistent
<1>11. ASSUME NEW r \in Request, NEW parts, Commit(r, parts)
       PROVE UNCHANGED <<holder, last, live, file>>
  BY <1>11 DEF Commit
<1>12. SilentCommit \/ Restart \/ UNCHANGED vars => UNCHANGED <<holder, last, live, file>>
  BY DEF SilentCommit, Restart, vars
<1>13. Part # {} /\ File # {}
  BY DEF Part, File
<1> QED
  BY <1>1, <1>2, <1>3, <1>4, <1>5, <1>6, <1>8, <1>9, <1>10, <1>11, <1>12, <1>13
     DEF Next, HolderStep, Pbx

----------------------------------------------------------------------------
LEMMA InvInit == Init => Inv
<1> SUFFICES ASSUME Init PROVE Inv
  OBVIOUS
<1>1. TypeOK
  BY TypeInit
<1>2. Mutex /\ Awaited /\ Loading
  BY NobodyIsNoRun DEF Init, Mutex, Awaited, Loading, Holding
<1>3. Ages
  BY NoneType DEF Init, Ages, File, Part
<1>4. Fresh
  BY DEF Init, Fresh, ReadPart, Holding
<1>5. SuccessIsPublished /\ SuccessIsConsistent
  BY DEF Init, SuccessIsPublished, SuccessIsConsistent
<1> QED
  BY <1>1, <1>2, <1>3, <1>4, <1>5 DEF Inv

LEMMA InvNext == Inv /\ [Next]_vars => Inv'
BY TypeNext, MutexNext, AwaitedNext, AgesNext, FreshNext, LoadingNext,
   PublishedNext, ConsistentNext DEF Inv

LEMMA Invariant == Spec => []Inv
BY InvInit, InvNext, PTL DEF Spec

(* A change whose reconciliation succeeded is in Asterisk from then on.    *)
THEOREM Published == Spec => []SuccessIsPublished
<1>1. Inv => SuccessIsPublished
  BY DEF Inv
<1> QED
  BY <1>1, Invariant, PTL

(* A mixture of two configurations is always preceded by a failure.        *)
THEOREM Consistent == Spec => []SuccessIsConsistent
<1>1. Inv => SuccessIsConsistent
  BY DEF Inv
<1> QED
  BY <1>1, Invariant, PTL

(* No interleaving of requests, failures and restarts publishes an older   *)
(* state over a newer one.                                                 *)
THEOREM Monotone == Spec => NeverGoesBack
<1>1. Inv /\ [Next]_vars
        => [\A f \in File : \A p \in Part :
              file[f][p] <= file'[f][p] /\ live[f][p] <= live'[f][p]]_vars
  BY LiveGrows, FileGrows DEF Inv
<1> QED
  BY <1>1, Invariant, PTL DEF Spec, NeverGoesBack
----------------------------------------------------------------------------
(* Refinement: every step, seen through one part of the data, is a step of *)
(* Publication or leaves it alone.                                         *)

LEMMA AckedKept ==
  ASSUME NEW p,
         \A q \in Request : /\ pc'[q] = "ok" <=> pc[q] = "ok"
                            /\ pc[q] = "ok" => need'[q] = need[q]
  PROVE  Acked(p)' = Acked(p)
BY DEF Acked

LEMMA InForceBounds ==
  ASSUME TypeOK, Ages, NEW p \in Part
  PROVE  InForce(p) \in Nat /\ db[p] \in Nat /\ InForce(p) <= db[p]
<1>1. \A f \in File : live[f][p] \in Nat /\ file[f][p] \in Nat
                      /\ live[f][p] <= file[f][p] /\ file[f][p] <= db[p]
  BY Numbers DEF Ages
<1>2. db[p] \in Nat
  BY Numbers
<1> QED
  BY <1>1, <1>2 DEF InForce, File

(* What the phone system acts on only moves towards the database.          *)
LEMMA InForceGrows ==
  ASSUME Inv, [Next]_vars, UNCHANGED db, NEW p \in Part
  PROVE  InForce(p)' \in InForce(p)..db[p]
<1>1. \A f \in File : live[f][p] <= live'[f][p]
  BY LiveGrows DEF Inv
<1>2. Inv'
  BY InvNext
<1>3. \A f \in File : live[f][p] \in Nat /\ live'[f][p] \in Nat
  <2>1. \A f \in File : live[f][p] \in Nat
    BY Numbers DEF Inv
  <2>2. \A f \in File : live'[f][p] \in Nat
    BY <1>2 DEF Inv, TypeOK, Version
  <2> QED
    BY <2>1, <2>2
<1>4. InForce(p)' \in Nat /\ InForce(p)' <= db[p]
  <2>1. \A f \in File : live'[f][p] <= db[p]
    BY <1>2, <1>3 DEF Inv, Ages, TypeOK, Version
  <2> QED
    BY <1>3, <2>1 DEF InForce, File
<1>5. InForce(p) \in Nat /\ InForce(p) <= InForce(p)'
  BY <1>1, <1>3 DEF InForce, File
<1>6. db[p] \in Nat
  BY Numbers DEF Inv
<1> QED
  BY <1>4, <1>5, <1>6

Kept(p) == db'[p] = db[p] /\ InForce(p)' = InForce(p) /\ Acked(p)' = Acked(p)

PartStep(p) ==
  \/ db'[p] = db[p] + 1 /\ InForce(p)' = InForce(p) /\ Acked(p)' = Acked(p)
  \/ db'[p] = db[p] /\ InForce(p)' \in InForce(p)..db[p] /\ Acked(p)' = Acked(p)
  \/ /\ \E v \in 0..InForce(p) : Acked(p)' = Acked(p) \cup {v}
     /\ db'[p] = db[p] /\ InForce(p)' = InForce(p)
  \/ Kept(p)

LEMMA EveryStepIsAPartStep ==
  ASSUME Inv, [Next]_vars, NEW p \in Part
  PROVE  PartStep(p)
<1>1. ASSUME NEW r \in Request, NEW parts, Commit(r, parts) PROVE PartStep(p)
  <2>1. db'[p] = db[p] + 1 \/ db'[p] = db[p]
    BY <1>1 DEF Commit, Bump
  <2>2. InForce(p)' = InForce(p)
    BY <1>1 DEF Commit, InForce
  <2>3. Acked(p)' = Acked(p)
    BY <1>1, AckedKept DEF Commit, Inv, TypeOK, Run
  <2> QED
    BY <2>1, <2>2, <2>3 DEF PartStep, Kept
<1>2. CASE SilentCommit
  <2>1. db'[p] = db[p] + 1 \/ db'[p] = db[p]
    BY <1>2 DEF SilentCommit, Bump
  <2>2. InForce(p)' = InForce(p) /\ Acked(p)' = Acked(p)
    BY <1>2 DEF SilentCommit, InForce, Acked
  <2> QED
    BY <2>1, <2>2 DEF PartStep, Kept
<1>3. ASSUME UNCHANGED <<db, live>>,
             \A q \in Request : /\ pc'[q] = "ok" <=> pc[q] = "ok"
                                /\ pc[q] = "ok" => need'[q] = need[q]
      PROVE PartStep(p)
  BY <1>3, AckedKept DEF PartStep, Kept, InForce
<1>4. ASSUME NEW r \in Run, NEW to, pc[r] # "ok", to # "ok", UNCHANGED <<db, live, need>>,
             pc' = [pc EXCEPT ![r] = to]
      PROVE PartStep(p)
  BY <1>3, <1>4 DEF Inv, TypeOK
<1>5. ASSUME NEW r \in Run, NEW q \in Part, NEW f \in File,
             Lock(r) \/ Read(r, q) \/ Write(r, f) \/ SendReload(r)
      PROVE PartStep(p)
  BY <1>4, <1>5 DEF Lock, Read, Write, SendReload, Part, File
<1>6. ASSUME NEW r \in Run, Fail(r) PROVE PartStep(p)
  BY <1>4, <1>6 DEF Fail, Return, Holding
<1>7. ASSUME NEW f \in File, Load(f) PROVE PartStep(p)
  <2>1. UNCHANGED <<db, pc, need>>
    BY <1>7 DEF Load
  <2>2. InForce(p)' \in InForce(p)..db[p]
    BY <2>1, InForceGrows
  <2> QED
    BY <2>1, <2>2, AckedKept DEF PartStep
<1>8. CASE PbxRestart
  <2>1. UNCHANGED <<db, pc, need>>
    BY <1>8 DEF PbxRestart
  <2>2. InForce(p)' \in InForce(p)..db[p]
    BY <2>1, InForceGrows
  <2> QED
    BY <2>1, <2>2, AckedKept DEF PartStep
<1>9. CASE Answer
  <2>1. UNCHANGED <<db, need, live>>
    BY <1>9 DEF Answer
  <2>2. CASE Head(reloads) = Nobody
    BY <1>3, <1>9, <2>1, <2>2 DEF Answer
  <2>3. CASE Head(reloads) # Nobody
    <3> DEFINE r == Head(reloads)
    <3>1. /\ r \in Run
          /\ \A f \in File : \A q \in Carries(f) : need[r][q] <= live[f][q]
      BY <1>9, <2>3, Answered DEF Inv
    <3>2. pc' = [pc EXCEPT ![r] = "ok"]
      BY <1>9, <2>3 DEF Answer, Return
    <3> HIDE DEF r
    <3>3. CASE r \in Request
      <4>1. need[r][p] \in Nat /\ InForce(p) \in Nat
        BY <3>1, Numbers, InForceBounds DEF Inv
      <4>2. need[r][p] <= InForce(p)
        BY <3>1 DEF InForce, Carries, File, Part
      <4>3. Acked(p)' = Acked(p) \cup {need[r][p]}
        BY <2>1, <3>1, <3>2, <3>3 DEF Acked, Inv, TypeOK, Run
      <4>4. InForce(p)' = InForce(p)
        BY <2>1 DEF InForce
      <4> QED
        BY <2>1, <4>1, <4>2, <4>3, <4>4 DEF PartStep
    <3>4. CASE r = Startup
      <4>1. \A q \in Request : pc'[q] = pc[q]
        BY <3>1, <3>2, <3>4, ReconcilerAssumption DEF Inv, TypeOK, Run, ReconcilerAssumption
      <4> QED
        BY <1>3, <2>1, <4>1
    <3> QED
      BY <3>1, <3>3, <3>4 DEF Run
  <2> QED
    BY <2>2, <2>3
<1>10. CASE Crash
  BY <1>3, <1>10 DEF Crash, Finished, Run
<1>11. CASE Restart
  <2>1. \A q \in Request : pc'[q] = pc[q] /\ need'[q] = need[q]
    BY <1>11, ReconcilerAssumption DEF Restart, Inv, TypeOK, Run, ReconcilerAssumption
  <2> QED
    BY <1>3, <1>11, <2>1 DEF Restart
<1>12. CASE UNCHANGED vars
  BY <1>3, <1>12 DEF vars
<1>13. Part # {} /\ File # {}
  BY DEF Part, File
<1> QED
  BY <1>1, <1>2, <1>5, <1>6, <1>7, <1>8, <1>9, <1>10, <1>11, <1>12, <1>13
     DEF Next, HolderStep, Pbx

LEMMA NothingYet ==
  ASSUME Init, NEW p \in Part
  PROVE  db[p] = 0 /\ InForce(p) = 0 /\ Acked(p) = {}
<1>1. db[p] = 0 /\ InForce(p) = 0
  BY NoneType DEF Init, InForce, File
<1>2. \A q \in Request : pc[q] # "ok"
  BY DEF Init, Run
<1> QED
  BY <1>1, <1>2 DEF Acked

(* Each half of the promise follows part by part: a step is, for that      *)
(* part, a commit, a publication, an acknowledgement or none of these.     *)
LEMMA DevicesStep ==
  Inv /\ [Next]_vars => [Devices!PubNext]_Devices!pubVars
<1>1. "devices" \in Part
  BY DEF Part
<1> QED
  BY <1>1, EveryStepIsAPartStep DEF PartStep, Kept, Devices!PubNext, Devices!Commit,
     Devices!Publish, Devices!Acknowledge, Devices!pubVars

LEMMA ServicesStep ==
  Inv /\ [Next]_vars => [Services!PubNext]_Services!pubVars
<1>1. "services" \in Part
  BY DEF Part
<1> QED
  BY <1>1, EveryStepIsAPartStep DEF PartStep, Kept, Services!PubNext, Services!Commit,
     Services!Publish, Services!Acknowledge, Services!pubVars

(* The reconciler implements Publication for the devices and, at the same  *)
(* time, for the service lines: what is in force moves only forward, to a  *)
(* version that was committed, and a request that reports success finds    *)
(* its change in force, for any number of requests, crashes and restarts.  *)
THEOREM ImplementsPublication == Spec => PublishesInOrder
<1>1. Init => Devices!PubInit /\ Services!PubInit
  BY NothingYet DEF Part, Devices!PubInit, Services!PubInit
<1> QED
  BY <1>1, DevicesStep, ServicesStep, Invariant, PTL
     DEF Spec, PublishesInOrder, Devices!PubSpec, Services!PubSpec
=============================================================================
