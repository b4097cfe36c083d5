------------------------------ MODULE AmiProofs ------------------------------
(***************************************************************************)
(* Theorems about the questions put to Asterisk, for any number of phones, *)
(* calls and rooms, and whatever happens to them meanwhile.                *)
(***************************************************************************)
EXTENDS Ami, FiniteSetTheorems, TLAPS

(* Frames after which no more of a list comes.                             *)
Last == {"complete", "Nothing", "Error"}

(* Where the request and Asterisk are together.                            *)
ProtocolInv ==
  /\ stage = "idle" => server = "none" /\ wire = None
  /\ answer # "none" => stage = "idle"
  /\ server = "login" => stage = "login"
  /\ server = "command" => stage = "command"
  /\ server \in {"asked", "walking"} => stage = "list"
  /\ server # "walking" => left = {}
  /\ stage = "list" => purpose \notin Commands
  /\ stage = "command" => purpose \in Commands
  /\ purpose # "calls" => query = FirstQuery(purpose)
  /\ purpose = "calls" => query \in {"rooms"} \cup Room
  /\ purpose = "calls" /\ stage = "login" => query = "rooms"
  /\ purpose = "check" => phone \in Endpoint
  /\ stage = "login" /\ purpose \notin Commands
       => heard = NobodyHeard /\ pending = {} /\ lists = NobodyListed
  /\ stage = "list" /\ server = "none"
       => wire # None /\ wire.id = query /\ wire.kind \in Last
  /\ stage = "list" /\ wire # None /\ wire.id = query /\ wire.kind \in Last
       => server = "none"
  /\ wire # None /\ wire.kind = "item"
       => stage = "list" /\ wire.id = query /\ wire.of \in Objects(query)
          /\ (query # "rooms" => wire.value \in Values \ {"gone"})
  /\ stage = "list" /\ wire # None /\ wire.id = query /\ wire.kind = "Error"
       => query \notin Room
  /\ stage = "command" /\ wire # None /\ wire.kind = "Success" => accepted
  /\ answer = "done" => accepted

Known0 ==
  /\ Owner \in [Object -> Endpoint] /\ MaxFrames \in Nat /\ MaxRooms \in Nat
  /\ None \notin Object \cup Endpoint \cup Room
  /\ \A r \in Room : r \notin {"contacts", "rooms", "channels", "login", "command",
                               "other", "gone", "none"}
  /\ \A r \in Room : r \notin ContactState \cup PhoneActivityState

LEMMA Constants == Known0
  BY AmiAssumption DEF Known0

(* Frames are records, whatever None is; only records go on the wire.      *)
LEMMA PlainFrames ==
  /\ \A id \in Question \cup {"login", "command", "other"}, kind \in Kind :
       /\ Plain(id, kind) \in Frame /\ Plain(id, kind) # None
       /\ Plain(id, kind).id = id /\ Plain(id, kind).kind = kind
  /\ \A q \in Question, x \in Object \cup Room, v \in Values \cup {None} :
       [id |-> q, kind |-> "item", of |-> x, value |-> v] \in Frame
<1>1. \A id \in Question \cup {"login", "command", "other"}, kind \in Kind :
        /\ Plain(id, kind) \in Frame /\ Plain(id, kind) # None
        /\ Plain(id, kind).id = id /\ Plain(id, kind).kind = kind
  BY NoneAssumption DEF Plain, Frame
<1>2. "item" \in Kind
  BY DEF Kind
<1> QED
  BY <1>1, <1>2 DEF Frame

(* What a look sends.                                                      *)
Sight(q, x) == [id |-> q, kind |-> "item", of |-> x,
                value |-> IF q = "rooms" THEN None ELSE world[x]]

LEMMA Sights ==
  ASSUME TypeOK, query \in Question, NEW x \in Objects(query)
  PROVE  /\ Sight(query, x) \in Frame /\ Sight(query, x) # None
         /\ Sight(query, x).id = query /\ Sight(query, x).kind = "item"
         /\ Sight(query, x).of = x
<1>1. x \in Object \cup Room
  BY DEF Objects, Object
<1>2. (IF query = "rooms" THEN None ELSE world[x]) \in Values \cup {None}
  <2>1. query # "rooms" => x \in Object
    BY DEF Objects, Object
  <2> QED
    BY <2>1 DEF TypeOK
<1>3. Sight(query, x) \in Frame
  BY <1>1, <1>2, PlainFrames DEF Sight
<1> QED
  BY <1>3, NoneAssumption DEF Sight

LEMMA ShownStates ==
  \A v \in Values \ {"gone"} : Shows(v) \in ContactState \cup PhoneActivityState
  BY DEF Values, Shows, PhoneActivityState

LEMMA FirstQueries ==
  \A for \in Purpose : FirstQuery(for) \in Question \ Room
  BY Constants DEF FirstQuery, Question, Known0

(* A list is done with: there is an answer, or the next room, or a phone   *)
(* to be rung.                                                             *)
GivesList ==
  /\ Answers("list") /\ purpose # "check"
  /\ query \in {"rooms"} \cup Room => pending = {}
  /\ frames' = frames + 1 /\ UNCHANGED <<started, heard, lists, pending>>

GivesUp ==
  /\ Answers("refused")
  /\ frames' = frames + 1 /\ UNCHANGED <<started, heard, lists, pending>>

GoesOnToRing ==
  /\ query = "contacts" /\ purpose = "check" /\ Online(heard[phone])
  /\ stage' = "login" /\ purpose' = "ring" /\ server' = "login"
  /\ left' = {} /\ wire' = None
  /\ frames' = frames + 1 /\ UNCHANGED <<started, heard, lists, pending>>
  /\ UNCHANGED <<phones, query, phone, accepted, answer>>

AsksNext(r) ==
  /\ query \in {"rooms"} \cup Room /\ purpose = "calls"
  /\ r \in pending /\ Ask(r) /\ pending' = pending \ {r} /\ wire' = None
  /\ UNCHANGED <<heard, lists, phones, purpose, phone, accepted, answer>>

LEMMA Queries ==
  ASSUME TypeOK, ProtocolInv
  PROVE  /\ query = "channels" <=> purpose = "activity"
         /\ query \in {"rooms"} \cup Room <=> purpose = "calls"
         /\ query = "contacts" <=> purpose \notin {"activity", "calls"}
  BY Constants DEF ProtocolInv, FirstQuery, Known0, TypeOK, Purpose, Commands

LEMMA Ends ==
  ASSUME TypeOK, ProtocolInv, Whole, wire' = None
  PROVE  GivesList \/ GivesUp \/ GoesOnToRing \/ \E r \in Room : AsksNext(r)
<1>1. CASE query = "contacts" /\ ContactStatuses
  <2>1. query \notin {"rooms"} \cup Room
    BY <1>1, Constants DEF Known0
  <2> QED
    BY <1>1, <2>1 DEF ContactStatuses, GivesList, GivesUp, GoesOnToRing
<1>2. CASE query = "channels" /\ Answers("list")
           /\ UNCHANGED <<heard, lists, started, pending>> /\ frames' = frames + 1
  <2>1. query \notin {"rooms"} \cup Room /\ purpose # "check"
    BY <1>2, Constants, Queries DEF Known0
  <2> QED
    BY <1>2, <2>1 DEF GivesList
<1>3. CASE query \in {"rooms"} \cup Room /\ NextRoom
  <2>1. purpose = "calls" /\ pending \subseteq Room
    BY <1>3, Queries DEF TypeOK
  <2> QED
    BY <1>3, <2>1 DEF NextRoom, GivesList, AsksNext
<1> QED
  BY <1>1, <1>2, <1>3 DEF Whole

(* What reading the end of a list comes to.                                *)
LEMMA LastReads ==
  ASSUME TypeOK, ProtocolInv, ReadEnd \/ ReadNothing \/ ReadRefusal
  PROVE  /\ stage = "list" /\ wire # None /\ wire.id = query /\ wire.kind \in Last
         /\ server = "none" /\ FramesLeft
         /\ \/ Answers("error") /\ UNCHANGED reading
            \/ /\ wire.kind = "Error" => query \in Room
               /\ GivesList \/ GivesUp \/ GoesOnToRing
                  \/ \E r \in Room : AsksNext(r)
<1>1. /\ stage = "list" /\ wire # None /\ wire.id = query /\ wire.kind \in Last
      /\ wire' = None /\ FramesLeft
  BY DEF ReadEnd, ReadNothing, ReadRefusal, ReadsLast, Reads, Mine, Last
<1>2. server = "none"
  BY <1>1 DEF ProtocolInv
<1>3. \/ Answers("error") /\ UNCHANGED reading
      \/ Whole /\ (wire.kind = "Error" => query \in Room)
  BY DEF ReadEnd, ReadNothing, ReadRefusal
<1> QED
  BY <1>1, <1>2, <1>3, Ends

(* The steps, in the groups the proofs take them.                          *)
LEMMA Steps ==
  ASSUME Next
  PROVE  \/ \E x \in Object : \E v \in Value(x) : Change(x, v)
         \/ AnswerLogin \/ TakeCommand \/ StartList \/ EndList \/ SendForeign
         \/ \E x \in Object \cup Room : Look(x)
         \/ \E for \in Purpose \ {"ring"}, e \in Endpoint \cup {None} :
              Begin(for, e) /\ (for = "check" => e \in Endpoint)
         \/ Break \/ ReadOutcome \/ Exceed
         \/ ReadLogin
         \/ PassOver \/ ReadStart
         \/ ReadItem
         \/ ReadEnd \/ ReadNothing \/ ReadRefusal
<1>1. ASSUME NEW for \in Purpose \ {"check", "ring"}, Begin(for, None)
      PROVE  \E g \in Purpose \ {"ring"}, e \in Endpoint \cup {None} :
               Begin(g, e) /\ (g = "check" => e \in Endpoint)
  BY <1>1
<1>2. ASSUME NEW e \in Endpoint, Begin("check", e)
      PROVE  \E g \in Purpose \ {"ring"}, f \in Endpoint \cup {None} :
               Begin(g, f) /\ (g = "check" => f \in Endpoint)
  BY <1>2 DEF Purpose
<1> QED
  BY <1>1, <1>2 DEF Next

----------------------------------------------------------------------------
LEMMA TypePreserved ==
  TypeOK /\ ProtocolInv /\ [Next]_vars => TypeOK'
<1>1. CASE UNCHANGED vars
  BY <1>1 DEF vars, phones, asterisk, reading, request, TypeOK
<1> SUFFICES ASSUME TypeOK, ProtocolInv, Next
             PROVE  TypeOK'
  BY <1>1
<1> USE DEF phones, asterisk, reading, request
<1>0. Known0 /\ query \in Question
  BY Constants DEF TypeOK
<1>2. ASSUME NEW x \in Object, NEW v \in Value(x), Change(x, v)
      PROVE  TypeOK'
  <2>1. v \in Values
    BY DEF Value, Values
  <2> QED
    BY <1>2, <2>1 DEF Change, TypeOK
<1>3. CASE AnswerLogin \/ TakeCommand \/ StartList \/ EndList \/ SendForeign
  <2>1. \A id \in {"login", "command", "other", query},
           kind \in {"Success", "Error", "Nothing", "complete", "event"} :
          Plain(id, kind) \in Frame
    BY <1>0, PlainFrames DEF Kind
  <2>2. wire' \in Frame \cup {None}
    BY <1>3, <2>1 DEF AnswerLogin, TakeCommand, StartList, EndList, SendForeign, Sends
  <2>3. left' \subseteq Objects(query) /\ server' \in {"none", "walking", server}
        /\ accepted' \in BOOLEAN
    BY <1>3 DEF AnswerLogin, TakeCommand, StartList, EndList, SendForeign, TypeOK
  <2>4. UNCHANGED <<phones, reading, request, answer>>
    BY <1>3 DEF AnswerLogin, TakeCommand, StartList, EndList, SendForeign, Sends
  <2> QED
    BY <2>2, <2>3, <2>4 DEF TypeOK
<1>4. ASSUME NEW x \in Object \cup Room, Look(x)
      PROVE  TypeOK'
  <2>1. x \in Objects(query)
    BY <1>4 DEF Look, TypeOK
  <2>2. wire' \in Frame \cup {None}
    BY <1>0, <1>4, <2>1, Sights DEF Look, Sends, Sight, TypeOK
  <2>3. UNCHANGED <<phones, reading, request, answer, server, accepted>>
        /\ left' \subseteq left
    BY <1>4 DEF Look, Sends
  <2> QED
    BY <2>2, <2>3 DEF TypeOK
<1>5. ASSUME NEW for \in Purpose, NEW e \in Endpoint \cup {None}, Begin(for, e)
      PROVE  TypeOK'
  <2>1. query' \in Question
    BY <1>5, FirstQueries DEF Begin
  <2>2. left' = {} /\ wire' = wire
    BY <1>5 DEF Begin, ProtocolInv
  <2>3. /\ since' \in [Object -> SUBSET Values] /\ UNCHANGED world
    BY <1>5 DEF Begin, TypeOK
  <2>4. /\ stage' = "login" /\ server' = "login" /\ purpose' \in Purpose
        /\ phone' \in Endpoint \cup {None} /\ answer' = "none" /\ accepted' = FALSE
        /\ frames' \in 0..MaxFrames /\ started' = FALSE /\ pending' = {}
        /\ heard' = NobodyHeard /\ lists' = NobodyListed
    BY <1>0, <1>5 DEF Begin, FirstHeard, Known0
  <2>5. /\ NobodyHeard \in [Endpoint -> ContactState \cup PhoneActivityState \cup {"none"}]
        /\ NobodyListed \in [Room -> SUBSET Endpoint]
    BY DEF NobodyHeard, NobodyListed
  <2> QED
    BY <2>1, <2>2, <2>3, <2>4, <2>5 DEF TypeOK
<1>6. CASE Break \/ ReadOutcome \/ Exceed
  BY <1>6 DEF Break, ReadOutcome, Exceed, Answers, TypeOK
<1>7. CASE ReadLogin
  <2>1. CASE Answers("error") /\ UNCHANGED reading
    BY <2>1 DEF Answers, TypeOK
  <2>2. CASE /\ stage' = "command" /\ server' = "command" /\ wire' = None
             /\ UNCHANGED <<phones, left, reading, purpose, query, phone,
                            accepted, answer>>
    BY <2>2 DEF TypeOK
  <2>3. CASE /\ Ask(query) /\ since' = [x \in Object |-> {world[x]}] /\ wire' = None
             /\ UNCHANGED <<world, changes, heard, pending, lists, purpose,
                            phone, accepted, answer>>
    <3>1. since' \in [Object -> SUBSET Values]
      BY <2>3 DEF TypeOK
    <3>2. /\ stage' = "list" /\ server' = "asked" /\ query' = query
          /\ left' = {} /\ frames' = 0 /\ started' = FALSE
      BY <2>3 DEF Ask
    <3>3. 0 \in 0..MaxFrames
      BY <1>0 DEF Known0
    <3> QED
      BY <2>3, <3>1, <3>2, <3>3 DEF TypeOK
  <2> QED
    BY <1>7, <2>1, <2>2, <2>3 DEF ReadLogin, Reads
<1>8. CASE PassOver \/ ReadStart
  <2>1. /\ wire' = None /\ frames' = frames + 1 /\ frames < MaxFrames
        /\ started' \in {started, TRUE}
        /\ UNCHANGED <<phones, asterisk, request, accepted, answer, heard, pending, lists>>
    BY <1>8 DEF PassOver, ReadStart, ReadsFrame, Reads, FramesLeft, Goes
  <2>2. frames' \in 0..MaxFrames
    BY <1>0, <2>1 DEF TypeOK, Known0
  <2> QED
    BY <2>1, <2>2 DEF TypeOK
<1>9. CASE ReadItem
  <2>1. /\ wire' = None /\ frames' \in 0..MaxFrames /\ started' = started
        /\ UNCHANGED <<phones, asterisk, request, accepted, answer>>
    BY <1>0, <1>9 DEF ReadItem, ReadsFrame, Reads, FramesLeft, Goes, TypeOK, Known0
  <2>2. /\ wire # None /\ wire.kind = "item" /\ wire.of \in Objects(query)
        /\ query # "rooms" => wire.value \in Values \ {"gone"}
    BY <1>9 DEF ReadItem, ReadsFrame, Reads, ProtocolInv
  <2>3. query # "rooms" => Owner[wire.of] \in Endpoint
    BY <1>0, <2>2 DEF Objects, Object, Known0
  <2>4. CASE query \in {"contacts", "channels"}
    <3>1. /\ UNCHANGED <<pending, lists>>
          /\ heard' = [heard EXCEPT ![Owner[wire.of]] =
                                       Prefer(@, Shows(wire.value))]
      BY <1>0, <1>9, <2>4 DEF ReadItem, Known0
    <3>2. Shows(wire.value) \in ContactState \cup PhoneActivityState
      BY <2>2, <2>4, ShownStates
    <3>3. heard' \in [Endpoint -> ContactState \cup PhoneActivityState \cup {"none"}]
      BY <2>3, <2>4, <3>1, <3>2 DEF TypeOK, Prefer
    <3> QED
      BY <2>1, <3>1, <3>3 DEF TypeOK
  <2>5. CASE query = "rooms"
    <3>1. UNCHANGED <<heard, lists>> /\ pending' \subseteq pending \cup {wire.of}
      BY <1>0, <1>9, <2>5 DEF ReadItem, Known0
    <3>2. wire.of \in Room
      BY <2>2, <2>5 DEF Objects
    <3> QED
      BY <2>1, <3>1, <3>2 DEF TypeOK
  <2>6. CASE query \in Room
    <3>1. /\ UNCHANGED <<heard, pending>>
          /\ lists' = [lists EXCEPT ![query] = @ \cup {Owner[wire.of]}]
      BY <1>0, <1>9, <2>6 DEF ReadItem, Known0
    <3>2. query # "rooms"
      BY <1>0, <2>6 DEF Known0
    <3> QED
      BY <2>1, <2>3, <3>1, <3>2 DEF TypeOK
  <2> QED
    BY <1>0, <2>4, <2>5, <2>6 DEF Question
<1>10. CASE ReadEnd \/ ReadNothing \/ ReadRefusal
  <2>1. frames + 1 \in 0..MaxFrames /\ 0 \in 0..MaxFrames
    BY <1>0, <1>10, LastReads DEF FramesLeft, TypeOK, Known0
  <2>2. CASE Answers("error") /\ UNCHANGED reading
    BY <2>2 DEF Answers, TypeOK
  <2>3. CASE GivesList \/ GivesUp
    BY <2>1, <2>3 DEF GivesList, GivesUp, Answers, TypeOK
  <2>4. CASE GoesOnToRing
    BY <2>1, <2>4 DEF GoesOnToRing, TypeOK, Purpose, Commands
  <2>5. ASSUME NEW r \in Room, AsksNext(r)
        PROVE  TypeOK'
    BY <2>1, <2>5 DEF AsksNext, Ask, TypeOK, Question
  <2> QED
    BY <1>10, <2>2, <2>3, <2>4, <2>5, LastReads
<1> QED
  BY <1>2, <1>3, <1>4, <1>5, <1>6, <1>7, <1>8, <1>9, <1>10, Steps

(* Once an answer is there, the protocol is at rest.                       *)
LEMMA AtRest ==
  ASSUME TypeOK, ProtocolInv, NEW with \in {"error", "refused", "list", "done"},
         Answers(with), with = "done" => accepted
  PROVE  ProtocolInv'
  BY DEF Answers, ProtocolInv, TypeOK

LEMMA ProtocolPreserved ==
  TypeOK /\ ProtocolInv /\ [Next]_vars => ProtocolInv'
<1> USE DEF phones, asterisk, reading, request
<1>1. CASE UNCHANGED vars
  BY <1>1 DEF vars, ProtocolInv
<1> SUFFICES ASSUME TypeOK, ProtocolInv, Next
             PROVE  ProtocolInv'
  BY <1>1
<1>0. Known0 /\ query \in Question
  BY Constants DEF TypeOK
<1>2. ASSUME NEW x \in Object, NEW v \in Value(x), Change(x, v)
      PROVE  ProtocolInv'
  BY <1>2 DEF Change, ProtocolInv
<1>3. CASE AnswerLogin \/ TakeCommand \/ StartList \/ EndList \/ SendForeign
  <2>1. /\ UNCHANGED <<phones, reading, request, answer>> /\ wire = None
    BY <1>3 DEF AnswerLogin, TakeCommand, StartList, EndList, SendForeign, Sends
  <2>2. \A id \in {"login", "command", "other", query}, kind \in Kind :
          /\ Plain(id, kind) # None
          /\ Plain(id, kind).id = id /\ Plain(id, kind).kind = kind
    BY <1>0, PlainFrames
  <2>3. {"Success", "Error", "Nothing", "complete", "event"} \subseteq Kind
        /\ {"login", "command", "other"} \cap Question = {}
    BY <1>0 DEF Kind, Question, Known0
  <2>4. CASE AnswerLogin
    <3>1. PICK status \in {"Success", "Error"} : wire' = Plain("login", status)
      BY <2>4 DEF AnswerLogin, Sends
    <3>2. wire' # None /\ wire'.id = "login" /\ wire'.kind = status
      BY <2>2, <2>3, <3>1
    <3>3. server = "login" /\ server' = "none" /\ stage = "login"
          /\ UNCHANGED <<left, accepted>>
      BY <2>4 DEF AnswerLogin, ProtocolInv
    <3> QED
      BY <2>1, <3>2, <3>3 DEF ProtocolInv
  <2>5. CASE TakeCommand
    <3>1. PICK status \in {"Success", "Error"} :
            /\ wire' = Plain("command", status)
            /\ status = "Success" => accepted'
            /\ accepted => accepted'
      BY <2>5 DEF TakeCommand, Sends
    <3>2. wire' # None /\ wire'.id = "command" /\ wire'.kind = status
      BY <2>2, <2>3, <3>1
    <3>3. server = "command" /\ server' = "none" /\ stage = "command" /\ UNCHANGED left
      BY <2>5 DEF TakeCommand, ProtocolInv
    <3> QED
      BY <2>1, <3>1, <3>2, <3>3 DEF ProtocolInv
  <2>6. CASE StartList
    <3>1. PICK kind \in {"Success", "Nothing", "Error"} :
            /\ wire' = Plain(query, kind)
            /\ kind = "Success" => server' = "walking"
            /\ kind # "Success" => server' = "none" /\ UNCHANGED left
            /\ kind = "Error" => query \notin Room
      BY <2>6 DEF StartList, Sends
    <3>2. wire' # None /\ wire'.id = query /\ wire'.kind = kind
      BY <2>2, <2>3, <3>1
    <3>3. server = "asked" /\ stage = "list" /\ UNCHANGED accepted
      BY <2>6 DEF StartList, ProtocolInv
    <3> QED
      BY <2>1, <3>1, <3>2, <3>3 DEF ProtocolInv, Last
  <2>7. CASE EndList
    <3>1. wire' = Plain(query, "complete")
      BY <2>7 DEF EndList, Sends
    <3>2. wire' # None /\ wire'.id = query /\ wire'.kind = "complete"
      BY <2>2, <2>3, <3>1
    <3>3. server = "walking" /\ server' = "none" /\ stage = "list" /\ left = {}
          /\ UNCHANGED <<left, accepted>>
      BY <2>7 DEF EndList, ProtocolInv
    <3> QED
      BY <2>1, <3>2, <3>3 DEF ProtocolInv, Last
  <2>8. CASE SendForeign
    <3>1. PICK kind \in {"event", "complete"} : wire' = Plain("other", kind)
      BY <2>8 DEF SendForeign, Sends
    <3>2. wire' # None /\ wire'.id = "other" /\ wire'.kind = kind
      BY <2>2, <2>3, <3>1
    <3>3. query # "other" /\ stage # "idle" /\ UNCHANGED <<server, left, accepted>>
      BY <1>0, <2>3, <2>8 DEF SendForeign
    <3> QED
      BY <2>1, <3>2, <3>3 DEF ProtocolInv
  <2> QED
    BY <1>3, <2>4, <2>5, <2>6, <2>7, <2>8
<1>4. ASSUME NEW x \in Object \cup Room, Look(x)
      PROVE  ProtocolInv'
  <2>1. x \in Objects(query) /\ server = "walking" /\ stage = "list"
    BY <1>4 DEF Look, TypeOK, ProtocolInv
  <2>2. /\ UNCHANGED <<phones, reading, request, answer, server, accepted>>
        /\ \/ UNCHANGED wire
           \/ wire = None /\ wire' = Sight(query, x) /\ Listed(query, x)
    BY <1>4 DEF Look, Sends, Sight
  <2>3. CASE UNCHANGED wire
    BY <2>1, <2>2, <2>3 DEF ProtocolInv
  <2>4. CASE wire = None /\ wire' = Sight(query, x) /\ Listed(query, x)
    <3>1. wire' # None /\ wire'.id = query /\ wire'.kind = "item" /\ wire'.of = x
      BY <1>0, <2>1, <2>4, Sights
    <3>2. query # "rooms" => wire'.value = world[x] /\ world[x] # "gone"
      BY <1>0, <2>1, <2>4 DEF Sight, Listed, Known0
    <3>3. query # "rooms" => wire'.value \in Values \ {"gone"}
      BY <2>1, <3>2 DEF TypeOK, Objects, Object
    <3> QED
      BY <2>1, <2>2, <3>1, <3>3 DEF ProtocolInv, Last
  <2> QED
    BY <2>2, <2>3, <2>4
<1>5. ASSUME NEW for \in Purpose \ {"ring"}, NEW e \in Endpoint \cup {None},
             Begin(for, e), for = "check" => e \in Endpoint
      PROVE  ProtocolInv'
  <2>1. /\ stage' = "login" /\ server' = "login" /\ purpose' = for /\ phone' = e
        /\ query' = FirstQuery(for) /\ answer' = "none" /\ wire' = None /\ left' = {}
        /\ heard' = NobodyHeard /\ pending' = {} /\ lists' = NobodyListed
    BY <1>5 DEF Begin, FirstHeard, ProtocolInv
  <2>2. for = "calls" => FirstQuery(for) = "rooms"
    BY DEF FirstQuery
  <2> QED
    BY <1>5, <2>1, <2>2 DEF ProtocolInv
<1>6. CASE Break \/ ReadOutcome \/ Exceed
  <2>1. CASE Break \/ Exceed
    BY <2>1, AtRest DEF Break, Exceed
  <2>2. CASE ReadOutcome
    <3>1. PICK with \in {"done", "error"} :
            Answers(with) /\ (with = "done" => accepted)
      BY <2>2 DEF ReadOutcome, Reads, ProtocolInv
    <3> QED
      BY <3>1, AtRest
  <2> QED
    BY <1>6, <2>1, <2>2
<1>7. CASE ReadLogin
  <2>1. stage = "login" /\ server # "asked" /\ server # "walking" /\ left = {}
        /\ answer = "none"
    BY <1>7 DEF ReadLogin, ProtocolInv, TypeOK
  <2>2. CASE Answers("error") /\ UNCHANGED reading
    BY <2>2, AtRest
  <2>3. CASE /\ purpose \in Commands
             /\ stage' = "command" /\ server' = "command" /\ wire' = None
             /\ UNCHANGED <<phones, left, reading, purpose, query, phone,
                            accepted, answer>>
    BY <2>1, <2>3 DEF ProtocolInv
  <2>4. CASE /\ purpose \notin Commands
             /\ Ask(query) /\ since' = [x \in Object |-> {world[x]}] /\ wire' = None
             /\ UNCHANGED <<world, changes, heard, pending, lists, purpose,
                            phone, accepted, answer>>
    <3>1. /\ stage' = "list" /\ server' = "asked" /\ query' = query /\ left' = {}
      BY <2>4 DEF Ask
    <3> QED
      BY <2>1, <2>4, <3>1 DEF ProtocolInv
  <2> QED
    BY <1>7, <2>2, <2>3, <2>4 DEF ReadLogin, Reads
<1>8. CASE PassOver \/ ReadStart
  <2>1. /\ wire' = None /\ stage = "list" /\ server # "none" /\ UNCHANGED pending
        /\ UNCHANGED <<phones, asterisk, request, accepted, answer, heard, lists>>
    <3>1. wire # None /\ (wire.id # query \/ wire.kind = "Success") /\ stage = "list"
      BY <1>8 DEF PassOver, ReadStart, ReadsFrame, Reads, Mine
    <3>2. server # "none"
      BY <3>1 DEF ProtocolInv, Last
    <3> QED
      BY <1>8, <3>1, <3>2 DEF PassOver, ReadStart, ReadsFrame, Reads, Goes
  <2> QED
    BY <2>1 DEF ProtocolInv
<1>9. CASE ReadItem
  <2>1. wire # None /\ wire.kind = "item" /\ stage = "list" /\ wire' = None
        /\ UNCHANGED <<phones, asterisk, request, accepted, answer>>
    BY <1>9 DEF ReadItem, ReadsFrame, Reads, Goes
  <2>2. server # "none"
    BY <2>1 DEF ProtocolInv, Last
  <2> QED
    BY <2>1, <2>2 DEF ProtocolInv
<1>10. CASE ReadEnd \/ ReadNothing \/ ReadRefusal
  <2>0. stage = "list" /\ server = "none" /\ left = {}
    BY <1>10, LastReads DEF ProtocolInv
  <2>1. CASE Answers("error") /\ UNCHANGED reading
    BY <2>1, AtRest
  <2>2. CASE GivesList \/ GivesUp
    BY <2>2, AtRest DEF GivesList, GivesUp
  <2>3. CASE GoesOnToRing
    BY <2>0, <2>3, Queries DEF GoesOnToRing, ProtocolInv, FirstQuery, Commands
  <2>4. ASSUME NEW r \in Room, AsksNext(r)
        PROVE  ProtocolInv'
    BY <2>0, <2>4 DEF AsksNext, Ask, ProtocolInv, Commands
  <2> QED
    BY <1>10, <2>1, <2>2, <2>3, <2>4, LastReads
<1> QED
  BY <1>2, <1>3, <1>4, <1>5, <1>6, <1>7, <1>8, <1>9, <1>10, Steps

----------------------------------------------------------------------------
(* What has been read, or is on the wire, has been so since the question   *)
(* was put.                                                                *)
HeardOf(e) ==
  \E x \in Objects(query) :
    Owner[x] = e /\ \E v \in since[x] : heard[e] = Shows(v)

TrueInv ==
  /\ stage = "list" => \A x \in Object : world[x] \in since[x]
  /\ \A e \in Endpoint :
       heard[e] # "none" => query \in {"contacts", "channels"} /\ HeardOf(e)
  /\ \A r \in Room : \A e \in lists[r] :
       \E x \in Channel : Owner[x] = e /\ r \in since[x]
  /\ wire # None /\ wire.kind = "item" =>
       /\ query \in {"contacts", "channels"} => wire.value \in since[wire.of]
       /\ query \in Room => query \in since[wire.of]
       /\ query = "rooms" => wire.of \in RoomsSince
  /\ query = "rooms" => pending \subseteq RoomsSince
  /\ purpose = "ring" =>
       \E x \in Contact :
         Owner[x] = phone /\ since[x] \cap {"reachable", "nonqualified"} # {}

(* What has been so all the while has been read, is on the wire, or is     *)
(* still to be looked at; or the question has been refused.                *)
ToCome(x) ==
  \/ server = "asked"
  \/ server = "walking" /\ x \in left
  \/ wire # None /\ wire.kind = "item" /\ wire.of = x
  \/ wire # None /\ wire.id = query /\ wire.kind = "Error"

StatesInv ==
  stage = "list" /\ query \in {"contacts", "channels"} =>
    \A x \in Objects(query), v \in Values \ {"gone"} :
      since[x] = {v} => ToCome(x) \/ Rank(heard[Owner[x]]) >= Rank(Shows(v))

InHand(x, r) ==
  \/ query = "rooms" /\ ToCome(r)
  \/ r \in pending
  \/ r = query /\ ToCome(x)
  \/ Owner[x] \in lists[r]

RoomsInv ==
  stage = "list" /\ purpose = "calls" /\ Cardinality(RoomsSince) <= MaxRooms =>
    \A x \in Channel, r \in Room : since[x] = {r} => InHand(x, r)

(* What is known since the question was put only grows while it is being   *)
(* answered.                                                               *)
LEMMA Growing ==
  ASSUME TypeOK, TrueInv, NEW y \in Object, NEW u \in Value(y), Change(y, u)
  PROVE  /\ \A x \in Object : since[x] \subseteq since'[x]
         /\ RoomsSince \subseteq RoomsSince'
         /\ stage = "list" =>
              \A x \in Object : /\ world'[x] \in since'[x]
                               /\ \A v : since'[x] = {v} => since[x] = {v}
<1>1. /\ world \in [Object -> Values] /\ since \in [Object -> SUBSET Values]
      /\ world' = [world EXCEPT ![y] = u]
      /\ since' = IF stage = "list" THEN [since EXCEPT ![y] = @ \cup {u}] ELSE since
      /\ stage = "list" => \A x \in Object : world[x] \in since[x]
  BY DEF TypeOK, TrueInv, Change
<1>2. \A x \in Object : since[x] \subseteq since'[x]
  BY <1>1
<1>3. RoomsSince \subseteq RoomsSince'
  BY <1>2 DEF RoomsSince, Object
<1>4. ASSUME stage = "list", NEW x \in Object
      PROVE  /\ world'[x] \in since'[x]
             /\ \A v : since'[x] = {v} => since[x] = {v}
  <2>1. CASE x = y
    BY <1>1, <1>4, <2>1
  <2>2. CASE x # y
    BY <1>1, <1>4, <2>2
  <2> QED
    BY <2>1, <2>2
<1> QED
  BY <1>2, <1>3, <1>4

(* Frames that bring no item change nothing of what is known.              *)
LEMMA TrueWithout ==
  ASSUME TypeOK, TrueInv, UNCHANGED <<phones, heard, lists, pending, purpose, phone, query>>,
         stage' = "list" => stage = "list",
         wire' # None => wire'.kind # "item"
  PROVE  TrueInv'
  BY DEF TrueInv, HeardOf, RoomsSince, phones

LEMMA PlainWire ==
  ASSUME TypeOK, AnswerLogin \/ TakeCommand \/ StartList \/ EndList \/ SendForeign
  PROVE  /\ wire = None /\ wire' # None /\ wire'.kind # "item"
         /\ UNCHANGED <<phones, reading, request, answer>>
<1>1. PICK id \in {"login", "command", "other", query},
           kind \in {"Success", "Error", "Nothing", "complete", "event"} :
             wire' = Plain(id, kind)
  BY DEF AnswerLogin, TakeCommand, StartList, EndList, SendForeign, Sends
<1>2. id \in Question \cup {"login", "command", "other"} /\ kind \in Kind
  BY <1>1 DEF TypeOK, Kind
<1>3. wire' # None /\ wire'.kind = kind
  BY <1>1, <1>2, PlainFrames
<1> QED
  BY <1>1, <1>3 DEF AnswerLogin, TakeCommand, StartList, EndList, SendForeign, Sends

LEMMA TruePreserved ==
  TypeOK /\ ProtocolInv /\ TrueInv /\ [Next]_vars => TrueInv'
<1> USE DEF phones, asterisk, reading, request
<1>1. CASE UNCHANGED vars
  BY <1>1 DEF vars, TrueInv, HeardOf, RoomsSince
<1> SUFFICES ASSUME TypeOK, ProtocolInv, TrueInv, Next
             PROVE  TrueInv'
  BY <1>1
<1>0. Known0 /\ query \in Question
  BY Constants DEF TypeOK
<1>2. ASSUME NEW y \in Object, NEW u \in Value(y), Change(y, u)
      PROVE  TrueInv'
  <2>1. UNCHANGED <<heard, lists, pending, purpose, phone, query, stage, wire>>
    BY <1>2 DEF Change
  <2>2. /\ \A x \in Object : since[x] \subseteq since'[x]
        /\ RoomsSince \subseteq RoomsSince'
        /\ stage = "list" => \A x \in Object : world'[x] \in since'[x]
    BY <1>2, Growing
  <2>3. ASSUME NEW e \in Endpoint, heard[e] # "none"
        PROVE  query \in {"contacts", "channels"} /\ HeardOf(e)'
    <3>1. query \in {"contacts", "channels"} /\ HeardOf(e)
      BY <2>3 DEF TrueInv
    <3>2. Objects(query) \subseteq Object /\ query' = query /\ heard' = heard
      BY <2>1, <3>1 DEF Objects, Object
    <3> QED
      BY <2>2, <3>1, <3>2 DEF HeardOf
  <2>4. ASSUME NEW r \in Room, NEW e \in lists[r]
        PROVE  \E x \in Channel : Owner[x] = e /\ r \in since'[x]
    BY <2>2 DEF TrueInv, Object
  <2>5. ASSUME wire # None, wire.kind = "item"
        PROVE  /\ query \in {"contacts", "channels"} => wire.value \in since'[wire.of]
               /\ query \in Room => query \in since'[wire.of]
               /\ query = "rooms" => wire.of \in RoomsSince'
    <3>1. query # "rooms" => wire.of \in Object
      BY <2>5 DEF ProtocolInv, Objects, Object
    <3> QED
      BY <1>0, <2>2, <2>5, <3>1 DEF TrueInv, Known0
  <2>6. query = "rooms" => pending \subseteq RoomsSince'
    BY <2>2 DEF TrueInv
  <2>7. purpose = "ring" =>
          \E x \in Contact :
            Owner[x] = phone /\ since'[x] \cap {"reachable", "nonqualified"} # {}
    BY <2>2 DEF TrueInv, Object
  <2> QED
    BY <2>1, <2>2, <2>3, <2>4, <2>5, <2>6, <2>7 DEF TrueInv
<1>3. CASE AnswerLogin \/ TakeCommand \/ StartList \/ EndList \/ SendForeign
  BY <1>3, PlainWire, TrueWithout
<1>4. ASSUME NEW x \in Object \cup Room, Look(x)
      PROVE  TrueInv'
  <2>1. x \in Objects(query) /\ server = "walking" /\ stage = "list"
    BY <1>4 DEF Look, TypeOK, ProtocolInv
  <2>2. /\ UNCHANGED <<phones, reading, request>>
        /\ \/ UNCHANGED wire
           \/ wire' = Sight(query, x) /\ Listed(query, x)
    BY <1>4 DEF Look, Sends, Sight
  <2>3. CASE UNCHANGED wire
    BY <2>2, <2>3 DEF TrueInv, HeardOf, RoomsSince
  <2>4. CASE wire' = Sight(query, x) /\ Listed(query, x)
    <3>1. wire'.of = x /\ (query # "rooms" => wire'.value = world[x])
      BY <1>0, <2>1, <2>4, Sights DEF Sight
    <3>2. \A y \in Object : world[y] \in since[y]
      BY <2>1 DEF TrueInv
    <3>3. /\ query \in {"contacts", "channels"} => wire'.value \in since[x]
          /\ query \in Room => query \in since[x]
      BY <1>0, <2>1, <2>4, <3>1, <3>2 DEF Objects, Object, Listed, Known0
    <3>4. ASSUME query = "rooms"
          PROVE  x \in RoomsSince
      <4>1. x \in Room
        BY <2>1, <3>4 DEF Objects
      <4>2. PICK c \in Channel : world[c] = x
        BY <1>0, <2>4, <3>4 DEF Listed, Known0
      <4>3. x \in since[c]
        BY <3>2, <4>2 DEF Object
      <4> QED
        BY <4>1, <4>3 DEF RoomsSince
    <3> QED
      BY <2>2, <3>1, <3>3, <3>4 DEF TrueInv, HeardOf, RoomsSince
  <2> QED
    BY <2>2, <2>3, <2>4
<1>5. ASSUME NEW for \in Purpose \ {"ring"}, NEW e \in Endpoint \cup {None},
             Begin(for, e)
      PROVE  TrueInv'
  <2>1. /\ stage' = "login" /\ purpose' = for /\ wire' = None
        /\ heard' = NobodyHeard /\ pending' = {} /\ lists' = NobodyListed
    BY <1>5 DEF Begin, FirstHeard, ProtocolInv
  <2> QED
    BY <2>1 DEF TrueInv, NobodyHeard, NobodyListed
<1>6. CASE Break \/ ReadOutcome \/ Exceed
  BY <1>6, TrueWithout DEF Break, ReadOutcome, Exceed, Answers
<1>7. CASE ReadLogin
  <2>2. CASE Answers("error") /\ UNCHANGED reading
    BY <2>2, TrueWithout DEF Answers
  <2>3. CASE /\ stage' = "command" /\ server' = "command" /\ wire' = None
             /\ UNCHANGED <<phones, left, reading, purpose, query, phone,
                            accepted, answer>>
    BY <2>3, TrueWithout
  <2>4. CASE /\ purpose \notin Commands /\ stage = "login"
             /\ Ask(query) /\ since' = [x \in Object |-> {world[x]}] /\ wire' = None
             /\ UNCHANGED <<world, changes, heard, pending, lists, purpose,
                            phone, accepted, answer>>
    <3>1. /\ heard' = NobodyHeard /\ pending' = {} /\ lists' = NobodyListed
          /\ purpose' # "ring" /\ wire' = None
      BY <2>4 DEF ProtocolInv, Commands
    <3>2. \A x \in Object : world'[x] \in since'[x]
      BY <2>4
    <3> QED
      BY <3>1, <3>2 DEF TrueInv, NobodyHeard, NobodyListed
  <2> QED
    BY <1>7, <2>2, <2>3, <2>4 DEF ReadLogin, Reads
<1>8. CASE PassOver \/ ReadStart
  BY <1>8, TrueWithout DEF PassOver, ReadStart, ReadsFrame, Reads, Goes
<1>9. CASE ReadItem
  <2>1. /\ wire # None /\ wire.kind = "item" /\ wire' = None
        /\ UNCHANGED <<phones, asterisk, request, accepted, answer>>
        /\ wire.of \in Objects(query)
    BY <1>9 DEF ReadItem, ReadsFrame, Reads, Goes, ProtocolInv
  <2>2. CASE query \in {"contacts", "channels"}
    <3> DEFINE o == Owner[wire.of]
    <3>1. /\ UNCHANGED <<pending, lists>>
          /\ heard' = [heard EXCEPT ![o] = Prefer(heard[o], Shows(wire.value))]
      BY <1>0, <1>9, <2>2 DEF ReadItem, Known0
    <3>2. o \in Endpoint /\ wire.value \in since[wire.of]
          /\ heard \in [Endpoint -> ContactState \cup PhoneActivityState \cup {"none"}]
      BY <1>0, <2>1, <2>2 DEF Objects, Object, Known0, TrueInv, TypeOK
    <3>3. ASSUME NEW e \in Endpoint, heard'[e] # "none"
          PROVE  HeardOf(e)'
      <4>1. CASE heard'[e] = heard[e]
        BY <2>1, <3>3, <4>1 DEF TrueInv, HeardOf
      <4>2. CASE heard'[e] # heard[e]
        <5>1. e = o /\ heard'[e] = Shows(wire.value)
          BY <3>1, <3>2, <4>2 DEF Prefer
        <5> QED
          BY <2>1, <3>2, <5>1 DEF HeardOf
      <4> QED
        BY <4>1, <4>2
    <3> QED
      BY <1>0, <2>1, <2>2, <3>1, <3>3 DEF TrueInv, RoomsSince, Known0
  <2>3. CASE query = "rooms"
    <3>1. UNCHANGED <<heard, lists>> /\ pending' \subseteq pending \cup {wire.of}
      BY <1>0, <1>9, <2>3 DEF ReadItem, Known0
    <3>2. pending' \subseteq RoomsSince
      BY <2>1, <2>3, <3>1 DEF TrueInv
    <3> QED
      BY <2>1, <2>3, <3>1, <3>2 DEF TrueInv, HeardOf, RoomsSince
  <2>4. CASE query \in Room
    <3>1. /\ UNCHANGED <<heard, pending>>
          /\ lists' = [lists EXCEPT ![query] = @ \cup {Owner[wire.of]}]
      BY <1>0, <1>9, <2>4 DEF ReadItem, Known0
    <3>2. wire.of \in Channel /\ query \in since[wire.of]
      BY <1>0, <2>1, <2>4 DEF Objects, Known0, TrueInv
    <3>3. ASSUME NEW r \in Room, NEW e \in lists'[r]
          PROVE  \E x \in Channel : Owner[x] = e /\ r \in since[x]
      <4>1. e \in lists[r] \/ (r = query /\ e = Owner[wire.of])
        BY <2>4, <3>1, <3>3 DEF TypeOK
      <4> QED
        BY <3>2, <4>1 DEF TrueInv
    <3> QED
      BY <2>1, <3>1, <3>3 DEF TrueInv, HeardOf, RoomsSince
  <2> QED
    BY <1>0, <2>2, <2>3, <2>4 DEF Question
<1>10. CASE ReadEnd \/ ReadNothing \/ ReadRefusal
  <2>0. stage = "list"
    BY <1>10, LastReads
  <2>1. CASE Answers("error") /\ UNCHANGED reading
    BY <2>1, TrueWithout DEF Answers
  <2>2. CASE GivesList \/ GivesUp
    BY <2>2, TrueWithout DEF GivesList, GivesUp, Answers
  <2>3. CASE GoesOnToRing
    <3>1. /\ UNCHANGED <<phones, query, phone, heard, lists, pending>> /\ wire' = None
          /\ query = "contacts" /\ stage' = "login" /\ phone \in Endpoint
          /\ Online(heard[phone])
      BY <2>3 DEF GoesOnToRing, ProtocolInv
    <3>2. PICK x \in Objects(query) :
            Owner[x] = phone /\ \E v \in since[x] : heard[phone] = Shows(v)
      BY <3>1 DEF TrueInv, HeardOf, Online
    <3>3. x \in Contact
      BY <3>1, <3>2 DEF Objects
    <3>4. since[x] \cap {"reachable", "nonqualified"} # {}
      BY <3>1, <3>2 DEF Online, Shows
    <3> QED
      BY <3>1, <3>2, <3>3, <3>4 DEF TrueInv, HeardOf, RoomsSince
  <2>4. ASSUME NEW r \in Room, AsksNext(r)
        PROVE  TrueInv'
    <3>1. /\ UNCHANGED <<heard, lists, phones, purpose, phone>> /\ wire' = None
          /\ query' = r /\ stage' = "list"
          /\ query \notin {"contacts", "channels"} /\ purpose # "ring" /\ r # "rooms"
      BY <1>0, <2>4 DEF AsksNext, Ask, Known0
    <3>2. \A e \in Endpoint : heard'[e] = "none"
      BY <3>1 DEF TrueInv
    <3> QED
      BY <2>0, <3>1, <3>2 DEF TrueInv
  <2> QED
    BY <1>10, <2>1, <2>2, <2>3, <2>4, LastReads
<1> QED
  BY <1>2, <1>3, <1>4, <1>5, <1>6, <1>7, <1>8, <1>9, <1>10, Steps

----------------------------------------------------------------------------
(* What follows is about steps that put no new question.                   *)
Steadies ==
  /\ query' = query /\ purpose' = purpose /\ heard' = heard
  /\ pending' = pending /\ lists' = lists
  /\ stage' = "list" => stage = "list"

(* Either nothing is taken off what is still to come, or what is taken off *)
(* has not been so all the while.                                          *)
Settles ==
  \A x \in Objects(query) :
    \/ ToCome(x) => ToCome(x)'
    \/ /\ query # "rooms" /\ world[x] \in since[x]
       /\ query \in Room => world[x] # query
       /\ query \notin Room => world[x] = "gone"
    \/ query = "rooms" /\ \A c \in Channel : world[c] # x /\ world[c] \in since[c]

LEMMA Ranks == \A state : Rank(state) \in 0..4
  BY DEF Rank

LEMMA SteadyStates ==
  ASSUME TypeOK, ProtocolInv, StatesInv, Steadies,
         stage = "list" => Settles,
         stage = "list" => \A x \in Object : \A v : since'[x] = {v} => since[x] = {v}
  PROVE  StatesInv'
<1> SUFFICES ASSUME stage' = "list", query \in {"contacts", "channels"},
                    NEW x \in Objects(query), NEW v \in Values \ {"gone"},
                    since'[x] = {v}
             PROVE  ToCome(x)' \/ Rank(heard[Owner[x]]) >= Rank(Shows(v))
  BY DEF StatesInv, Steadies
<1>1. stage = "list" /\ x \in Object /\ query # "rooms" /\ query \notin Room
  BY Constants DEF Steadies, Objects, Object, Known0
<1>2. since[x] = {v}
  BY <1>1
<1>3. ToCome(x) \/ Rank(heard[Owner[x]]) >= Rank(Shows(v))
  BY <1>1, <1>2 DEF StatesInv
<1>4. world[x] \in since[x] => world[x] # "gone"
  BY <1>2
<1>5. ToCome(x) => ToCome(x)'
  BY <1>1, <1>4 DEF Settles
<1> QED
  BY <1>3, <1>5

LEMMA SteadyRooms ==
  ASSUME TypeOK, ProtocolInv, RoomsInv, Steadies,
         stage = "list" => Settles,
         stage = "list" => \A x \in Object : \A v : since'[x] = {v} => since[x] = {v},
         Cardinality(RoomsSince') <= MaxRooms => Cardinality(RoomsSince) <= MaxRooms
  PROVE  RoomsInv'
<1> SUFFICES ASSUME stage' = "list", purpose = "calls",
                    Cardinality(RoomsSince') <= MaxRooms,
                    NEW x \in Channel, NEW r \in Room, since'[x] = {r}
             PROVE  InHand(x, r)'
  BY DEF RoomsInv, Steadies
<1>1. stage = "list" /\ x \in Object
  BY DEF Steadies, Object
<1>2. since[x] = {r}
  BY <1>1
<1>3. InHand(x, r)
  BY <1>1, <1>2 DEF RoomsInv
<1>4. CASE query = "rooms" /\ ToCome(r)
  <2>1. r \in Objects(query) /\ query \notin Room
    BY <1>4, Constants DEF Objects, Known0
  <2>2. ~\A c \in Channel : world[c] # r /\ world[c] \in since[c]
    BY <1>2
  <2>3. ToCome(r)'
    BY <1>1, <1>4, <2>1, <2>2 DEF Settles
  <2> QED
    BY <1>4, <2>3 DEF InHand, Steadies
<1>5. CASE r \in pending \/ Owner[x] \in lists[r]
  BY <1>5 DEF InHand, Steadies
<1>6. CASE r = query /\ ToCome(x)
  <2>1. x \in Objects(query) /\ query # "rooms" /\ query \in Room
    BY <1>6, Constants DEF Objects, Known0
  <2>2. world[x] \in since[x] => world[x] = query
    BY <1>2, <1>6
  <2>3. ToCome(x)'
    BY <1>1, <1>6, <2>1, <2>2 DEF Settles
  <2> QED
    BY <1>6, <2>3 DEF InHand, Steadies
<1> QED
  BY <1>3, <1>4, <1>5, <1>6 DEF InHand

(* The number of rooms only grows.                                         *)
LEMMA RoomsCount ==
  ASSUME TypeOK, RoomsSince \subseteq RoomsSince'
  PROVE  Cardinality(RoomsSince') <= MaxRooms => Cardinality(RoomsSince) <= MaxRooms
<1>1. IsFiniteSet(Room)
  BY AmiAssumption
<1>2. RoomsSince' \subseteq Room /\ IsFiniteSet(RoomsSince')
  BY <1>1, FS_Subset DEF RoomsSince
<1>3. /\ Cardinality(RoomsSince) <= Cardinality(RoomsSince')
      /\ IsFiniteSet(RoomsSince)
  BY <1>2, FS_Subset
<1>4. Cardinality(RoomsSince) \in Nat /\ Cardinality(RoomsSince') \in Nat
  BY <1>2, <1>3, FS_CardinalityType
<1> QED
  BY <1>3, <1>4, Constants DEF Known0

(* What Asterisk does settles things, and so does what the request passes  *)
(* over.                                                                   *)
LEMMA Settling ==
  ASSUME TypeOK, ProtocolInv, TrueInv,
         \/ AnswerLogin \/ TakeCommand \/ StartList \/ EndList \/ SendForeign
         \/ \E x \in Object \cup Room : Look(x)
         \/ PassOver \/ ReadStart
  PROVE  /\ Steadies /\ UNCHANGED phones
         /\ stage = "list" => Settles
<1> USE DEF phones, asterisk, reading, request
<1>0. Known0 /\ query \in Question
  BY Constants DEF TypeOK
<1>1. Steadies /\ UNCHANGED phones
  BY DEF AnswerLogin, TakeCommand, StartList, EndList, SendForeign, Look,
     PassOver, ReadStart, ReadsFrame, Goes, Sends, Steadies
<1> SUFFICES ASSUME stage = "list"
             PROVE  Settles
  BY <1>1
<1>2. /\ server \notin {"login", "command"}
      /\ \A x \in Object : world[x] \in since[x]
  BY DEF ProtocolInv, TrueInv
<1>3. CASE StartList
  <2>1. wire = None /\ UNCHANGED query
    BY <1>3 DEF StartList, Sends
  <2>2. CASE server' = "walking" /\ left' = Objects(query)
    BY <2>2 DEF Settles, ToCome
  <2>3. CASE wire' = Plain(query, "Error")
    <3>1. wire' # None /\ wire'.id = query /\ wire'.kind = "Error"
      BY <1>0, <2>3, PlainFrames DEF Kind
    <3> QED
      BY <2>1, <3>1 DEF Settles, ToCome
  <2>4. CASE query # "channels" /\ \A x \in Objects(query) : ~Listed(query, x)
    <3>1. CASE query = "rooms"
      <4>1. \A x \in Objects(query), c \in Channel : world[c] # x
        BY <1>0, <2>4, <3>1 DEF Listed, Known0
      <4> QED
        BY <1>2, <3>1, <4>1 DEF Settles, Object
    <3>2. CASE query \in Room
      <4>1. query # "rooms" /\ Objects(query) = Channel
        BY <1>0, <3>2 DEF Objects, Known0
      <4> QED
        BY <1>2, <2>4, <3>2, <4>1 DEF Listed, Settles, Object
    <3>3. CASE query = "contacts"
      <4>1. query # "rooms" /\ query \notin Room /\ Objects(query) = Contact
        BY <1>0, <3>3 DEF Objects, Known0
      <4> QED
        BY <1>2, <2>4, <3>3, <4>1 DEF Listed, Settles, Object
    <3> QED
      BY <1>0, <2>4, <3>1, <3>2, <3>3 DEF Question
  <2> QED
    BY <1>3, <2>2, <2>3, <2>4 DEF StartList, Sends
<1>4. CASE EndList
  BY <1>4 DEF EndList, Sends, Settles, ToCome
<1>5. CASE SendForeign
  BY <1>5 DEF SendForeign, Sends, Settles, ToCome
<1>6. ASSUME NEW y \in Object \cup Room, Look(y)
      PROVE  Settles
  <2>1. /\ server = "walking" /\ server' = "walking" /\ y \in left
        /\ left' = left \ {y} /\ UNCHANGED query /\ y \in Objects(query)
    BY <1>6 DEF Look, Sends, TypeOK
  <2>2. CASE Listed(query, y)
    <3>1. wire = None /\ wire' = Sight(query, y)
      BY <1>6, <2>2 DEF Look, Sends, Sight
    <3>2. wire' # None /\ wire'.kind = "item" /\ wire'.of = y
      BY <1>0, <2>1, <3>1, Sights
    <3> QED
      BY <2>1, <3>1, <3>2 DEF Settles, ToCome
  <2>3. CASE ~Listed(query, y)
    <3>1. UNCHANGED wire
      BY <1>6, <2>3 DEF Look
    <3>2. ASSUME NEW x \in Objects(query), x # y
          PROVE  ToCome(x) => ToCome(x)'
      BY <2>1, <3>1, <3>2 DEF ToCome
    <3>3. CASE query = "rooms"
      <4>1. \A c \in Channel : world[c] # y
        BY <1>0, <2>3, <3>3 DEF Listed, Known0
      <4> QED
        BY <1>2, <3>2, <3>3, <4>1 DEF Settles, Object
    <3>4. CASE query \in Room
      <4>1. query # "rooms" /\ Objects(query) = Channel
        BY <1>0, <3>4 DEF Objects, Known0
      <4>2. world[y] # query /\ world[y] \in since[y]
        BY <1>2, <2>1, <2>3, <3>4, <4>1 DEF Listed, Object
      <4> QED
        BY <3>2, <3>4, <4>1, <4>2 DEF Settles
    <3>5. CASE query \in {"contacts", "channels"}
      <4>1. query # "rooms" /\ query \notin Room /\ Objects(query) \subseteq Object
        BY <1>0, <3>5 DEF Objects, Known0, Object
      <4>2. world[y] = "gone" /\ world[y] \in since[y]
        BY <1>2, <2>1, <2>3, <4>1 DEF Listed
      <4> QED
        BY <3>2, <4>1, <4>2 DEF Settles
    <3> QED
      BY <1>0, <3>3, <3>4, <3>5 DEF Question
  <2> QED
    BY <2>2, <2>3
<1>7. CASE PassOver \/ ReadStart
  <2>1. /\ wire # None /\ (wire.id # query \/ wire.kind = "Success")
        /\ UNCHANGED <<server, left, query>>
    BY <1>7 DEF PassOver, ReadStart, ReadsFrame, Reads, Mine, Goes
  <2>2. wire.kind # "item" /\ ~(wire.id = query /\ wire.kind = "Error")
    BY <2>1 DEF ProtocolInv
  <2> QED
    BY <2>1, <2>2 DEF Settles, ToCome
<1>8. ~AnswerLogin /\ ~TakeCommand
  BY <1>2 DEF AnswerLogin, TakeCommand
<1> QED
  BY <1>3, <1>4, <1>5, <1>6, <1>7, <1>8

(* The best state of a phone is never worse than one that was read.        *)
LEMMA Better ==
  \A current, candidate :
    /\ Rank(Prefer(current, candidate)) >= Rank(current)
    /\ Rank(Prefer(current, candidate)) >= Rank(candidate)
<1> SUFFICES ASSUME NEW current, NEW candidate
             PROVE  /\ Rank(Prefer(current, candidate)) >= Rank(current)
                    /\ Rank(Prefer(current, candidate)) >= Rank(candidate)
  OBVIOUS
<1>1. Rank(current) \in 0..4 /\ Rank(candidate) \in 0..4
  BY Ranks
<1>2. CASE Rank(candidate) > Rank(current)
  BY <1>1, <1>2 DEF Prefer
<1>3. CASE ~(Rank(candidate) > Rank(current))
  BY <1>1, <1>3 DEF Prefer
<1> QED
  BY <1>2, <1>3

LEMMA StatesPreserved ==
  TypeOK /\ ProtocolInv /\ TrueInv /\ StatesInv /\ [Next]_vars => StatesInv'
<1> USE DEF phones, asterisk, reading, request
<1>1. CASE UNCHANGED vars
  BY <1>1 DEF vars, StatesInv, ToCome
<1> SUFFICES ASSUME TypeOK, ProtocolInv, TrueInv, StatesInv, Next
             PROVE  StatesInv'
  BY <1>1
<1>0. Known0 /\ query \in Question
  BY Constants DEF TypeOK
<1>2. ASSUME NEW y \in Object, NEW u \in Value(y), Change(y, u)
      PROVE  StatesInv'
  <2>1. Steadies /\ UNCHANGED <<asterisk, wire, query>>
    BY <1>2 DEF Change, Steadies
  <2>2. Settles
    BY <2>1 DEF Settles, ToCome
  <2> QED
    BY <1>2, <2>1, <2>2, Growing, SteadyStates
<1>3. CASE \/ AnswerLogin \/ TakeCommand \/ StartList \/ EndList \/ SendForeign
           \/ \E x \in Object \cup Room : Look(x)
           \/ PassOver \/ ReadStart
  BY <1>3, Settling, SteadyStates
<1>4. ASSUME NEW for, NEW e, Begin(for, e)
      PROVE  StatesInv'
  BY <1>4 DEF Begin, StatesInv
<1>5. CASE Break \/ ReadOutcome \/ Exceed
  BY <1>5 DEF Break, ReadOutcome, Exceed, Answers, StatesInv
<1>6. CASE ReadLogin
  <2>1. stage' # "list" \/ server' = "asked"
    BY <1>6 DEF ReadLogin, Answers, Ask
  <2> QED
    BY <2>1 DEF StatesInv, ToCome
<1>7. CASE ReadItem
  <2>1. /\ wire # None /\ wire.kind = "item" /\ wire' = None
        /\ UNCHANGED <<phones, asterisk, request, accepted, answer>>
        /\ wire.of \in Objects(query)
    BY <1>7 DEF ReadItem, ReadsFrame, Reads, Goes, ProtocolInv
  <2> SUFFICES ASSUME stage = "list", query \in {"contacts", "channels"},
                      NEW x \in Objects(query), NEW v \in Values \ {"gone"},
                      since[x] = {v}
               PROVE  ToCome(x)' \/ Rank(heard'[Owner[x]]) >= Rank(Shows(v))
    BY <2>1 DEF StatesInv
  <2> DEFINE o == Owner[wire.of]
  <2>2. heard' = [heard EXCEPT ![o] = Prefer(heard[o], Shows(wire.value))]
    BY <1>0, <1>7 DEF ReadItem, Known0
  <2>3. /\ o \in Endpoint /\ Owner[x] \in Endpoint
        /\ wire.value \in since[wire.of]
        /\ heard \in [Endpoint -> ContactState \cup PhoneActivityState \cup {"none"}]
    BY <1>0, <2>1 DEF Objects, Object, Known0, TrueInv, TypeOK
  <2>4. Rank(heard'[Owner[x]]) >= Rank(heard[Owner[x]])
    <3>1. CASE Owner[x] = o
      BY <2>2, <2>3, <3>1, Better
    <3>2. CASE Owner[x] # o
      BY <2>2, <2>3, <3>2, Ranks
    <3> QED
      BY <3>1, <3>2
  <2>5. ToCome(x) \/ Rank(heard[Owner[x]]) >= Rank(Shows(v))
    BY DEF StatesInv
  <2>6. CASE x = wire.of
    <3>1. wire.value = v /\ Owner[x] = o
      BY <2>3, <2>6
    <3> QED
      BY <2>2, <2>3, <3>1, Better
  <2>7. CASE x # wire.of
    <3>1. ToCome(x) => ToCome(x)'
      BY <2>1, <2>7 DEF ToCome
    <3>2. /\ Rank(heard'[Owner[x]]) \in 0..4 /\ Rank(heard[Owner[x]]) \in 0..4
          /\ Rank(Shows(v)) \in 0..4
      BY Ranks
    <3> QED
      BY <2>4, <2>5, <3>1, <3>2
  <2> QED
    BY <2>6, <2>7
<1>8. CASE ReadEnd \/ ReadNothing \/ ReadRefusal
  <2>1. stage' # "list" \/ query' \in Room
    BY <1>8, LastReads DEF Answers, GivesList, GivesUp, GoesOnToRing, AsksNext, Ask
  <2> QED
    BY <1>0, <2>1 DEF StatesInv, Known0
<1> QED
  BY <1>2, <1>3, <1>4, <1>5, <1>6, <1>7, <1>8, Steps

LEMMA RoomsPreserved ==
  TypeOK /\ ProtocolInv /\ TrueInv /\ RoomsInv /\ [Next]_vars => RoomsInv'
<1> USE DEF phones, asterisk, reading, request
<1>1. CASE UNCHANGED vars
  BY <1>1 DEF vars, RoomsInv, RoomsSince, InHand, ToCome
<1> SUFFICES ASSUME TypeOK, ProtocolInv, TrueInv, RoomsInv, Next
             PROVE  RoomsInv'
  BY <1>1
<1>0. Known0 /\ query \in Question
  BY Constants DEF TypeOK
<1>2. ASSUME NEW y \in Object, NEW u \in Value(y), Change(y, u)
      PROVE  RoomsInv'
  <2>1. Steadies /\ UNCHANGED <<asterisk, wire, query>>
    BY <1>2 DEF Change, Steadies
  <2>2. Settles
    BY <2>1 DEF Settles, ToCome
  <2>3. Cardinality(RoomsSince') <= MaxRooms => Cardinality(RoomsSince) <= MaxRooms
    BY <1>2, Growing, RoomsCount
  <2> QED
    BY <1>2, <2>1, <2>2, <2>3, Growing, SteadyRooms
<1>3. CASE \/ AnswerLogin \/ TakeCommand \/ StartList \/ EndList \/ SendForeign
           \/ \E x \in Object \cup Room : Look(x)
           \/ PassOver \/ ReadStart
  <2>1. UNCHANGED phones
    BY <1>3, Settling
  <2>2. RoomsSince' = RoomsSince
    BY <2>1 DEF RoomsSince
  <2> QED
    BY <1>3, <2>1, <2>2, Settling, SteadyRooms
<1>4. ASSUME NEW for, NEW e, Begin(for, e)
      PROVE  RoomsInv'
  BY <1>4 DEF Begin, RoomsInv
<1>5. CASE Break \/ ReadOutcome \/ Exceed
  BY <1>5 DEF Break, ReadOutcome, Exceed, Answers, RoomsInv
<1>6. CASE ReadLogin
  <2>1. stage' # "list" \/ (server' = "asked" /\ query' = query /\ purpose' = purpose
                            /\ purpose \notin Commands /\ stage = "login")
    BY <1>6 DEF ReadLogin, Answers, Ask
  <2>2. purpose = "calls" => query \in {"rooms"} \cup Room
    BY DEF ProtocolInv
  <2> SUFFICES ASSUME stage' = "list", purpose' = "calls",
                      NEW x \in Channel, NEW r \in Room, since'[x] = {r}
               PROVE  InHand(x, r)'
    BY DEF RoomsInv
  <2>3. query' = "rooms"
    BY <2>1 DEF ProtocolInv
  <2> QED
    BY <2>1, <2>3 DEF InHand, ToCome
<1>7. CASE ReadItem
  <2>1. /\ wire # None /\ wire.kind = "item" /\ wire' = None
        /\ UNCHANGED <<phones, asterisk, request, accepted, answer>>
        /\ wire.of \in Objects(query)
    BY <1>7 DEF ReadItem, ReadsFrame, Reads, Goes, ProtocolInv
  <2>2. RoomsSince' = RoomsSince
    BY <2>1 DEF RoomsSince
  <2> SUFFICES ASSUME stage = "list", purpose = "calls",
                      Cardinality(RoomsSince) <= MaxRooms,
                      NEW x \in Channel, NEW r \in Room, since[x] = {r}
               PROVE  InHand(x, r)'
    BY <2>1, <2>2 DEF RoomsInv
  <2>3. InHand(x, r)
    BY DEF RoomsInv
  <2>4. ASSUME NEW y, y # wire.of
        PROVE  ToCome(y) => ToCome(y)'
    BY <2>1, <2>4 DEF ToCome
  <2>5. CASE query = "rooms"
    <3>1. /\ UNCHANGED lists
          /\ pending' = IF Cardinality(pending) < MaxRooms
                        THEN pending \cup {wire.of} ELSE pending
      BY <1>0, <1>7, <2>5 DEF ReadItem, Known0
    <3>2. CASE r \in pending \/ Owner[x] \in lists[r]
      BY <3>1, <3>2 DEF InHand
    <3>3. CASE ToCome(r) /\ r # wire.of
      BY <2>1, <2>4, <2>5, <3>3 DEF InHand
    <3>4. CASE r = wire.of /\ r \notin pending
      <4>1. IsFiniteSet(RoomsSince) /\ r \in RoomsSince /\ pending \subseteq RoomsSince
        BY <2>5, AmiAssumption, FS_Subset DEF RoomsSince, Object, TrueInv
      <4>2. IsFiniteSet(pending) /\ Cardinality(pending) < Cardinality(RoomsSince)
        <5>1. /\ IsFiniteSet(pending) /\ Cardinality(pending) <= Cardinality(RoomsSince)
              /\ Cardinality(pending) = Cardinality(RoomsSince) => pending = RoomsSince
          BY <4>1, FS_Subset
        <5>2. Cardinality(pending) \in Nat /\ Cardinality(RoomsSince) \in Nat
          BY <4>1, <5>1, FS_CardinalityType
        <5> QED
          BY <3>4, <4>1, <5>1, <5>2
      <4>3. Cardinality(pending) \in Nat /\ Cardinality(RoomsSince) \in Nat
        BY <4>1, <4>2, FS_CardinalityType
      <4>4. Cardinality(pending) < MaxRooms
        BY <1>0, <4>2, <4>3 DEF Known0
      <4> QED
        BY <3>1, <3>4, <4>4 DEF InHand
    <3> QED
      BY <1>0, <2>3, <2>5, <3>2, <3>3, <3>4 DEF InHand, Known0
  <2>6. CASE query \in Room
    <3>1. /\ UNCHANGED pending /\ query # "rooms" /\ wire.of \in Channel
          /\ lists' = [lists EXCEPT ![query] = @ \cup {Owner[wire.of]}]
          /\ lists \in [Room -> SUBSET Endpoint]
      BY <1>0, <1>7, <2>1, <2>6 DEF ReadItem, Known0, Objects, TypeOK
    <3>2. CASE r \in pending
      BY <3>1, <3>2 DEF InHand
    <3>3. CASE Owner[x] \in lists[r]
      BY <3>1, <3>3 DEF InHand
    <3>4. CASE r = query /\ ToCome(x) /\ x # wire.of
      BY <2>1, <2>4, <3>4 DEF InHand
    <3>5. CASE r = query /\ x = wire.of
      BY <3>1, <3>5 DEF InHand
    <3> QED
      BY <2>3, <3>1, <3>2, <3>3, <3>4, <3>5 DEF InHand
  <2> QED
    BY <2>5, <2>6 DEF ProtocolInv
<1>8. CASE ReadEnd \/ ReadNothing \/ ReadRefusal
  <2>1. CASE stage' # "list"
    BY <2>1 DEF RoomsInv
  <2>2. CASE stage' = "list"
    <3>1. /\ stage = "list" /\ wire # None /\ wire.id = query /\ wire.kind \in Last
          /\ server = "none" /\ (wire.kind = "Error" => query \in Room)
          /\ \E q \in Room : AsksNext(q)
      BY <1>8, <2>2, LastReads DEF Answers, GivesList, GivesUp, GoesOnToRing
    <3>2. PICK q \in Room : AsksNext(q)
      BY <3>1
    <3>3. ~\E y : ToCome(y)
      BY <3>1 DEF ToCome, Last, ProtocolInv
    <3>4. /\ query' = q /\ server' = "asked" /\ pending' = pending \ {q}
          /\ UNCHANGED <<lists, phones, purpose>> /\ purpose = "calls"
      BY <3>2 DEF AsksNext, Ask
    <3>5. RoomsSince' = RoomsSince
      BY <3>4 DEF RoomsSince
    <3> SUFFICES ASSUME Cardinality(RoomsSince) <= MaxRooms,
                        NEW x \in Channel, NEW r \in Room, since[x] = {r}
                 PROVE  InHand(x, r)'
      BY <3>4, <3>5 DEF RoomsInv
    <3>6. r \in pending \/ Owner[x] \in lists[r]
      BY <3>1, <3>3, <3>4 DEF RoomsInv, InHand
    <3> QED
      BY <3>4, <3>6 DEF InHand, ToCome
  <2> QED
    BY <2>1, <2>2
<1> QED
  BY <1>2, <1>3, <1>4, <1>5, <1>6, <1>7, <1>8, Steps

----------------------------------------------------------------------------
LEMMA CompletePreserved ==
  TypeOK /\ ProtocolInv /\ TrueInv /\ StatesInv /\ RoomsInv /\ AnswersAreComplete
    /\ [Next]_vars => AnswersAreComplete'
<1> USE DEF phones, asterisk, reading, request
<1>1. CASE UNCHANGED vars
  BY <1>1 DEF vars, AnswersAreComplete, RoomsSince, ShownWith
<1> SUFFICES ASSUME TypeOK, ProtocolInv, TrueInv, StatesInv, RoomsInv,
                    AnswersAreComplete, Next, answer' = "list"
             PROVE  AnswersAreComplete'
  BY <1>1 DEF AnswersAreComplete
<1>0. Known0 /\ query \in Question
  BY Constants DEF TypeOK
<1>2. CASE ReadEnd \/ ReadNothing \/ ReadRefusal
  <2>1. /\ stage = "list" /\ wire # None /\ wire.id = query /\ wire.kind \in Last
        /\ server = "none" /\ (wire.kind = "Error" => query \in Room)
        /\ GivesList
    <3>1. answer = "none"
      BY <1>2, LastReads DEF ProtocolInv, TypeOK
    <3> QED
      BY <1>2, <3>1, LastReads DEF Answers, GivesUp, GoesOnToRing, AsksNext
  <2>2. ~\E y : ToCome(y)
    BY <2>1 DEF ToCome, Last, ProtocolInv
  <2>3. /\ UNCHANGED <<phones, purpose, query, heard, lists, pending>>
        /\ query \in {"rooms"} \cup Room => pending = {}
    BY <2>1 DEF GivesList, Answers
  <2>4. ASSUME purpose \in {"presence", "activity"},
               NEW x \in Objects(FirstQuery(purpose)), NEW v \in since[x] \ {"gone"},
               since[x] = {v}
        PROVE  Rank(heard[Owner[x]]) >= Rank(Shows(v))
    <3>1. query = FirstQuery(purpose) /\ query \in {"contacts", "channels"}
      BY <2>4, Queries DEF ProtocolInv
    <3>2. x \in Object /\ v \in Values
      BY <2>4, <3>1 DEF Objects, Object, TypeOK
    <3> QED
      BY <2>1, <2>2, <2>4, <3>1, <3>2 DEF StatesInv
  <2>5. ASSUME purpose = "calls", Cardinality(RoomsSince) <= MaxRooms,
               NEW r \in Room, NEW x \in Channel, since[x] = {r}
        PROVE  Owner[x] \in lists[r]
    <3>1. pending = {}
      BY <2>3, <2>5 DEF ProtocolInv
    <3>2. InHand(x, r)
      BY <2>1, <2>5 DEF RoomsInv
    <3> QED
      BY <2>2, <3>1, <3>2 DEF InHand
  <2>6. RoomsSince' = RoomsSince
    BY <2>3 DEF RoomsSince
  <2> QED
    BY <2>3, <2>4, <2>5, <2>6 DEF AnswersAreComplete, ShownWith
<1>3. CASE ~(ReadEnd \/ ReadNothing \/ ReadRefusal)
  <2>1. answer = "list" /\ stage = "idle" /\ server = "none" /\ wire = None
    <3>1. answer = "list"
      BY <1>3, Steps DEF Change, AnswerLogin, TakeCommand, StartList, EndList,
         SendForeign, Look, Sends, Begin, Break, ReadOutcome, Exceed, ReadLogin,
         PassOver, ReadStart, ReadItem, Goes, Answers
    <3> QED
      BY <3>1 DEF ProtocolInv
  <2>2. FALSE
    BY <1>3, <2>1, Steps DEF Change, AnswerLogin, TakeCommand, StartList, EndList,
       SendForeign, Look, Sends, Begin, Break, ReadOutcome, Exceed, ReadLogin,
       PassOver, ReadStart, ReadItem, ReadsFrame, Goes
  <2> QED
    BY <2>2
<1> QED
  BY <1>2, <1>3

----------------------------------------------------------------------------
IInv ==
  /\ TypeOK /\ ProtocolInv
  /\ TrueInv /\ StatesInv /\ RoomsInv
  /\ AnswersAreComplete

LEMMA InitIInv ==
  Init => IInv
<1> SUFFICES ASSUME Init
             PROVE  IInv
  OBVIOUS
<1>0. Known0
  BY Constants
<1>1. TypeOK
  <2>1. /\ world \in [Object -> Values] /\ since \in [Object -> SUBSET Values]
    BY DEF Init, Values
  <2>2. /\ heard \in [Endpoint -> ContactState \cup PhoneActivityState \cup {"none"}]
        /\ pending \subseteq Room /\ lists \in [Room -> SUBSET Endpoint]
    BY DEF Init, NobodyHeard, NobodyListed
  <2>3. frames \in 0..MaxFrames
    BY <1>0 DEF Init, Known0
  <2>4. purpose \in Purpose /\ query \in Question
    BY DEF Init, Purpose, Question
  <2> QED
    BY <2>1, <2>2, <2>3, <2>4 DEF Init, TypeOK
<1>2. ProtocolInv
  BY <1>0 DEF Init, ProtocolInv, FirstQuery, Commands, Known0
<1>3. TrueInv
  BY <1>0 DEF Init, TrueInv, NobodyHeard, NobodyListed
<1>4. StatesInv /\ RoomsInv
  BY DEF Init, StatesInv, RoomsInv
<1>5. AnswersAreComplete
  BY DEF Init, AnswersAreComplete
<1> QED
  BY <1>1, <1>2, <1>3, <1>4, <1>5 DEF IInv

LEMMA Inductive ==
  IInv /\ [Next]_vars => IInv'
  BY TypePreserved, ProtocolPreserved, TruePreserved, StatesPreserved, RoomsPreserved,
     CompletePreserved DEF IInv

LEMMA Invariant ==
  Spec => []IInv
<1> QED
  BY InitIInv, Inductive, PTL DEF Spec

(* Everything keeps its type, and no loop of ami.go reads more frames than *)
(* maxAMIFrames.                                                           *)
THEOREM TypeCorrect ==
  Spec => []TypeOK
<1>1. IInv => TypeOK
  BY DEF IInv
<1> QED
  BY <1>1, Invariant, PTL

(* What an answer says of a phone or a room was so while the question was  *)
(* open, whatever phones did and whatever frames came in between.          *)
THEOREM TrueAnswers ==
  Spec => []AnswersAreTrue
<1>1. IInv => AnswersAreTrue
  <2> SUFFICES ASSUME IInv, answer = "list"
               PROVE  AnswersAreTrue
    BY DEF AnswersAreTrue
  <2>1. TypeOK /\ ProtocolInv /\ TrueInv
    BY DEF IInv
  <2>2. ASSUME purpose \in {"presence", "activity"}, NEW e \in Endpoint,
               heard[e] # "none"
        PROVE  \E x \in Objects(FirstQuery(purpose)) :
                 Owner[x] = e /\ \E v \in since[x] : heard[e] = Shows(v)
    <3>1. query = FirstQuery(purpose)
      BY <2>1, <2>2 DEF ProtocolInv
    <3> QED
      BY <2>1, <2>2, <3>1 DEF TrueInv, HeardOf
  <2>3. \A r \in Room : \A e \in lists[r] :
          \E x \in Channel : Owner[x] = e /\ r \in since[x]
    BY <2>1 DEF TrueInv
  <2> QED
    BY <2>2, <2>3 DEF AnswersAreTrue
<1> QED
  BY <1>1, Invariant, PTL

(* An answer misses nothing that was so all the while: lists that were cut *)
(* off are not taken for whole ones, whatever broke and whoever's frames   *)
(* came in between.                                                        *)
THEOREM CompleteAnswers ==
  Spec => []AnswersAreComplete
<1>1. IInv => AnswersAreComplete
  BY DEF IInv
<1> QED
  BY <1>1, Invariant, PTL

(* No command is reported done that Asterisk has not taken, and the setup  *)
(* ring reaches only a phone that was online when it was looked up.        *)
THEOREM HonestCommands ==
  Spec => []CommandsAreHonest
<1>1. IInv => CommandsAreHonest
  BY DEF IInv, ProtocolInv, TrueInv, CommandsAreHonest
<1> QED
  BY <1>1, Invariant, PTL
=============================================================================
