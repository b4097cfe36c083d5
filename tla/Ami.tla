-------------------------------- MODULE Ami --------------------------------
(***************************************************************************)
(* The questions and commands the application has for Asterisk, over the   *)
(* manager interface: internal/telephony/ami.go, and what the host's page  *)
(* and the setup ring of internal/webapp/app.go make of the answers.       *)
(*                                                                         *)
(* Each request connects, logs in, asks and reads frames until the list is *)
(* complete.  Phones register, ring, join and leave while Asterisk is      *)
(* still listing, the connection may break at any frame, and frames nobody *)
(* asked for arrive in between.  One request at a time, as requests share  *)
(* nothing but the phones.  The wire holds one frame: frames keep their    *)
(* order, and how many are under way does not matter.  Elapsed times are   *)
(* left out.                                                               *)
(***************************************************************************)
EXTENDS Integers, FiniteSets

CONSTANTS
  Endpoint,        \* SIP usernames
  Known,           \* those of the active devices of the party
  Contact,         \* registrations
  Channel,         \* of calls
  Owner,           \* the endpoint of a registration or channel
  Room,            \* conferences of the party
  None,
  MaxFrames,       \* maxAMIFrames
  MaxRooms,        \* maxActiveConferences
  MaxChanges       \* bound of what happens to phones

Object == Contact \cup Channel

ContactState == {"reachable", "nonqualified", "unknown", "unreachable"}
PhoneActivityState == {"in_call", "calling", "ringing", "off_hook"}

ASSUME AmiAssumption ==
  /\ Known \subseteq Endpoint /\ Owner \in [Object -> Endpoint]
  /\ Contact \cap Channel = {} /\ IsFiniteSet(Room)
  /\ Room \cap (Object \cup {None, "contacts", "rooms", "channels"}) = {}
  /\ Room \cap {"login", "command", "other"} = {}
  /\ Room \cap (ContactState \cup PhoneActivityState \cup {"gone", "none"}) = {}
  /\ None \notin Object \cup Endpoint
  /\ MaxFrames \in Nat /\ MaxRooms \in Nat

VARIABLES
  world,           \* what Asterisk knows of each registration and channel
  since,           \* all it has known since the question was put
  changes,
  stage, purpose,  \* what the request is at, and for
  query,           \* the list being read, as its ActionID tells
  server, left,    \* what Asterisk is at, and has still to look at
  wire,
  frames, started, \* of the loop that reads the list
  heard,           \* Endpoint -> the best state read so far
  pending,         \* rooms whose phones are to be listed
  lists,           \* Room -> its phones
  phone,           \* to be rung
  accepted,        \* Asterisk has taken the command of this request
  answer

phones == <<world, since, changes>>
asterisk == <<server, left>>
reading == <<frames, started, heard, pending, lists>>
request == <<stage, purpose, query, phone>>
vars == <<phones, asterisk, wire, reading, request, accepted, answer>>

----------------------------------------------------------------------------
(* A channel in a conference is shown as in a call.                        *)
Value(x) ==
  {"gone"} \cup (IF x \in Contact THEN ContactState
                 ELSE PhoneActivityState \cup Room)

Values == {"gone"} \cup ContactState \cup PhoneActivityState \cup Room

Shows(v) == IF v \in Room THEN "in_call" ELSE v

Question == {"contacts", "rooms", "channels"} \cup Room
Commands == {"ring", "announce", "reload"}
Purpose == {"presence", "check", "calls", "activity"} \cup Commands

FirstQuery(for) ==
  CASE for = "calls" -> "rooms"
    [] for = "activity" -> "channels"
    [] OTHER -> "contacts"

(* What Asterisk goes through for a list.                                  *)
Objects(q) ==
  CASE q = "contacts" -> Contact [] q = "rooms" -> Room [] OTHER -> Channel

Listed(q, x) ==
  CASE q = "rooms" -> \E c \in Channel : world[c] = x
    [] q \in Room -> world[x] = q
    [] OTHER -> world[x] # "gone"

Kind == {"Success", "Error", "Nothing", "item", "complete", "event"}

Frame == [id : Question \cup {"login", "command", "other"}, kind : Kind,
          of : Object \cup Room \cup {None},
          value : Values \cup {None}]

ASSUME NoneAssumption == None \notin Frame

Plain(id, kind) == [id |-> id, kind |-> kind, of |-> None, value |-> None]

NobodyHeard == [e \in Endpoint |-> "none"]
NobodyListed == [r \in Room |-> {}]

Init ==
  /\ world = [x \in Object |-> "gone"]
  /\ since = [x \in Object |-> {"gone"}] /\ changes = 0
  /\ stage = "idle" /\ purpose = "presence" /\ query = "contacts"
  /\ phone = None
  /\ server = "none" /\ left = {} /\ wire = None
  /\ frames = 0 /\ started = FALSE
  /\ heard = NobodyHeard /\ pending = {} /\ lists = NobodyListed
  /\ accepted = FALSE /\ answer = "none"

----------------------------------------------------------------------------
(* Phones and Asterisk.  What happens between two requests may as well     *)
(* happen while the second logs in.                                        *)
Change(x, v) ==
  /\ stage # "idle" /\ changes < MaxChanges /\ v # world[x]
  /\ world' = [world EXCEPT ![x] = v]
  /\ since' = IF stage = "list" THEN [since EXCEPT ![x] = @ \cup {v}]
              ELSE since
  /\ changes' = changes + 1
  /\ UNCHANGED <<asterisk, wire, reading, request, accepted, answer>>

Sends(frame) ==
  /\ wire = None /\ wire' = frame
  /\ UNCHANGED <<phones, reading, request, answer>>

AnswerLogin ==
  /\ server = "login" /\ server' = "none"
  /\ \E status \in {"Success", "Error"} : Sends(Plain("login", status))
  /\ UNCHANGED <<left, accepted>>

(* A command is taken or refused; who asked may never hear of it.          *)
TakeCommand ==
  /\ server = "command" /\ server' = "none"
  /\ \/ accepted' = TRUE /\ Sends(Plain("command", "Success"))
     \/ UNCHANGED accepted /\ Sends(Plain("command", "Error"))
  /\ UNCHANGED left

(* A list of nothing is an error, but for channels; so is one that the     *)
(* account may not have, which goes for all questions of a kind.           *)
StartList ==
  /\ server = "asked"
  /\ \/ /\ query = "channels" \/ \E x \in Objects(query) : Listed(query, x)
        /\ Sends(Plain(query, "Success"))
        /\ server' = "walking" /\ left' = Objects(query)
     \/ /\ query # "channels" /\ \A x \in Objects(query) : ~Listed(query, x)
        /\ Sends(Plain(query, "Nothing"))
        /\ server' = "none" /\ UNCHANGED left
     \/ /\ query \notin Room
        /\ Sends(Plain(query, "Error"))
        /\ server' = "none" /\ UNCHANGED left
  /\ UNCHANGED accepted

(* Things are looked at one by one; what is there by then is sent.         *)
Look(x) ==
  /\ server = "walking" /\ x \in left /\ left' = left \ {x}
  /\ IF Listed(query, x)
     THEN Sends([id |-> query, kind |-> "item", of |-> x,
                 value |-> IF query = "rooms" THEN None ELSE world[x]])
     ELSE UNCHANGED <<phones, wire, reading, request, answer>>
  /\ UNCHANGED <<server, accepted>>

EndList ==
  /\ server = "walking" /\ left = {} /\ server' = "none"
  /\ Sends(Plain(query, "complete"))
  /\ UNCHANGED <<left, accepted>>

(* An event, or the end of another list.                                   *)
SendForeign ==
  /\ stage # "idle"
  /\ \E kind \in {"event", "complete"} : Sends(Plain("other", kind))
  /\ UNCHANGED <<asterisk, accepted>>

----------------------------------------------------------------------------
(* What a list starts with: nothing heard.  One that went on with what an  *)
(* earlier one has left would be a bug.                                    *)
StillHeard == heard

FirstHeard == NobodyHeard

(* The request.  It starts by connecting, whatever it is for.              *)
Begin(for, e) ==
  /\ stage = "idle" /\ stage' = "login" /\ server' = "login"
  /\ purpose' = for /\ phone' = e /\ query' = FirstQuery(for)
  /\ answer' = "none" /\ accepted' = FALSE
  /\ since' = [x \in Object |-> {world[x]}]
  /\ frames' = 0 /\ started' = FALSE
  /\ heard' = FirstHeard /\ pending' = {} /\ lists' = NobodyListed
  /\ UNCHANGED <<world, changes, left, wire>>

(* Nothing is kept of a connection that is done with.                      *)
Answers(with) ==
  /\ stage' = "idle" /\ answer' = with
  /\ server' = "none" /\ left' = {} /\ wire' = None
  /\ UNCHANGED <<phones, purpose, query, phone, accepted>>

(* The connection is refused, breaks or is too slow, or a frame is too     *)
(* large.                                                                  *)
Break ==
  /\ stage # "idle"
  /\ Answers("error")
  /\ UNCHANGED reading

Reads == wire # None /\ wire' = None

Ask(q) ==
  /\ query' = q /\ server' = "asked" /\ left' = {} /\ stage' = "list"
  /\ frames' = 0 /\ started' = FALSE

(* expectResponse: the first frame, whatever it is, has to say yes.        *)
ReadLogin ==
  /\ stage = "login" /\ Reads
  /\ IF wire.kind # "Success"
     THEN Answers("error") /\ UNCHANGED reading
     ELSE IF purpose \in Commands
          THEN /\ stage' = "command" /\ server' = "command"
               /\ UNCHANGED <<phones, left, reading, purpose, query, phone,
                              accepted, answer>>
          ELSE /\ Ask(query)
               /\ since' = [x \in Object |-> {world[x]}]
               /\ UNCHANGED <<world, changes, heard, pending, lists, purpose,
                              phone, accepted, answer>>

ReadOutcome ==
  /\ stage = "command" /\ Reads
  /\ Answers(IF wire.kind = "Success" THEN "done" ELSE "error")
  /\ UNCHANGED reading

----------------------------------------------------------------------------
(* The loop that reads a list takes MaxFrames frames at most; one more     *)
(* would be a bug.                                                         *)
OneFrameMore == frames <= MaxFrames

FramesLeft == frames < MaxFrames

(* Frames of other actions are passed over; taking any frame for one's own *)
(* would be a bug.                                                         *)
AnyFrame == TRUE

Mine == wire.id = query

ReadsFrame ==
  /\ stage = "list" /\ Reads /\ FramesLeft /\ frames' = frames + 1

Goes ==
  UNCHANGED <<phones, asterisk, request, accepted, answer>>

PassOver ==
  /\ ReadsFrame /\ ~Mine
  /\ Goes /\ UNCHANGED <<started, heard, pending, lists>>

Exceed ==
  /\ stage = "list" /\ ~FramesLeft
  /\ Answers("error") /\ UNCHANGED reading

ReadStart ==
  /\ ReadsFrame /\ Mine /\ wire.kind = "Success"
  /\ started' = TRUE
  /\ Goes /\ UNCHANGED <<heard, pending, lists>>

(* The best of its states stands for a phone.                              *)
Rank(state) ==
  CASE state \in {"reachable", "in_call"} -> 4
    [] state \in {"nonqualified", "calling"} -> 3
    [] state \in {"unknown", "ringing"} -> 2
    [] state \in {"unreachable", "off_hook"} -> 1
    [] OTHER -> 0

Prefer(current, candidate) ==
  IF Rank(candidate) > Rank(current) THEN candidate ELSE current

(* Of the rooms, the first MaxRooms are taken.                             *)
ReadItem ==
  /\ ReadsFrame /\ Mine /\ wire.kind = "item"
  /\ \/ /\ query \in {"contacts", "channels"}
        /\ heard' = [heard EXCEPT ![Owner[wire.of]] = Prefer(@, Shows(wire.value))]
        /\ UNCHANGED <<pending, lists>>
     \/ /\ query = "rooms"
        /\ pending' = IF Cardinality(pending) < MaxRooms
                      THEN pending \cup {wire.of} ELSE pending
        /\ UNCHANGED <<heard, lists>>
     \/ /\ query \in Room
        /\ lists' = [lists EXCEPT ![query] = @ \cup {Owner[wire.of]}]
        /\ UNCHANGED <<heard, pending>>
  /\ Goes /\ UNCHANGED started

(* Rooms are asked about in turn, on the same connection.                  *)
NextRoom ==
  /\ UNCHANGED <<heard, lists>>
  /\ IF pending = {}
     THEN Answers("list") /\ UNCHANGED <<started, pending>> /\ frames' = frames + 1
     ELSE /\ \E r \in pending : Ask(r) /\ pending' = pending \ {r}
          /\ UNCHANGED <<phones, purpose, phone, accepted, answer>>

(* The states of a phone that may be rung; ringing any that is registered  *)
(* would be a bug.                                                         *)
Registered(state) == state # "none"

Online(state) == state \in {"reachable", "nonqualified"}

(* The contacts are known: the page shows them, the setup ring goes on if  *)
(* its phone is online.                                                    *)
ContactStatuses ==
  /\ UNCHANGED <<heard, lists, started, pending>> /\ frames' = frames + 1
  /\ IF purpose # "check" THEN Answers("list")
     ELSE IF Online(heard[phone])
          THEN /\ stage' = "login" /\ purpose' = "ring" /\ server' = "login"
               /\ left' = {}
               /\ UNCHANGED <<phones, query, phone, accepted, answer>>
          ELSE Answers("refused")

Whole ==
  \/ query = "contacts" /\ ContactStatuses
  \/ /\ query = "channels" /\ Answers("list")
     /\ UNCHANGED <<heard, lists, started, pending>> /\ frames' = frames + 1
  \/ query \in {"rooms"} \cup Room /\ NextRoom

ReadsLast ==
  /\ stage = "list" /\ Reads /\ FramesLeft /\ Mine

(* Without a response before it, the end is not believed.                  *)
ReadEnd ==
  /\ ReadsLast /\ wire.kind = "complete"
  /\ \/ started /\ Whole
     \/ ~started /\ Answers("error") /\ UNCHANGED reading

(* Nothing of the kind is there: no list of channels is answered so.  A    *)
(* room that is no more has nobody in it.                                  *)
ReadNothing ==
  /\ ReadsLast /\ wire.kind = "Nothing"
  /\ \/ query # "channels" /\ Whole
     \/ query = "channels" /\ Answers("error") /\ UNCHANGED reading

ReadRefusal ==
  /\ ReadsLast /\ wire.kind = "Error"
  /\ \/ query \in Room /\ Whole
     \/ query \notin Room /\ Answers("error") /\ UNCHANGED reading

----------------------------------------------------------------------------
Next ==
  \/ \E x \in Object : \E v \in Value(x) : Change(x, v)
  \/ AnswerLogin \/ TakeCommand \/ StartList \/ EndList \/ SendForeign
  \/ \E x \in Object \cup Room : Look(x)
  \/ \E for \in Purpose \ {"check", "ring"} : Begin(for, None)
  \/ \E e \in Endpoint : Begin("check", e)
  \/ Break \/ ReadLogin \/ ReadOutcome
  \/ PassOver \/ Exceed \/ ReadStart \/ ReadItem
  \/ ReadEnd \/ ReadNothing \/ ReadRefusal

Spec == Init /\ [][Next]_vars

----------------------------------------------------------------------------
(* Properties.                                                             *)

(* Everything is of its type, and no loop reads a frame too many.          *)
TypeOK ==
  /\ world \in [Object -> Values] /\ since \in [Object -> SUBSET Values]
  /\ stage \in {"idle", "login", "list", "command"}
  /\ purpose \in Purpose /\ query \in Question /\ phone \in Endpoint \cup {None}
  /\ server \in {"none", "login", "command", "asked", "walking"}
  /\ left \subseteq Objects(query)
  /\ wire \in Frame \cup {None}
  /\ frames \in 0..MaxFrames /\ started \in BOOLEAN
  /\ heard \in [Endpoint -> ContactState \cup PhoneActivityState \cup {"none"}]
  /\ pending \subseteq Room /\ lists \in [Room -> SUBSET Endpoint]
  /\ accepted \in BOOLEAN
  /\ answer \in {"none", "error", "refused", "list", "done"}

(* What is said of a phone was so while the question was being answered:   *)
(* it had a registration or channel in that state, or a channel in that    *)
(* room.                                                                   *)
AnswersAreTrue ==
  answer = "list" =>
    /\ purpose \in {"presence", "activity"} =>
         \A e \in Endpoint : heard[e] # "none" =>
           \E x \in Objects(FirstQuery(purpose)) :
             Owner[x] = e /\ \E v \in since[x] : heard[e] = Shows(v)
    /\ purpose = "calls" =>
         \A r \in Room : \A e \in lists[r] :
           \E x \in Channel : Owner[x] = e /\ r \in since[x]

(* activePartyCalls: a call with two of the party's phones is shown.       *)
ShownWith(r, e) ==
  e \in lists[r] \cap Known /\ \E f \in lists[r] \cap Known : f # e

RoomsSince == {r \in Room : \E x \in Channel : r \in since[x]}

(* And what was so all the while is said: a list that broke off, ran out   *)
(* of frames or ended with somebody else's frame is no answer.  No phone   *)
(* is shown below a state that it kept, and no call of two phones of the   *)
(* party that stayed in it is missing, unless there are too many rooms.    *)
AnswersAreComplete ==
  answer = "list" =>
    /\ purpose \in {"presence", "activity"} =>
         \A x \in Objects(FirstQuery(purpose)) : \A v \in since[x] \ {"gone"} :
           since[x] = {v} => Rank(heard[Owner[x]]) >= Rank(Shows(v))
    /\ purpose = "calls" /\ Cardinality(RoomsSince) <= MaxRooms =>
         \A r \in Room, x, y \in Channel :
           /\ since[x] = {r} /\ since[y] = {r}
           /\ {Owner[x], Owner[y]} \subseteq Known /\ Owner[x] # Owner[y]
           => ShownWith(r, Owner[x])

(* Success is reported of commands that Asterisk has taken, and a phone is *)
(* rung for its setup only if it was online when that was looked up.       *)
CommandsAreHonest ==
  /\ answer = "done" => accepted
  /\ purpose = "ring" /\ accepted =>
       \E x \in Contact :
         Owner[x] = phone /\ since[x] \cap {"reachable", "nonqualified"} # {}
=============================================================================
