-------------------------- MODULE VoiceLinesProofs --------------------------
(***************************************************************************)
(* Theorems about the spoken lines, for any number of calls and any        *)
(* durations.                                                              *)
(***************************************************************************)
EXTENDS VoiceLines, TLAPS

(* A row with fields of their types.                                       *)
LEMMA Rows ==
  /\ NewCall \in CallRow /\ NewCall.stage = "idle" /\ NewCall.words = None
  /\ \A row \in CallRow :
       /\ \A stage \in Stage :
            /\ [row EXCEPT !.stage = stage] \in CallRow
            /\ Returned(row, stage) \in CallRow
       /\ \A answered \in BOOLEAN : Over(row, answered) \in CallRow
       /\ CutOff(row) \in CallRow
<1>1. NewCall \in CallRow
  BY DEF NewCall, CallRow, Stage, Line, Cached, Services, Place, FirstServices, NoPlace
<1>2. ASSUME NEW row \in CallRow, NEW stage \in Stage
      PROVE  /\ [row EXCEPT !.stage = stage] \in CallRow
             /\ Returned(row, stage) \in CallRow
  BY <1>1 DEF CallRow, Returned
<1>3. ASSUME NEW row \in CallRow, NEW answered \in BOOLEAN
      PROVE  Over(row, answered) \in CallRow
  <2>1. "over" \in Stage
    BY DEF Stage
  <2> QED
    BY <1>1, <2>1 DEF CallRow, Over
<1>4. NewCall.stage = "idle" /\ NewCall.words = None
  BY DEF NewCall
<1>5. ASSUME NEW row \in CallRow
      PROVE  CutOff(row) \in CallRow
  BY DEF CallRow, CutOff
<1> QED
  BY <1>1, <1>2, <1>3, <1>4, <1>5

----------------------------------------------------------------------------
(* Which steps change the clock, the settings and the place.               *)
LEMMA Frames ==
  ASSUME Next
  PROVE  /\ UNCHANGED <<now, up>> \/ Tick \/ Crash \/ Serve
         /\ now' = now \/ Tick
         /\ UNCHANGED services \/ UpdatePartyServices
         /\ UNCHANGED place \/ SetPlace \/ place' = [NoPlace EXCEPT !.id = place.id]
  BY DEF Next, Tick, Proceed, settings, UpdatePartyServices, Crash, Serve,
      UpdateMemberWeatherLocationForHost, Dial, Hangup, RemoveAnnouncement,
      TimeAudio, OperatorAudio, HandleWeather, WeatherLocationForDevice,
      AskAgain, SetWeatherLocationByDevice, WeatherAudio, Speak, Chtimes, Play,
      Finish, Fail, Sorry, CommandFails, HandleJoinParty, WriteTemporary, Rename,
      AfterFunc, AnnounceJoin, Fallback

(* Where a handler of the three cached lines is between reading what its   *)
(* speech depends on and playing it.                                       *)
Live == {"preparing", "speaking", "stamping", "ready"}

(* A call that is over: its caller was answered, or called the weather and *)
(* was cut off from its handler.                                           *)
Accounted(row) == row.answered \/ (row.line = "weather" /\ row.refused)

(* Who has heard what: words only while they are played, and no call ends  *)
(* that is not accounted for.                                              *)
AnswerInv ==
  \A c \in Call :
    /\ calls[c].stage = "over" => Accounted(calls[c])
    /\ calls[c].stage # "played" => calls[c].words = None
    /\ calls[c].asked <= now

(* A row of a call that is at none of the stages the proofs follow.        *)
Quiet(row) ==
  /\ row.line = "join" \/ row.stage \notin Live \cup {"played"}
  /\ row.stage = "over" => Accounted(row)
  /\ row.words = None
  /\ row.asked <= now

Found(c) == WeatherLocationForDevice(c) /\ place.known
Heard(c) == Play(c) /\ ~calls[c].hungup

(* The steps of one call, those that only leave a quiet row behind taken   *)
(* together.                                                               *)
Quiets(c) ==
  /\ \E row \in CallRow : Quiet(row) /\ Becomes(c, row)
  /\ UNCHANGED <<now, services, files>>

Follows(c) ==
  \/ Hangup(c)
  \/ TimeAudio(c) \/ OperatorAudio(c) \/ Found(c) \/ WeatherAudio(c)
  \/ Speak(c) \/ Chtimes(c) \/ Heard(c)

LEMMA QuietRows ==
  ASSUME TypeOK, AnswerInv, NEW c \in Call
  PROVE  /\ \A stage \in Stage \ {"over", "played"} :
              Quiet(Returned(calls[c], stage)) \/ stage \in Live
         /\ \A answered \in BOOLEAN :
              answered \/ calls[c].answered \/ calls[c].hungup
                => Quiet(Over(calls[c], answered))
         /\ \A stage \in Stage \ {"over", "played"} :
              calls[c].stage # "played"
                /\ (calls[c].line = "join" \/ stage \notin Live)
                => Quiet([calls[c] EXCEPT !.stage = stage])
<1>0. calls[c] \in CallRow /\ now \in Nat
  BY DEF TypeOK
<1>1. ASSUME NEW stage \in Stage \ {"over", "played"}, stage \notin Live
      PROVE  Quiet(Returned(calls[c], stage))
  BY <1>0, <1>1 DEF Quiet, Returned, NewCall, Live
<1>2. ASSUME NEW answered \in BOOLEAN,
             answered \/ calls[c].answered \/ calls[c].hungup
      PROVE  Quiet(Over(calls[c], answered))
  <2> DEFINE row == Over(calls[c], answered)
  <2>1. row.stage = "over" /\ row.words = None /\ row.asked = 0
    BY DEF Over, NewCall
  <2>2. row.answered = (answered \/ calls[c].answered \/ calls[c].hungup)
    BY DEF Over, NewCall
  <2> HIDE DEF row
  <2>3. row.answered
    BY <1>2, <2>2, Zenon
  <2>4. Quiet(row)
    BY <1>0, <2>1, <2>3 DEF Quiet, Accounted, Live
  <2> QED
    BY <2>4 DEF row
<1>3. ASSUME NEW stage \in Stage \ {"over", "played"}, calls[c].stage # "played",
             calls[c].line = "join" \/ stage \notin Live
      PROVE  Quiet([calls[c] EXCEPT !.stage = stage])
  BY <1>0, <1>3 DEF Quiet, CallRow, AnswerInv
<1> QED
  BY <1>1, <1>2, <1>3

(* The row of a handler that is cut off is quiet, the weather's too.       *)
LEMMA AbandonedRows ==
  ASSUME TypeOK, NEW c \in Call
  PROVE  /\ Abandoned(calls[c]) \in CallRow /\ Quiet(Abandoned(calls[c]))
         /\ Abandoned(calls[c]).stage \in {"cut", "over"}
         /\ ~Abandoned(calls[c]).voice
         /\ LET sorry == Returned(CutOff(calls[c]), "sorry")
            IN  sorry \in CallRow /\ Quiet(sorry) /\ ~sorry.voice
<1> DEFINE row == CutOff(calls[c])
<1>0. calls[c] \in CallRow /\ now \in Nat
  BY DEF TypeOK
<1>1. row \in CallRow /\ row.refused = TRUE /\ row.line = calls[c].line
  BY <1>0, Rows DEF CutOff, CallRow
<1> HIDE DEF row
<1>2. ASSUME NEW stage \in {"cut", "sorry"}
      PROVE  /\ Returned(row, stage) \in CallRow /\ Quiet(Returned(row, stage))
             /\ Returned(row, stage).stage = stage /\ ~Returned(row, stage).voice
  <2>1. stage \in Stage /\ stage \notin {"over", "played"} /\ stage \notin Live
    BY DEF Stage, Live
  <2>2. Returned(row, stage) \in CallRow
    BY <1>1, <2>1, Rows
  <2> QED
    BY <1>0, <2>1, <2>2 DEF Quiet, Returned, NewCall
<1>3. ASSUME calls[c].line = "weather"
      PROVE  /\ Over(row, FALSE) \in CallRow /\ Quiet(Over(row, FALSE))
             /\ Over(row, FALSE).stage = "over" /\ ~Over(row, FALSE).voice
  <2> DEFINE end == Over(row, FALSE)
  <2>1. end \in CallRow
    BY <1>1, Rows
  <2>2. /\ end.stage = "over" /\ end.words = None /\ end.asked = 0
        /\ end.line = "weather" /\ end.refused = TRUE /\ ~end.voice
    BY <1>1, <1>3 DEF Over, NewCall
  <2> HIDE DEF end
  <2>3. Accounted(end)
    BY <2>2 DEF Accounted
  <2>4. Quiet(end)
    BY <1>0, <2>2, <2>3 DEF Quiet, Live
  <2> QED
    BY <2>1, <2>2, <2>4 DEF end
<1> QED
  BY <1>2, <1>3 DEF Abandoned, row

LEMMA Moves ==
  ASSUME TypeOK, AnswerInv, Next
  PROVE  \/ UNCHANGED <<calls, files>>
         \/ Crash
         \/ \E c \in Call : Quiets(c) \/ Follows(c)
<1>0. calls \in [Call -> CallRow] /\ now \in Nat /\ services \in Services
      /\ place \in Place /\ files \in [Cached -> Speech \cup {None}]
  BY DEF TypeOK
<1>1. CASE Tick \/ Serve \/ UpdatePartyServices \/ UpdateMemberWeatherLocationForHost
  BY <1>1 DEF Tick, Serve, UpdatePartyServices, UpdateMemberWeatherLocationForHost
<1>2. CASE Crash
  BY <1>2
<1>3. ASSUME NEW c \in Call, NEW line \in Line, Dial(c, line)
      PROVE  Quiets(c)
  <2> DEFINE row == [calls[c] EXCEPT !.line = line,
                                     !.stage = IF up THEN "reading" ELSE "cut"]
  <2>0. calls[c] \in CallRow /\ {"reading", "cut"} \subseteq Stage
    BY <1>0 DEF Stage
  <2>1. row \in CallRow
    BY <2>0 DEF CallRow
  <2>2. Quiet(row)
    BY <1>0, <1>3 DEF Dial, Quiet, CallRow, AnswerInv, Live
  <2> QED
    BY <1>3, <2>1, <2>2 DEF Dial, Quiets, settings
<1>4. ASSUME NEW c \in Call, Proceed(c)
      PROVE  Quiets(c) \/ Follows(c)
  <2>0. calls[c] \in CallRow
    BY <1>0
  <2>1. CASE TimeAudio(c) \/ OperatorAudio(c) \/ WeatherAudio(c) \/ Speak(c)
             \/ Chtimes(c)
    BY <2>1 DEF Follows
  <2>2. CASE HandleWeather(c)
    BY <2>0, <2>2, Rows, QuietRows
       DEF HandleWeather, Goes, Stage, Quiets, At, settings, Live
  <2>3. CASE WeatherLocationForDevice(c)
    <3>1. CASE place.known
      BY <2>3, <3>1 DEF Follows, Found
    <3>2. CASE ~place.known
      BY <2>0, <2>3, <3>2, Rows, QuietRows
         DEF WeatherLocationForDevice, Goes, Stage, Quiets, At, settings, Live
    <3> QED
      BY <3>1, <3>2
  <2>4. CASE AskAgain(c)
    <3>1. CASE TriesLeft(c)
      <4> DEFINE row == [calls[c] EXCEPT !.attempt = @ + 1]
      <4>1. row \in CallRow
        BY <2>0, <3>1 DEF CallRow, TriesLeft
      <4>2. Quiet(row)
        BY <2>0, <2>4 DEF AskAgain, At, Quiet, CallRow, AnswerInv, Live
      <4> QED
        BY <2>4, <3>1, <4>1, <4>2 DEF AskAgain, Quiets, settings
    <3>2. CASE ~TriesLeft(c)
      BY <2>0, <2>4, <3>2, Rows, QuietRows DEF AskAgain, Ends, Quiets, settings
    <3> QED
      BY <3>1, <3>2
  <2>5. CASE SetWeatherLocationByDevice(c)
    <3> DEFINE row == [calls[c] EXCEPT !.attempt = 0, !.stage = "again"]
    <3>0. 0 \in 0..2
      OBVIOUS
    <3>1. row \in CallRow
      BY <2>0, <3>0 DEF CallRow, Stage
    <3>2. Quiet(row)
      BY <2>0, <2>5 DEF SetWeatherLocationByDevice, At, Quiet, CallRow,
                        AnswerInv, Live
    <3> QED
      BY <2>5, <3>1, <3>2 DEF SetWeatherLocationByDevice, Quiets
  <2>6. CASE Play(c)
    <3>1. CASE calls[c].hungup
      BY <2>0, <2>6, <3>1, Rows, QuietRows DEF Play, Ends, Quiets, settings
    <3>2. CASE ~calls[c].hungup
      BY <2>6, <3>2 DEF Follows, Heard
    <3> QED
      BY <3>1, <3>2
  <2>7. CASE Finish(c) \/ Sorry(c)
    BY <2>0, <2>7, Rows, QuietRows
       DEF Finish, Sorry, Ends, Quiets, settings, AnswerInv
  <2>8. CASE Fail(c)
    <3>1. CASE Returns(c, IF calls[c].line = "weather" THEN "sorry" ELSE "cut")
      <4> DEFINE stage == IF calls[c].line = "weather" THEN "sorry" ELSE "cut"
      <4>1. stage \in Stage \ {"over", "played"} /\ stage \notin Live
        BY DEF Stage, Live
      <4> HIDE DEF stage
      <4>2. Returned(calls[c], stage) \in CallRow /\ Quiet(Returned(calls[c], stage))
        BY <2>0, <4>1, Rows, QuietRows
      <4> QED
        BY <2>8, <3>1, <4>2 DEF Fail, Returns, Quiets, settings, stage
    <3>2. CASE calls[c].line = "join" /\ Returns(c, "cut")
      BY <3>1, <3>2
    <3>3. CASE /\ calls[c].line = "join" /\ calls[c].stage # "played"
               /\ Goes(c, "announcing")
      <4>1. "announcing" \in Stage \ {"over", "played"}
        BY DEF Stage
      <4>2. /\ [calls[c] EXCEPT !.stage = "announcing"] \in CallRow
            /\ Quiet([calls[c] EXCEPT !.stage = "announcing"])
        BY <2>0, <3>3, <4>1, Rows, QuietRows
      <4> QED
        BY <2>8, <3>3, <4>2 DEF Fail, Goes, Quiets, settings
    <3> QED
      BY <2>8, <3>1, <3>2, <3>3 DEF Fail
  <2>9. CASE WriteTemporary(c) \/ Rename(c)
    BY <2>0, <2>9, Rows, QuietRows
       DEF WriteTemporary, Rename, Goes, Stage, Quiets, settings, At
  <2>10. CASE HandleJoinParty(c)
    <3> DEFINE row == [calls[c] EXCEPT !.asked = now, !.stage = "speaking"]
    <3>1. row \in CallRow
      BY <2>0, <1>0 DEF CallRow, Stage
    <3>2. Quiet(row)
      BY <2>0, <1>0, <2>10 DEF HandleJoinParty, At, Quiet, CallRow, AnswerInv
    <3> QED
      BY <2>10, <3>1, <3>2 DEF HandleJoinParty, Quiets, settings
  <2>11. CASE AfterFunc(c)
    <3> DEFINE row == [calls[c] EXCEPT !.voice = TRUE, !.stage = "announcing"]
    <3>1. row \in CallRow
      BY <2>0 DEF CallRow, Stage
    <3>2. Quiet(row)
      BY <2>0, <2>11 DEF AfterFunc, At, Quiet, CallRow, AnswerInv
    <3> QED
      BY <2>11, <3>1, <3>2 DEF AfterFunc, Quiets, settings
  <2>12. CASE AnnounceJoin(c)
    <3> DEFINE row == [calls[c] EXCEPT !.stage = "played"]
    <3>1. row \in CallRow
      BY <2>0 DEF CallRow, Stage
    <3>2. Quiet(row)
      BY <2>0, <2>12 DEF AnnounceJoin, At, Quiet, CallRow, AnswerInv
    <3> QED
      BY <2>12, <3>1, <3>2 DEF AnnounceJoin, Goes, Quiets, settings
  <2>14. CASE CommandFails(c)
    BY <2>14, AbandonedRows DEF CommandFails, Quiets, settings
  <2>13. CASE Fallback(c)
    <3>1. LocalAnswer(calls[c].line) = TRUE
      BY <2>0 DEF LocalAnswer, CallRow
    <3> QED
      BY <2>0, <2>13, <3>1, Rows, QuietRows DEF Fallback, Ends, Quiets, settings
  <2> QED
    BY <1>4, <2>1, <2>2, <2>3, <2>4, <2>5, <2>6, <2>7, <2>8, <2>9, <2>10,
       <2>11, <2>12, <2>13, <2>14 DEF Proceed
<1>5. ASSUME NEW c \in Call, RemoveAnnouncement(c)
      PROVE  UNCHANGED <<calls, files>>
  BY <1>5 DEF RemoveAnnouncement
<1> QED
  BY <1>1, <1>2, <1>3, <1>4, <1>5 DEF Next, Follows

(* A crash leaves only quiet rows.                                         *)
LEMMA CrashRows ==
  ASSUME TypeOK, AnswerInv, Crash, NEW c \in Call
  PROVE  calls'[c] \in CallRow /\ (Quiet(calls'[c]) \/ calls'[c] = calls[c])
         /\ (calls[c].stage \in Outside \/ Quiet(calls'[c]))
<1>0. calls[c] \in CallRow /\ now \in Nat /\ calls'[c] = LeftAlone(calls[c])
  BY DEF TypeOK, Crash
<1>1. CASE calls[c].stage \in Outside
  BY <1>0, <1>1 DEF LeftAlone
<1>2. CASE calls[c].stage \notin Outside
  BY <1>0, <1>2, AbandonedRows DEF LeftAlone
<1> QED
  BY <1>1, <1>2

----------------------------------------------------------------------------
(* The file a call is about to play, or to stamp, will do.                 *)
HandInv ==
  \A c \in Call :
    /\ calls[c].line = "time" /\ calls[c].stage \in {"stamping", "ready"}
         => /\ files["time"] # None
            /\ StartOfMinute(calls[c].asked) <= files["time"].began + MaxSpeech
            /\ calls[c].stage = "stamping"
                 => calls[c].asked <= files["time"].began + MaxSpeech
    /\ calls[c].line \in {"operator", "weather"} /\ calls[c].stage = "ready"
         => /\ files[calls[c].line] # None
            /\ calls[c].read.updated <= files[calls[c].line].finished
            /\ calls[c].line = "weather"
                 => calls[c].place.updated <= files["weather"].finished

LEMMA TypePreserved ==
  TypeOK /\ AnswerInv /\ HandInv /\ [Next]_vars => TypeOK'
<1> SUFFICES ASSUME TypeOK, AnswerInv, HandInv, Next
             PROVE  TypeOK'
  BY DEF vars, TypeOK
<1>0. calls \in [Call -> CallRow] /\ now \in Nat /\ services \in Services
      /\ place \in Place /\ files \in [Cached -> Speech \cup {None}]
      /\ joinFiles \in [Call -> {"none", "temporary", "written"}]
      /\ timers \in [Call -> Nat \cup {None}] /\ JoinAudioTTL \in Nat
  BY VoiceLinesAssumption DEF TypeOK
<1>1. now' \in Nat /\ up' \in BOOLEAN
  <2>1. CASE Tick
    BY <1>0, <2>1 DEF Tick, TypeOK
  <2>2. CASE Crash \/ Serve
    BY <1>0, <2>2 DEF Crash, Serve
  <2>3. CASE UNCHANGED <<now, up>>
    BY <2>3 DEF TypeOK
  <2> QED
    BY <2>1, <2>2, <2>3, Frames
<1>2. services' \in Services
  <2>1. CASE UpdatePartyServices
    BY <1>0, <2>1 DEF UpdatePartyServices, Services
  <2> QED
    BY <1>0, <2>1, Frames
<1>3. place' \in Place
  <2>1. SetPlace => place' \in Place
    BY <1>0 DEF SetPlace, Place
  <2>2. ASSUME place' = [NoPlace EXCEPT !.id = place.id]
        PROVE  place' \in Place
    <3>1. place' = [id |-> place.id, known |-> FALSE, updated |-> 0, committed |-> 0]
      BY <2>2 DEF NoPlace
    <3> QED
      BY <1>0, <3>1 DEF Place
  <2> QED
    BY <1>0, <2>1, <2>2, Frames
<1>4. /\ joinFiles' \in [Call -> {"none", "temporary", "written"}]
      /\ timers' \in [Call -> Nat \cup {None}]
  <2>1. CASE Crash
    BY <1>0, <2>1 DEF Crash
  <2>2. CASE Serve
    BY <1>0, <2>2 DEF Serve, Swept
  <2>3. ASSUME NEW c \in Call,
               \/ RemoveAnnouncement(c) \/ WriteTemporary(c) \/ Rename(c)
               \/ AfterFunc(c) \/ Fail(c)
        PROVE  /\ joinFiles' \in [Call -> {"none", "temporary", "written"}]
               /\ timers' \in [Call -> Nat \cup {None}]
    BY <1>0, <2>3 DEF RemoveAnnouncement, WriteTemporary, Rename, AfterFunc,
                      Fail, announcements
  <2>4. CASE ~(\/ Crash \/ Serve
               \/ \E c \in Call :
                     \/ RemoveAnnouncement(c) \/ WriteTemporary(c) \/ Rename(c)
                     \/ AfterFunc(c) \/ Fail(c))
    <3>1. UNCHANGED announcements
      BY <2>4 DEF Next, Tick, Proceed, UpdatePartyServices,
      UpdateMemberWeatherLocationForHost, Dial, Hangup, TimeAudio,
      OperatorAudio, HandleWeather, WeatherLocationForDevice, AskAgain,
      SetWeatherLocationByDevice, WeatherAudio, Speak, Chtimes, Play, Finish,
      Sorry, CommandFails, HandleJoinParty, AnnounceJoin, Fallback, announcements
    <3> QED
      BY <1>0, <3>1 DEF announcements
  <2> QED
    BY <2>1, <2>2, <2>3, <2>4
<1>5. calls' \in [Call -> CallRow] /\ files' \in [Cached -> Speech \cup {None}]
  <2>1. CASE UNCHANGED <<calls, files>>
    BY <1>0, <2>1
  <2>2. CASE Crash
    BY <1>0, <2>2, CrashRows DEF Crash
  <2>3. ASSUME NEW c \in Call, Quiets(c)
        PROVE  /\ calls' \in [Call -> CallRow]
               /\ files' \in [Cached -> Speech \cup {None}]
    BY <1>0, <2>3 DEF Quiets, Becomes
  <2>4. ASSUME NEW c \in Call, Follows(c)
        PROVE  /\ calls' \in [Call -> CallRow]
               /\ files' \in [Cached -> Speech \cup {None}]
    <3>0. calls[c] \in CallRow
      BY <1>0
    <3>1. CASE Hangup(c)
      BY <1>0, <3>0, <3>1 DEF Hangup, Becomes, CallRow
    <3>2. CASE TimeAudio(c)
      BY <1>0, <3>0, <3>2 DEF TimeAudio, Becomes, CallRow, Stage, Then
    <3>3. CASE OperatorAudio(c)
      BY <1>0, <3>0, <3>3 DEF OperatorAudio, Becomes, CallRow, Stage, Then
    <3>4. CASE Found(c)
      <4> DEFINE row == [calls[c] EXCEPT !.place = place, !.asked = now,
                                         !.stage = "preparing"]
      <4>1. row \in CallRow
        BY <1>0, <3>0 DEF CallRow, Stage
      <4> QED
        BY <1>0, <3>4, <4>1 DEF Found, WeatherLocationForDevice, Becomes
    <3>5. CASE WeatherAudio(c)
      BY <1>0, <3>0, <3>5 DEF WeatherAudio, Becomes, CallRow, Stage, Then
    <3>6. CASE Speak(c)
      <4>1. files' \in [Cached -> Speech \cup {None}]
        BY <1>0, <3>0, <3>6 DEF Speak, Speech, CallRow, Services, Place
      <4> QED
        BY <1>0, <3>0, <3>6, <4>1, Rows DEF Speak, Goes, Becomes, Stage
    <3>7. CASE Chtimes(c)
      <4>0. files["time"] \in Speech /\ "time" \in Cached
        BY <1>0, <3>7 DEF HandInv, Chtimes, At, Cached
      <4>1. files' \in [Cached -> Speech \cup {None}]
        BY <1>0, <3>0, <3>7, <4>0 DEF Chtimes, Speech, CallRow
      <4> QED
        BY <1>0, <3>0, <3>7, <4>1, Rows DEF Chtimes, Goes, Becomes, Stage
    <3>8. CASE Heard(c)
      <4> DEFINE row == [calls[c] EXCEPT !.words = files[calls[c].line],
                                         !.answered = TRUE, !.stage = "played"]
      <4>1. row \in CallRow
        BY <1>0, <3>0, <3>8 DEF Heard, Play, CallRow, Stage
      <4> QED
        BY <1>0, <3>8, <4>1 DEF Heard, Play, Becomes
    <3> QED
      BY <2>4, <3>1, <3>2, <3>3, <3>4, <3>5, <3>6, <3>7, <3>8 DEF Follows
  <2> QED
    BY <2>1, <2>2, <2>3, <2>4, Moves
<1> QED
  BY <1>1, <1>2, <1>3, <1>4, <1>5 DEF TypeOK

LEMMA AnswerPreserved ==
  TypeOK /\ AnswerInv /\ [Next]_vars => AnswerInv'
<1>1. CASE UNCHANGED vars
  BY <1>1 DEF vars, AnswerInv
<1> SUFFICES ASSUME TypeOK, AnswerInv, Next, NEW d \in Call
             PROVE  /\ calls'[d].stage = "over" => Accounted(calls'[d])
                    /\ calls'[d].stage # "played" => calls'[d].words = None
                    /\ calls'[d].asked <= now'
  BY <1>1 DEF AnswerInv
<1>0. /\ calls \in [Call -> CallRow] /\ calls[d] \in CallRow /\ now \in Nat
      /\ calls[d].asked <= now
  BY DEF TypeOK, AnswerInv
<1>2. CASE calls'[d] = calls[d] /\ (now' = now \/ Tick)
  BY <1>0, <1>2 DEF AnswerInv, Tick, CallRow
<1>3. CASE Quiet(calls'[d]) /\ now' = now
  BY <1>3 DEF Quiet, AnswerInv
<1>4. CASE UNCHANGED <<calls, files>>
  <2>1. now' = now \/ Tick
    BY Frames
  <2> QED
    BY <1>2, <1>4, <2>1
<1>5. CASE Crash
  BY <1>2, <1>3, <1>5, CrashRows DEF Crash
<1>6. ASSUME NEW c \in Call, Quiets(c)
      PROVE  (calls'[d] = calls[d] \/ Quiet(calls'[d])) /\ now' = now
  BY <1>0, <1>6 DEF Quiets, Becomes
<1>7. ASSUME NEW c \in Call, Follows(c), c = d
      PROVE  /\ calls'[d].stage = "over" => Accounted(calls'[d])
             /\ calls'[d].stage # "played" => calls'[d].words = None
             /\ calls'[d].asked <= now'
  <2>1. CASE Hangup(c)
    BY <1>0, <1>7, <2>1 DEF Hangup, Becomes, AnswerInv, CallRow
  <2>2. CASE TimeAudio(c) \/ OperatorAudio(c) \/ Found(c) \/ WeatherAudio(c)
    <3>1. /\ calls'[d].stage \in {"ready", "speaking", "preparing"}
          /\ calls'[d].words = calls[d].words /\ calls[d].stage # "played"
          /\ calls'[d].asked \in {now, calls[d].asked} /\ now' = now
      <4>1. CASE TimeAudio(c)
        BY <1>0, <1>7, <4>1 DEF TimeAudio, At, Then, Becomes, CallRow
      <4>2. CASE OperatorAudio(c)
        BY <1>0, <1>7, <4>2 DEF OperatorAudio, At, Then, Becomes, CallRow
      <4>3. CASE Found(c)
        <5>1. /\ calls'[d] = [calls[d] EXCEPT !.place = place, !.asked = now,
                                               !.stage = "preparing"]
              /\ calls[d].stage # "played" /\ now' = now
          BY <1>0, <1>7, <4>3 DEF Found, WeatherLocationForDevice, At, Becomes
        <5> QED
          BY <1>0, <5>1 DEF CallRow
      <4>4. CASE WeatherAudio(c)
        BY <1>0, <1>7, <4>4 DEF WeatherAudio, At, Then, Becomes, CallRow
      <4> QED
        BY <2>2, <4>1, <4>2, <4>3, <4>4
    <3> QED
      BY <1>0, <3>1 DEF AnswerInv
  <2>3. CASE Speak(c) \/ Chtimes(c)
    BY <1>0, <1>7, <2>3 DEF Speak, Chtimes, At, Goes, Becomes, AnswerInv, CallRow
  <2>4. CASE Heard(c)
    <3>1. /\ calls'[d].stage = "played"
          /\ calls'[d].asked = calls[d].asked /\ now' = now
      <4>1. /\ calls'[d] = [calls[d] EXCEPT !.words = files[calls[c].line],
                                             !.answered = TRUE,
                                             !.stage = "played"]
            /\ now' = now
        BY <1>0, <1>7, <2>4 DEF Heard, Play, Becomes
      <4> QED
        BY <1>0, <4>1 DEF CallRow
    <3> QED
      BY <1>0, <3>1
  <2> QED
    BY <1>7, <2>1, <2>2, <2>3, <2>4 DEF Follows
<1>8. ASSUME NEW c \in Call, Follows(c), c # d
      PROVE  calls'[d] = calls[d] /\ now' = now
  BY <1>0, <1>8 DEF Follows, Hangup, TimeAudio, OperatorAudio, Found, WeatherAudio,
     Speak, Chtimes, Heard, Play, WeatherLocationForDevice, Becomes, Goes
<1> QED
  BY <1>2, <1>3, <1>4, <1>5, <1>6, <1>7, <1>8, Moves

----------------------------------------------------------------------------
(* A file was made from settings read when it was begun, in the time that  *)
(* speaking may take; only the file of the time is stamped, and never with *)
(* a time much later than that.                                            *)
FileInv ==
  \A l \in Cached :
    files[l] # None =>
      /\ files[l].began <= now
      /\ files[l].finished <= files[l].began + MaxSpeech
      /\ files[l].mtime <= files[l].began + MaxSpeech
      /\ l # "time" => files[l].mtime = files[l].finished

(* What settings a call goes by, and what settings words are made from.    *)
GoesBy == {"speaking", "ready", "played"}

Setting(l, r) ==
  \/ r = services
  \/ \E c \in Call : calls[c].line = l /\ calls[c].stage \in GoesBy /\ calls[c].read = r

Source(l, v, b) ==
  \/ files[l] # None /\ files[l].version = v /\ files[l].began = b
  \/ \E c \in Call : /\ calls[c].line = l /\ calls[c].stage = "speaking"
                     /\ calls[c].read.version = v /\ calls[c].asked = b

(* Words from older settings were begun before the newer ones came.        *)
SettingInv ==
  \A l \in {"operator", "weather"}, r \in Services :
    Setting(l, r) =>
      /\ r.version <= services.version /\ r.updated <= now
      /\ \A v, b \in Nat : Source(l, v, b) /\ v < r.version => b <= r.committed

(* The same of the places.                                                 *)
Whereabouts(p) ==
  \/ p = place /\ place.known
  \/ \E c \in Call : /\ calls[c].line = "weather"
                     /\ calls[c].stage \in {"preparing"} \cup GoesBy
                     /\ calls[c].place = p

PlaceSource(id, b) ==
  \/ /\ files["weather"] # None
     /\ files["weather"].place = id /\ files["weather"].began = b
  \/ \E c \in Call : /\ calls[c].line = "weather"
                     /\ calls[c].stage \in {"preparing", "speaking"}
                     /\ calls[c].place.id = id /\ calls[c].asked = b

PlaceInv ==
  \A p \in Place :
    Whereabouts(p) =>
      /\ p.id <= place.id /\ p.updated <= now
      /\ \A id, b \in Nat : PlaceSource(id, b) /\ id < p.id => b <= p.committed

LEMMA FilePreserved ==
  TypeOK /\ AnswerInv /\ HandInv /\ FileInv /\ [Next]_vars => FileInv'
<1>1. CASE UNCHANGED vars
  BY <1>1 DEF vars, FileInv
<1> SUFFICES ASSUME TypeOK, AnswerInv, HandInv, FileInv, Next
             PROVE  FileInv'
  BY <1>1
<1>0. /\ calls \in [Call -> CallRow] /\ now \in Nat /\ MaxSpeech \in Nat
      /\ files \in [Cached -> Speech \cup {None}]
  BY VoiceLinesAssumption DEF TypeOK
<1>f. ASSUME NEW l \in Cached, files[l] # None
      PROVE  files[l] \in Speech
  BY <1>0, <1>f
<1>2. CASE files' = files /\ (now' = now \/ Tick)
  BY <1>0, <1>2, <1>f DEF FileInv, Tick, Speech
<1>3. ASSUME NEW c \in Call, Speak(c)
      PROVE  FileInv'
  <2>0. calls[c] \in CallRow /\ calls[c].asked <= now /\ now' = now
    BY <1>0, <1>3 DEF AnswerInv, Speak
  <2>1. ASSUME NEW l \in Cached, l # calls[c].line
        PROVE  files'[l] = files[l]
    BY <1>0, <1>3, <2>1 DEF Speak
  <2>2. /\ files'[calls[c].line].began = calls[c].asked
        /\ files'[calls[c].line].finished = now
        /\ files'[calls[c].line].mtime = now
        /\ now <= calls[c].asked + MaxSpeech
    BY <1>0, <1>3, <2>0 DEF Speak, CallRow
  <2> QED
    BY <1>0, <2>0, <2>1, <2>2, <1>f DEF FileInv, Speech
<1>4. ASSUME NEW c \in Call, Chtimes(c)
      PROVE  FileInv'
  <2>0. /\ calls[c] \in CallRow /\ now' = now /\ "time" \in Cached
        /\ files["time"] # None
        /\ calls[c].asked <= files["time"].began + MaxSpeech
    BY <1>0, <1>4 DEF HandInv, Chtimes, At, settings, Cached
  <2>1. ASSUME NEW l \in Cached, l # "time"
        PROVE  files'[l] = files[l]
    BY <1>0, <1>4, <2>1 DEF Chtimes
  <2>2. /\ files'["time"].began = files["time"].began
        /\ files'["time"].finished = files["time"].finished
        /\ files'["time"].mtime = calls[c].asked
    BY <1>0, <1>4, <2>0, <1>f DEF Chtimes, Speech
  <2> QED
    BY <1>0, <2>0, <2>1, <2>2, <1>f DEF FileInv
<1>5. CASE UNCHANGED <<calls, files>>
  <2>1. now' = now \/ Tick
    BY Frames
  <2> QED
    BY <1>2, <1>5, <2>1
<1>6. CASE Crash
  BY <1>2, <1>6 DEF Crash
<1>7. ASSUME NEW c \in Call, Quiets(c)
      PROVE  FileInv'
  BY <1>2, <1>7 DEF Quiets
<1>8. ASSUME NEW c \in Call, Follows(c), ~Speak(c), ~Chtimes(c)
      PROVE  FileInv'
  <2>1. files' = files /\ now' = now
    BY <1>8 DEF Follows, Hangup, TimeAudio, OperatorAudio, Found, WeatherAudio,
                Heard, Play, WeatherLocationForDevice
  <2> QED
    BY <1>2, <2>1
<1> QED
  BY <1>3, <1>4, <1>5, <1>6, <1>7, <1>8, Moves

(* No step but a change of the settings brings new ones, and words are     *)
(* begun from the present ones.                                            *)
LEMMA SettingMoves ==
  ASSUME TypeOK, AnswerInv, Next, NEW l \in {"operator", "weather"}
  PROVE  /\ \A r \in Services :
              Setting(l, r)' => Setting(l, r) \/ (UpdatePartyServices /\ r = services')
         /\ \A v, b \in Nat :
              Source(l, v, b)' => \/ Source(l, v, b)
                                  \/ /\ v = services.version
                                     /\ services' = services
<1>0. /\ calls \in [Call -> CallRow] /\ now \in Nat /\ services \in Services
      /\ l \in Cached /\ l # "join" /\ l # "time"
  BY DEF TypeOK, Cached
(* What a row contributes.                                                 *)
<1> DEFINE Keeps(row, old) ==
             /\ row.line = l /\ row.stage \in GoesBy
                  => old.line = l /\ old.stage \in GoesBy /\ row.read = old.read
             /\ row.line = l /\ row.stage = "speaking"
                  => old.stage = "speaking" /\ row.asked = old.asked
<1>1. ASSUME UNCHANGED files \/ files'[l] = files[l],
             \A d \in Call : Keeps(calls'[d], calls[d])
      PROVE  /\ \A r \in Services :
                  Setting(l, r)' => Setting(l, r) \/ (UpdatePartyServices /\ r = services')
             /\ \A v, b \in Nat : Source(l, v, b)' => Source(l, v, b)
  <2>1. \A r \in Services :
          Setting(l, r)' => Setting(l, r) \/ (UpdatePartyServices /\ r = services')
    BY <1>1, Frames DEF Setting
  <2>2. \A v, b \in Nat : Source(l, v, b)' => Source(l, v, b)
    BY <1>1 DEF Source, GoesBy
  <2> QED
    BY <2>1, <2>2
<1>2. ASSUME NEW row \in CallRow, NEW old, Quiet(row) \/ row = old
      PROVE  Keeps(row, old)
  BY <1>0, <1>2 DEF Quiet, Live, GoesBy
<1>3. CASE UNCHANGED <<calls, files>>
  BY <1>0, <1>1, <1>2, <1>3
<1>4. CASE Crash
  <2>1. \A d \in Call : Keeps(calls'[d], calls[d])
    <3> TAKE d \in Call
    <3>1. calls'[d] \in CallRow /\ (Quiet(calls'[d]) \/ calls'[d] = calls[d])
      BY <1>4, CrashRows
    <3> QED
      BY <3>1, <1>2
  <2>2. UNCHANGED files
    BY <1>4 DEF Crash
  <2> HIDE DEF Keeps
  <2> QED
    BY <1>1, <2>1, <2>2
<1>5. ASSUME NEW c \in Call, Quiets(c)
      PROVE  \A d \in Call : Keeps(calls'[d], calls[d])
  BY <1>0, <1>2, <1>5 DEF Quiets, Becomes
<1>6. ASSUME NEW c \in Call, NEW row \in CallRow, Becomes(c, row), Keeps(row, calls[c])
      PROVE  \A d \in Call : Keeps(calls'[d], calls[d])
  BY <1>0, <1>2, <1>6 DEF Becomes
<1>7. ASSUME NEW c \in Call,
             Hangup(c) \/ TimeAudio(c) \/ Found(c) \/ Chtimes(c) \/ Heard(c)
      PROVE  /\ \A d \in Call : Keeps(calls'[d], calls[d])
             /\ UNCHANGED files \/ files'[l] = files[l]
  <2>0. calls[c] \in CallRow
    BY <1>0
  <2>1. CASE Hangup(c)
    <3> DEFINE row == [calls[c] EXCEPT !.hungup = TRUE]
    <3>1. row \in CallRow /\ Keeps(row, calls[c])
      BY <2>0 DEF CallRow
    <3> QED
      BY <2>1, <3>1, <1>6 DEF Hangup
  <2>2. CASE TimeAudio(c)
    <3> DEFINE row == [calls[c] EXCEPT !.asked = now,
                                       !.stage = Then(TimeFileServes)]
    <3>1. row \in CallRow /\ row.line # l
      BY <1>0, <2>0, <2>2 DEF CallRow, Stage, Then, TimeAudio, At
    <3> QED
      BY <2>2, <3>1, <1>6 DEF TimeAudio
  <2>3. CASE Found(c)
    <3> DEFINE row == [calls[c] EXCEPT !.place = place, !.asked = now,
                                       !.stage = "preparing"]
    <3>1. row \in CallRow /\ row.stage = "preparing"
      BY <1>0, <2>0 DEF CallRow, Stage, TypeOK
    <3>2. Keeps(row, calls[c])
      BY <3>1 DEF GoesBy
    <3> QED
      BY <2>3, <3>1, <3>2, <1>6 DEF Found, WeatherLocationForDevice
  <2>4. CASE Chtimes(c)
    <3> DEFINE row == [calls[c] EXCEPT !.stage = "ready"]
    <3>1. row \in CallRow /\ row.line # l
      BY <1>0, <2>0, <2>4 DEF CallRow, Stage, Chtimes, At
    <3>2. files'[l] = files[l]
      BY <1>0, <2>4 DEF Chtimes, TypeOK
    <3> QED
      BY <2>4, <3>1, <3>2, <1>6 DEF Chtimes, Goes
  <2>5. CASE Heard(c)
    <3> DEFINE row == [calls[c] EXCEPT !.words = files[calls[c].line],
                                       !.answered = TRUE, !.stage = "played"]
    <3>1. row \in CallRow /\ Keeps(row, calls[c])
      BY <2>0, <2>5 DEF CallRow, Stage, Heard, Play, GoesBy, TypeOK
    <3> QED
      BY <2>5, <3>1, <1>6 DEF Heard, Play
  <2> QED
    BY <1>7, <2>1, <2>2, <2>3, <2>4, <2>5
(* The two that read the settings.                                         *)
<1>8. ASSUME NEW c \in Call, NEW row \in CallRow, Becomes(c, row),
             row.read = services, UNCHANGED <<services, files>>
      PROVE  /\ \A r \in Services : Setting(l, r)' => Setting(l, r)
             /\ \A v, b \in Nat :
                  Source(l, v, b)' => Source(l, v, b) \/ v = services.version
  BY <1>0, <1>8 DEF Becomes, Setting, Source
<1>9. ASSUME NEW c \in Call, OperatorAudio(c) \/ WeatherAudio(c)
      PROVE  /\ UNCHANGED <<services, files>>
             /\ \E row \in CallRow : row.read = services /\ Becomes(c, row)
  <2>0. calls[c] \in CallRow
    BY <1>0
  <2>1. CASE OperatorAudio(c)
    <3> DEFINE row == [calls[c] EXCEPT !.read = services, !.asked = now,
                                       !.stage = Then(OperatorFileServes)]
    <3>1. row \in CallRow /\ row.read = services
      BY <1>0, <2>0 DEF CallRow, Stage, Then
    <3> QED
      BY <2>1, <3>1 DEF OperatorAudio, settings
  <2>2. CASE WeatherAudio(c)
    <3> DEFINE row == [calls[c] EXCEPT
                         !.read = services,
                         !.stage = Then(WeatherFileServes(calls[c].place))]
    <3>1. row \in CallRow /\ row.read = services
      BY <1>0, <2>0 DEF CallRow, Stage, Then
    <3> QED
      BY <2>2, <3>1 DEF WeatherAudio, settings
  <2> QED
    BY <1>9, <2>1, <2>2
(* Speech of a caller who is no longer waiting for it is in the file.      *)
<1>10. ASSUME NEW c \in Call, Speak(c)
       PROVE  /\ \A r \in Services : Setting(l, r)' => Setting(l, r)
              /\ \A v, b \in Nat : Source(l, v, b)' => Source(l, v, b)
  <2> DEFINE stage == IF calls[c].line = "time" THEN "stamping" ELSE "ready"
             row == [calls[c] EXCEPT !.stage = stage]
  <2>0. calls[c] \in CallRow /\ files \in [Cached -> Speech \cup {None}]
        /\ calls[c].stage = "speaking" /\ calls[c].line \in Cached
        /\ Becomes(c, row)
    BY <1>0, <1>10 DEF TypeOK, Speak, Goes
  <2>1. /\ row.line = calls[c].line /\ row.read = calls[c].read
        /\ row.stage \in {"stamping", "ready"}
    BY <2>0 DEF CallRow
  <2>2. Keeps(row, calls[c])
    BY <2>0, <2>1 DEF GoesBy
  <2>3. \A d \in Call : d # c => calls'[d] = calls[d]
    BY <1>0, <2>0 DEF Becomes
  <2>4. calls'[c] = row
    BY <1>0, <2>0 DEF Becomes
  <2> HIDE DEF row
  <2>5. \A r \in Services : Setting(l, r)' => Setting(l, r)
    <3>1. services' = services
      BY <1>10 DEF Speak, settings
    <3> QED
      BY <2>2, <2>3, <2>4, <3>1 DEF Setting
  <2>6. \A v, b \in Nat : Source(l, v, b)' => Source(l, v, b)
    <3>1. CASE l # calls[c].line
      <4>1. files'[l] = files[l]
        BY <1>0, <1>10, <2>0, <3>1 DEF Speak
      <4> QED
        BY <2>1, <2>3, <2>4, <4>1 DEF Source
    <3>2. CASE l = calls[c].line
      <4>1. /\ files'[l].version = calls[c].read.version
            /\ files'[l].began = calls[c].asked
        BY <1>0, <1>10, <2>0, <3>2 DEF Speak
      <4> QED
        BY <2>0, <2>1, <2>3, <2>4, <3>2, <4>1 DEF Source
    <3> QED
      BY <3>1, <3>2
  <2> QED
    BY <2>5, <2>6
<1> QED
  BY <1>1, <1>2, <1>3, <1>4, <1>5, <1>7, <1>8, <1>9, <1>10, Moves
     DEF Quiets, Follows

LEMMA SettingPreserved ==
  TypeOK /\ AnswerInv /\ FileInv /\ SettingInv /\ [Next]_vars => SettingInv'
<1>1. CASE UNCHANGED vars
  BY <1>1 DEF vars, SettingInv, Setting, Source
<1> SUFFICES ASSUME TypeOK, AnswerInv, FileInv, SettingInv, Next,
                    NEW l \in {"operator", "weather"}, NEW r \in Services,
                    Setting(l, r)'
             PROVE  /\ r.version <= services'.version /\ r.updated <= now'
                    /\ \A v, b \in Nat :
                         Source(l, v, b)' /\ v < r.version => b <= r.committed
  BY <1>1 DEF SettingInv
<1>0. /\ calls \in [Call -> CallRow] /\ now \in Nat /\ services \in Services
      /\ services.version \in Nat /\ r.version \in Nat /\ r.updated \in Nat
      /\ r.committed \in Nat /\ l \in Cached
  BY DEF TypeOK, Services, Cached
(* Words begun so far were begun by now.                                   *)
<1>2. ASSUME NEW v \in Nat, NEW b \in Nat, Source(l, v, b)
      PROVE  b <= now
  BY <1>0, <1>2 DEF Source, AnswerInv, FileInv
<1>3. now <= now' /\ now' \in Nat
  BY <1>0, Frames DEF Tick
<1>4. CASE Setting(l, r)
  <2>1. services.version <= services'.version /\ services'.version \in Nat
    BY <1>0, Frames DEF UpdatePartyServices
  <2>2. /\ r.version <= services.version /\ r.updated <= now
        /\ \A v, b \in Nat : Source(l, v, b) /\ v < r.version => b <= r.committed
    BY <1>4 DEF SettingInv
  <2>3. ASSUME NEW v \in Nat, NEW b \in Nat, Source(l, v, b)', v < r.version
        PROVE  b <= r.committed
    <3>1. Source(l, v, b) \/ v = services.version
      BY <2>3, SettingMoves
    <3> QED
      BY <1>0, <2>2, <2>3, <3>1
  <2> QED
    BY <1>0, <1>3, <2>1, <2>2, <2>3
<1>5. CASE UpdatePartyServices /\ r = services'
  <2>1. /\ services'.committed = now /\ services'.updated <= now
        /\ services' # services
    BY <1>0, <1>5 DEF UpdatePartyServices
  <2>2. ASSUME NEW v \in Nat, NEW b \in Nat, Source(l, v, b)'
        PROVE  b <= now
    BY <1>2, <2>1, <2>2, SettingMoves
  <2> QED
    BY <1>0, <1>3, <1>5, <2>1, <2>2
<1> QED
  BY <1>4, <1>5, SettingMoves

(* No step but a change of the place brings a new one, and forecasts are   *)
(* begun from the present one.                                             *)
LEMMA PlaceMoves ==
  ASSUME TypeOK, AnswerInv, Next
  PROVE  /\ \A p \in Place :
              Whereabouts(p)' => Whereabouts(p) \/ (SetPlace /\ p = place')
         /\ \A id, b \in Nat :
              PlaceSource(id, b)' => \/ PlaceSource(id, b)
                                     \/ id = place.id /\ place' = place
<1>0. /\ calls \in [Call -> CallRow] /\ now \in Nat /\ place \in Place
      /\ services \in Services
  BY DEF TypeOK
<1> DEFINE Keeps(row, old) ==
             /\ row.line = "weather" /\ row.stage \in {"preparing"} \cup GoesBy
                  => /\ old.line = "weather"
                     /\ old.stage \in {"preparing"} \cup GoesBy
                     /\ row.place = old.place
             /\ row.line = "weather" /\ row.stage \in {"preparing", "speaking"}
                  => /\ old.stage \in {"preparing", "speaking"}
                     /\ row.asked = old.asked
<1>1. ASSUME UNCHANGED files \/ files'["weather"] = files["weather"],
             \A d \in Call : Keeps(calls'[d], calls[d])
      PROVE  /\ \A p \in Place :
                  Whereabouts(p)' => Whereabouts(p) \/ (SetPlace /\ p = place')
             /\ \A id, b \in Nat : PlaceSource(id, b)' => PlaceSource(id, b)
  <2>1. \A p \in Place :
          Whereabouts(p)' => Whereabouts(p) \/ (SetPlace /\ p = place')
    <3>1. place' = [NoPlace EXCEPT !.id = place.id] => ~place'.known
      BY DEF NoPlace
    <3> QED
      BY <1>1, <3>1, Frames DEF Whereabouts
  <2>2. \A id, b \in Nat : PlaceSource(id, b)' => PlaceSource(id, b)
    BY <1>1 DEF PlaceSource, GoesBy
  <2> QED
    BY <2>1, <2>2
<1>2. ASSUME NEW row \in CallRow, NEW old, Quiet(row) \/ row = old
      PROVE  Keeps(row, old)
  BY <1>0, <1>2 DEF Quiet, Live, GoesBy
<1>3. CASE UNCHANGED <<calls, files>>
  BY <1>0, <1>1, <1>2, <1>3
<1>4. CASE Crash
  <2>1. \A d \in Call : Keeps(calls'[d], calls[d])
    <3> TAKE d \in Call
    <3>1. calls'[d] \in CallRow /\ (Quiet(calls'[d]) \/ calls'[d] = calls[d])
      BY <1>4, CrashRows
    <3> QED
      BY <3>1, <1>2
  <2>2. UNCHANGED files
    BY <1>4 DEF Crash
  <2> HIDE DEF Keeps
  <2> QED
    BY <1>1, <2>1, <2>2
<1>5. ASSUME NEW c \in Call, Quiets(c)
      PROVE  \A d \in Call : Keeps(calls'[d], calls[d])
  BY <1>0, <1>2, <1>5 DEF Quiets, Becomes
<1>6. ASSUME NEW c \in Call, NEW row \in CallRow, Becomes(c, row), Keeps(row, calls[c])
      PROVE  \A d \in Call : Keeps(calls'[d], calls[d])
  BY <1>0, <1>2, <1>6 DEF Becomes
<1>7. ASSUME NEW c \in Call,
             \/ Hangup(c) \/ TimeAudio(c) \/ OperatorAudio(c) \/ WeatherAudio(c)
             \/ Chtimes(c) \/ Heard(c)
      PROVE  /\ \A d \in Call : Keeps(calls'[d], calls[d])
             /\ UNCHANGED files \/ files'["weather"] = files["weather"]
  <2>0. calls[c] \in CallRow
    BY <1>0
  <2>1. CASE Hangup(c)
    <3> DEFINE row == [calls[c] EXCEPT !.hungup = TRUE]
    <3>1. row \in CallRow /\ Keeps(row, calls[c])
      BY <2>0 DEF CallRow
    <3> QED
      BY <2>1, <3>1, <1>6 DEF Hangup
  <2>2. CASE TimeAudio(c)
    <3> DEFINE row == [calls[c] EXCEPT !.asked = now,
                                       !.stage = Then(TimeFileServes)]
    <3>1. row \in CallRow /\ row.line = "time"
      BY <1>0, <2>0, <2>2 DEF CallRow, Stage, Then, TimeAudio, At
    <3> QED
      BY <2>2, <3>1, <1>6 DEF TimeAudio
  <2>3. CASE OperatorAudio(c)
    <3> DEFINE row == [calls[c] EXCEPT !.read = services, !.asked = now,
                                       !.stage = Then(OperatorFileServes)]
    <3>1. row \in CallRow /\ row.line = "operator"
      BY <1>0, <2>0, <2>3 DEF CallRow, Stage, Then, OperatorAudio, At
    <3> QED
      BY <2>3, <3>1, <1>6 DEF OperatorAudio
  <2>4. CASE WeatherAudio(c)
    <3> DEFINE row == [calls[c] EXCEPT
                         !.read = services,
                         !.stage = Then(WeatherFileServes(calls[c].place))]
    <3>1. row \in CallRow /\ row.place = calls[c].place /\ row.asked = calls[c].asked
      BY <1>0, <2>0 DEF CallRow, Stage, Then
    <3>2. calls[c].stage = "preparing" /\ calls[c].line = "weather"
      BY <2>4 DEF WeatherAudio, At
    <3> QED
      BY <2>4, <3>1, <3>2, <1>6 DEF WeatherAudio
  <2>5. CASE Chtimes(c)
    <3> DEFINE row == [calls[c] EXCEPT !.stage = "ready"]
    <3>1. row \in CallRow /\ row.line = "time"
      BY <1>0, <2>0, <2>5 DEF CallRow, Stage, Chtimes, At
    <3>2. files'["weather"] = files["weather"]
      BY <1>0, <2>5 DEF Chtimes, TypeOK, Cached
    <3> QED
      BY <2>5, <3>1, <3>2, <1>6 DEF Chtimes, Goes
  <2>6. CASE Heard(c)
    <3> DEFINE row == [calls[c] EXCEPT !.words = files[calls[c].line],
                                       !.answered = TRUE, !.stage = "played"]
    <3>1. row \in CallRow /\ Keeps(row, calls[c])
      BY <2>0, <2>6 DEF CallRow, Stage, Heard, Play, GoesBy, TypeOK
    <3> QED
      BY <2>6, <3>1, <1>6 DEF Heard, Play
  <2> QED
    BY <1>7, <2>1, <2>2, <2>3, <2>4, <2>5, <2>6
(* The one that reads the place.                                           *)
<1>8. ASSUME NEW c \in Call, Found(c)
      PROVE  /\ \A p \in Place : Whereabouts(p)' => Whereabouts(p)
             /\ \A id, b \in Nat :
                  PlaceSource(id, b)' => \/ PlaceSource(id, b)
                                         \/ id = place.id /\ place' = place
  <2> DEFINE row == [calls[c] EXCEPT !.place = place, !.asked = now,
                                     !.stage = "preparing"]
  <2>1. /\ Becomes(c, row) /\ place.known
        /\ UNCHANGED <<place, files>>
    BY <1>8 DEF Found, WeatherLocationForDevice, settings
  <2>2. row.place = place
    BY <1>0 DEF CallRow
  <2> HIDE DEF row
  <2> QED
    BY <1>0, <2>1, <2>2 DEF Becomes, Whereabouts, PlaceSource
<1>9. ASSUME NEW c \in Call, Speak(c)
      PROVE  /\ \A p \in Place : Whereabouts(p)' => Whereabouts(p)
             /\ \A id, b \in Nat : PlaceSource(id, b)' => PlaceSource(id, b)
  <2> DEFINE stage == IF calls[c].line = "time" THEN "stamping" ELSE "ready"
             row == [calls[c] EXCEPT !.stage = stage]
  <2>0. calls[c] \in CallRow /\ files \in [Cached -> Speech \cup {None}]
        /\ calls[c].stage = "speaking" /\ calls[c].line \in Cached
        /\ Becomes(c, row)
    BY <1>0, <1>9 DEF TypeOK, Speak, Goes
  <2>1. /\ row.line = calls[c].line /\ row.place = calls[c].place
        /\ row.stage \in {"stamping", "ready"}
    BY <2>0 DEF CallRow
  <2>2. Keeps(row, calls[c])
    BY <2>0, <2>1 DEF GoesBy
  <2>3. \A d \in Call : d # c => calls'[d] = calls[d]
    BY <1>0, <2>0 DEF Becomes
  <2>4. calls'[c] = row
    BY <1>0, <2>0 DEF Becomes
  <2> HIDE DEF row
  <2>5. \A p \in Place : Whereabouts(p)' => Whereabouts(p)
    <3>1. place' = place
      BY <1>9 DEF Speak, settings
    <3> QED
      BY <2>2, <2>3, <2>4, <3>1 DEF Whereabouts
  <2>6. \A id, b \in Nat : PlaceSource(id, b)' => PlaceSource(id, b)
    <3>1. CASE calls[c].line # "weather"
      <4>1. files'["weather"] = files["weather"]
        BY <1>0, <1>9, <2>0, <3>1 DEF Speak, Cached
      <4> QED
        BY <2>1, <2>3, <2>4, <3>1, <4>1 DEF PlaceSource
    <3>2. CASE calls[c].line = "weather"
      <4>1. /\ files'["weather"].place = calls[c].place.id
            /\ files'["weather"].began = calls[c].asked
        BY <1>0, <1>9, <2>0, <3>2 DEF Speak
      <4> QED
        BY <2>0, <2>1, <2>3, <2>4, <3>2, <4>1 DEF PlaceSource
    <3> QED
      BY <3>1, <3>2
  <2> QED
    BY <2>5, <2>6
<1> QED
  BY <1>1, <1>2, <1>3, <1>4, <1>5, <1>7, <1>8, <1>9, Moves DEF Quiets, Follows

LEMMA PlacePreserved ==
  TypeOK /\ AnswerInv /\ FileInv /\ PlaceInv /\ [Next]_vars => PlaceInv'
<1>1. CASE UNCHANGED vars
  BY <1>1 DEF vars, PlaceInv, Whereabouts, PlaceSource
<1> SUFFICES ASSUME TypeOK, AnswerInv, FileInv, PlaceInv, Next,
                    NEW p \in Place, Whereabouts(p)'
             PROVE  /\ p.id <= place'.id /\ p.updated <= now'
                    /\ \A id, b \in Nat :
                         PlaceSource(id, b)' /\ id < p.id => b <= p.committed
  BY <1>1 DEF PlaceInv
<1>0. /\ calls \in [Call -> CallRow] /\ now \in Nat /\ place \in Place
      /\ place.id \in Nat /\ p.id \in Nat /\ p.updated \in Nat
      /\ p.committed \in Nat
  BY DEF TypeOK, Place
<1>2. ASSUME NEW id \in Nat, NEW b \in Nat, PlaceSource(id, b)
      PROVE  b <= now
  BY <1>0, <1>2 DEF PlaceSource, AnswerInv, FileInv, Cached
<1>3. now <= now' /\ now' \in Nat
  BY <1>0, Frames DEF Tick
<1>4. CASE Whereabouts(p)
  <2>1. place.id <= place'.id /\ place'.id \in Nat
    BY <1>0, Frames DEF SetPlace, NoPlace
  <2>2. /\ p.id <= place.id /\ p.updated <= now
        /\ \A id, b \in Nat : PlaceSource(id, b) /\ id < p.id => b <= p.committed
    BY <1>4 DEF PlaceInv
  <2>3. ASSUME NEW id \in Nat, NEW b \in Nat, PlaceSource(id, b)', id < p.id
        PROVE  b <= p.committed
    <3>1. PlaceSource(id, b) \/ id = place.id
      BY <2>3, PlaceMoves
    <3> QED
      BY <1>0, <2>2, <2>3, <3>1
  <2> QED
    BY <1>0, <1>3, <2>1, <2>2, <2>3
<1>5. CASE SetPlace /\ p = place'
  <2>1. /\ place'.committed = now /\ place'.updated <= now
        /\ place' # place
    BY <1>0, <1>5 DEF SetPlace
  <2>2. ASSUME NEW id \in Nat, NEW b \in Nat, PlaceSource(id, b)'
        PROVE  b <= now
    BY <1>2, <2>1, <2>2, PlaceMoves
  <2> QED
    BY <1>0, <1>3, <1>5, <2>1, <2>2
<1> QED
  BY <1>4, <1>5, PlaceMoves

----------------------------------------------------------------------------
LEMMA Minutes ==
  ASSUME NEW t \in Nat
  PROVE  /\ StartOfMinute(t) \in Nat /\ StartOfMinute(t) <= t
         /\ \A m \in Nat : MinuteOf(m) = MinuteOf(t) => StartOfMinute(t) <= m
<1>1. ASSUME NEW m \in Nat
      PROVE  MinuteOf(m) \in Nat /\ Minute * MinuteOf(m) \in Nat
             /\ Minute * MinuteOf(m) <= m
  <2>1. Minute \in Nat \ {0}
    BY VoiceLinesAssumption
  <2>2. m \div Minute \in Nat
    BY <2>1
  <2>3. m = Minute * (m \div Minute) + (m % Minute) /\ (m % Minute) \in Nat
    BY <2>1
  <2> QED
    BY <2>1, <2>2, <2>3 DEF MinuteOf
<1> QED
  BY <1>1 DEF StartOfMinute

(* What a speech just put in place is like.                                *)
LEMMA Spoken ==
  ASSUME TypeOK, AnswerInv, NEW c \in Call, Speak(c)
  PROVE  LET l == calls[c].line
             file == files'[l]
         IN  /\ l \in Cached /\ \A k \in Cached : k # l => files'[k] = files[k]
             /\ file # None /\ file \in Speech
             /\ file.began = calls[c].asked /\ file.finished = now
             /\ now <= file.began + MaxSpeech
             /\ now' = now
<1> DEFINE l == calls[c].line
           file == [version |-> calls[c].read.version, place |-> calls[c].place.id,
                    began |-> calls[c].asked, finished |-> now, mtime |-> now]
<1>0. /\ calls[c] \in CallRow /\ now \in Nat /\ MaxSpeech \in Nat
      /\ files \in [Cached -> Speech \cup {None}] /\ calls[c].asked \in Nat
      /\ calls[c].read.version \in Nat /\ calls[c].place.id \in Nat
  BY VoiceLinesAssumption DEF TypeOK, CallRow, Services, Place
<1>1. l \in Cached /\ files' = [files EXCEPT ![l] = file] /\ now' = now
      /\ now - calls[c].asked <= MaxSpeech
  BY DEF Speak
<1>2. file \in Speech
  BY <1>0 DEF Speech
<1> QED
  BY <1>0, <1>1, <1>2, NoneAssumption

LEMMA Stamped ==
  ASSUME TypeOK, HandInv, NEW c \in Call, Chtimes(c)
  PROVE  /\ \A k \in Cached : k # "time" => files'[k] = files[k]
         /\ files["time"] # None /\ files'["time"] # None
         /\ files'["time"].began = files["time"].began
         /\ files'["time"].finished = files["time"].finished
         /\ now' = now
<1>0. /\ calls[c] \in CallRow /\ now \in Nat /\ calls[c].asked \in Nat
      /\ files \in [Cached -> Speech \cup {None}] /\ "time" \in Cached
  BY DEF TypeOK, CallRow, Cached
<1>1. files["time"] # None /\ files["time"] \in Speech
  BY <1>0 DEF HandInv, Chtimes, At
<1>2. /\ files' = [files EXCEPT !["time"] = [files["time"] EXCEPT !.mtime = calls[c].asked]]
      /\ now' = now
  BY <1>0 DEF Chtimes, settings
<1>3. [files["time"] EXCEPT !.mtime = calls[c].asked] \in Speech
  BY <1>0, <1>1 DEF Speech
<1> QED
  BY <1>0, <1>1, <1>2, <1>3, NoneAssumption DEF Speech

(* The file a row is about to play, or to stamp, will do.                  *)
InHand(row, at) ==
  /\ row.line = "time" /\ row.stage \in {"stamping", "ready"}
       => /\ at["time"] # None
          /\ StartOfMinute(row.asked) <= at["time"].began + MaxSpeech
          /\ row.stage = "stamping" => row.asked <= at["time"].began + MaxSpeech
  /\ row.line \in {"operator", "weather"} /\ row.stage = "ready"
       => /\ at[row.line] # None
          /\ row.read.updated <= at[row.line].finished
          /\ row.line = "weather" => row.place.updated <= at["weather"].finished

LEMMA HandPreserved ==
  TypeOK /\ AnswerInv /\ FileInv /\ SettingInv /\ PlaceInv /\ HandInv
    /\ [Next]_vars => HandInv'
<1>1. CASE UNCHANGED vars
  BY <1>1 DEF vars, HandInv
<1> SUFFICES ASSUME TypeOK, AnswerInv, FileInv, SettingInv, PlaceInv, HandInv,
                    Next, NEW d \in Call
             PROVE  InHand(calls'[d], files')
  BY <1>1 DEF HandInv, InHand
<1>0. /\ calls \in [Call -> CallRow] /\ calls[d] \in CallRow /\ now \in Nat
      /\ files \in [Cached -> Speech \cup {None}] /\ services \in Services
      /\ place \in Place /\ MaxSpeech \in Nat
      /\ calls[d].asked \in Nat /\ calls[d].asked <= now
  BY VoiceLinesAssumption DEF TypeOK, CallRow, AnswerInv
<1>h. InHand(calls[d], files)
  BY DEF HandInv, InHand
(* What is read by now was stamped by now.                                 *)
<1>u. /\ calls[d].line \in {"operator", "weather"} /\ calls[d].stage \in GoesBy
           => calls[d].read.updated <= now
      /\ calls[d].line = "weather" /\ calls[d].stage \in {"preparing"} \cup GoesBy
           => calls[d].place.updated <= now
  BY <1>0 DEF SettingInv, Setting, PlaceInv, Whereabouts, CallRow
<1>2. CASE Quiet(calls'[d])
  BY <1>2 DEF Quiet, Live, InHand
<1>3. CASE calls'[d] = calls[d] /\ files' = files
  BY <1>h, <1>3
<1>4. CASE UNCHANGED <<calls, files>>
  BY <1>3, <1>4
<1>5. CASE Crash
  BY <1>2, <1>3, <1>5, CrashRows DEF Crash
<1>6. ASSUME NEW c \in Call, Quiets(c)
      PROVE  InHand(calls'[d], files')
  BY <1>0, <1>2, <1>3, <1>6 DEF Quiets, Becomes
<1>7. ASSUME NEW c \in Call, Follows(c), c # d
      PROVE  InHand(calls'[d], files')
  <2>0. calls'[d] = calls[d]
    BY <1>0, <1>7 DEF Follows, Hangup, TimeAudio, OperatorAudio, Found, WeatherAudio,
     Speak, Chtimes, Heard, Play, WeatherLocationForDevice, Becomes, Goes
  <2>1. CASE Speak(c)
    <3>1. StartOfMinute(calls[d].asked) \in Nat
          /\ StartOfMinute(calls[d].asked) <= calls[d].asked
      BY <1>0, Minutes
    <3>2. CASE calls[d].line # calls[c].line
      BY <1>0, <1>h, <2>0, <2>1, <3>2, Spoken DEF InHand, Cached
    <3>3. CASE calls[d].line = calls[c].line
      <4> DEFINE file == files'[calls[c].line]
      <4>1. /\ file # None /\ file.began \in Nat /\ file.finished = now
            /\ now <= file.began + MaxSpeech
        BY <2>1, Spoken DEF Speech
      <4> HIDE DEF file
      <4>2. /\ calls[d].asked <= file.began + MaxSpeech
            /\ StartOfMinute(calls[d].asked) <= file.began + MaxSpeech
        BY <1>0, <3>1, <4>1
      <4> QED
        BY <1>0, <1>u, <2>0, <3>3, <4>1, <4>2 DEF InHand, GoesBy, file
    <3> QED
      BY <3>2, <3>3
  <2>2. CASE Chtimes(c)
    BY <1>0, <1>h, <2>0, <2>2, Stamped DEF InHand, Cached
  <2>3. CASE ~Speak(c) /\ ~Chtimes(c)
    <3>1. files' = files
      BY <1>7, <2>3 DEF Follows, Hangup, TimeAudio, OperatorAudio, Found,
                        WeatherAudio, Heard, Play, WeatherLocationForDevice
    <3> QED
      BY <1>3, <2>0, <3>1
  <2> QED
    BY <2>1, <2>2, <2>3
<1>8. ASSUME Follows(d)
      PROVE  InHand(calls'[d], files')
  <2>1. CASE Hangup(d)
    <3>1. calls'[d] = [calls[d] EXCEPT !.hungup = TRUE] /\ files' = files
      BY <1>0, <2>1 DEF Hangup, Becomes
    <3> QED
      BY <1>0, <1>h, <3>1 DEF InHand, CallRow
  <2>2. CASE TimeAudio(d)
    <3>1. /\ calls'[d] = [calls[d] EXCEPT !.asked = now, !.stage = Then(TimeFileServes)]
          /\ files' = files /\ calls[d].line = "time"
      BY <1>0, <2>2 DEF TimeAudio, Becomes, At
    <3>2. /\ calls'[d].asked = now /\ calls'[d].line = "time"
          /\ calls'[d].stage = Then(TimeFileServes)
      BY <1>0, <3>1 DEF CallRow
    <3>3. CASE TimeFileServes
      <4>1. /\ files["time"] # None /\ files["time"] \in Speech
            /\ MinuteOf(files["time"].mtime) = MinuteOf(now)
        BY <1>0, <3>3 DEF TimeFileServes, SameMinute, Cached
      <4>2. files["time"].mtime <= files["time"].began + MaxSpeech
        BY <4>1 DEF FileInv, Cached
      <4>3. /\ StartOfMinute(now) <= files["time"].mtime
            /\ StartOfMinute(now) \in Nat
        BY <1>0, <4>1, Minutes DEF Speech
      <4>4. StartOfMinute(now) <= files["time"].began + MaxSpeech
        BY <1>0, <4>1, <4>2, <4>3 DEF Speech
      <4> QED
        BY <3>1, <3>2, <3>3, <4>1, <4>4 DEF InHand, Then
    <3>4. CASE ~TimeFileServes
      BY <3>2, <3>4 DEF InHand, Then
    <3> QED
      BY <3>3, <3>4
  <2>3. CASE OperatorAudio(d)
    <3>1. /\ calls'[d] = [calls[d] EXCEPT !.read = services, !.asked = now,
                                          !.stage = Then(OperatorFileServes)]
          /\ files' = files /\ calls[d].line = "operator"
      BY <1>0, <2>3 DEF OperatorAudio, Becomes, At
    <3>2. /\ calls'[d].read = services /\ calls'[d].line = "operator"
          /\ calls'[d].stage = Then(OperatorFileServes)
      BY <1>0, <3>1 DEF CallRow
    <3>3. CASE OperatorFileServes
      <4>1. /\ files["operator"] # None /\ "operator" \in Cached
            /\ services.updated <= files["operator"].mtime
        BY <1>0, <3>3 DEF OperatorFileServes, NotBefore, Cached, Services, Speech
      <4> QED
        BY <3>1, <3>2, <4>1 DEF InHand, FileInv
    <3>4. CASE ~OperatorFileServes
      BY <3>2, <3>4 DEF InHand, Then
    <3> QED
      BY <3>3, <3>4
  <2>4. CASE Found(d)
    <3>1. calls'[d] = [calls[d] EXCEPT !.place = place, !.asked = now,
                                       !.stage = "preparing"]
      BY <1>0, <2>4 DEF Found, WeatherLocationForDevice, Becomes
    <3>2. calls'[d].stage = "preparing"
      BY <1>0, <3>1 DEF CallRow
    <3> QED
      BY <3>2 DEF InHand
  <2>5. CASE WeatherAudio(d)
    <3> DEFINE serves == WeatherFileServes(calls[d].place)
    <3>1. /\ calls'[d] = [calls[d] EXCEPT !.read = services, !.stage = Then(serves)]
          /\ files' = files /\ calls[d].line = "weather"
      BY <1>0, <2>5 DEF WeatherAudio, Becomes, At
    <3>2. /\ calls'[d].read = services /\ calls'[d].line = "weather"
          /\ calls'[d].stage = Then(serves) /\ calls'[d].place = calls[d].place
      BY <1>0, <3>1 DEF CallRow
    <3>3. CASE serves
      <4>1. /\ files["weather"] # None /\ "weather" \in Cached
            /\ services.updated <= files["weather"].mtime
            /\ calls[d].place.updated <= files["weather"].mtime
        BY <1>0, <3>3 DEF WeatherFileServes, NotBefore, Cached, Services, Speech,
                          CallRow, Place
      <4> QED
        BY <3>1, <3>2, <4>1 DEF InHand, FileInv
    <3>4. CASE ~serves
      BY <3>2, <3>4 DEF InHand, Then
    <3> QED
      BY <3>3, <3>4
  <2>6. CASE Speak(d)
    <3> DEFINE stage == IF calls[d].line = "time" THEN "stamping" ELSE "ready"
               file == files'[calls[d].line]
    <3>1. /\ calls'[d] = [calls[d] EXCEPT !.stage = stage]
          /\ calls[d].stage = "speaking"
      BY <1>0, <2>6 DEF Speak, Goes, Becomes
    <3>2. /\ file # None /\ file.began = calls[d].asked /\ file.finished = now
          /\ now <= file.began + MaxSpeech
      BY <2>6, Spoken
    <3>3. /\ StartOfMinute(calls[d].asked) \in Nat
          /\ StartOfMinute(calls[d].asked) <= calls[d].asked
      BY <1>0, Minutes
    <3>4. /\ calls'[d].line = calls[d].line /\ calls'[d].asked = calls[d].asked
          /\ calls'[d].read = calls[d].read /\ calls'[d].place = calls[d].place
          /\ calls'[d].stage = stage
      BY <1>0, <3>1 DEF CallRow
    <3> HIDE DEF file
    <3>5. /\ calls[d].asked <= file.began + MaxSpeech
          /\ StartOfMinute(calls[d].asked) <= file.began + MaxSpeech
      BY <1>0, <3>2, <3>3
    <3> QED
      BY <1>0, <1>u, <3>1, <3>2, <3>4, <3>5 DEF InHand, GoesBy, file
  <2>7. CASE Chtimes(d)
    <3>1. calls'[d] = [calls[d] EXCEPT !.stage = "ready"]
          /\ calls[d].line = "time" /\ calls[d].stage = "stamping"
      BY <1>0, <2>7 DEF Chtimes, Goes, Becomes, At
    <3>2. /\ calls'[d].line = "time" /\ calls'[d].asked = calls[d].asked
          /\ calls'[d].stage = "ready"
      BY <1>0, <3>1 DEF CallRow
    <3> QED
      BY <1>h, <2>7, <3>1, <3>2, Stamped DEF InHand
  <2>8. CASE Heard(d)
    <3>1. calls'[d] = [calls[d] EXCEPT !.words = files[calls[d].line],
                                       !.answered = TRUE, !.stage = "played"]
      BY <1>0, <2>8 DEF Heard, Play, Becomes
    <3>2. calls'[d].stage = "played"
      BY <1>0, <3>1 DEF CallRow
    <3> QED
      BY <3>2 DEF InHand
  <2> QED
    BY <1>8, <2>1, <2>2, <2>3, <2>4, <2>5, <2>6, <2>7, <2>8 DEF Follows
<1> QED
  BY <1>4, <1>5, <1>6, <1>7, <1>8, Moves

(* What is heard, of one row.                                              *)
Said(row) ==
  row.words # None =>
    /\ row.line \in {"operator", "weather"} /\ row.words.version < row.read.version
         => Overlaps(row.words, row.read)
    /\ row.line = "weather" /\ row.words.place < row.place.id
         => Overlaps(row.words, row.place)
    /\ row.line = "time"
         => StartOfMinute(row.asked) <= row.words.began + MaxSpeech

SaidInv == \A c \in Call : Said(calls[c])

LEMMA SaidPreserved ==
  TypeOK /\ AnswerInv /\ FileInv /\ SettingInv /\ PlaceInv /\ HandInv /\ SaidInv
    /\ [Next]_vars => SaidInv'
<1>1. CASE UNCHANGED vars
  BY <1>1 DEF vars, SaidInv
<1> SUFFICES ASSUME TypeOK, AnswerInv, FileInv, SettingInv, PlaceInv, HandInv,
                    SaidInv, Next, NEW d \in Call
             PROVE  Said(calls'[d])
  BY <1>1 DEF SaidInv
<1>0. /\ calls \in [Call -> CallRow] /\ calls[d] \in CallRow /\ now \in Nat
      /\ files \in [Cached -> Speech \cup {None}] /\ services \in Services
      /\ place \in Place /\ MaxSpeech \in Nat
  BY VoiceLinesAssumption DEF TypeOK
<1>2. CASE Quiet(calls'[d])
  BY <1>2 DEF Quiet, Said
<1>3. CASE calls'[d] = calls[d]
  BY <1>3 DEF SaidInv
<1>4. CASE UNCHANGED <<calls, files>>
  BY <1>3, <1>4
<1>5. CASE Crash
  BY <1>2, <1>3, <1>5, CrashRows
<1>6. ASSUME NEW c \in Call, Quiets(c)
      PROVE  Said(calls'[d])
  BY <1>0, <1>2, <1>3, <1>6 DEF Quiets, Becomes
<1>7. ASSUME NEW c \in Call, Follows(c), c # d
      PROVE  Said(calls'[d])
  <2>0. calls'[d] = calls[d]
    BY <1>0, <1>7 DEF Follows, Hangup, TimeAudio, OperatorAudio, Found, WeatherAudio,
     Speak, Chtimes, Heard, Play, WeatherLocationForDevice, Becomes, Goes
  <2> QED
    BY <1>3, <2>0
<1>8. ASSUME Follows(d)
      PROVE  Said(calls'[d])
  <2>1. CASE Hangup(d)
    <3>1. calls'[d] = [calls[d] EXCEPT !.hungup = TRUE]
      BY <1>0, <2>1 DEF Hangup, Becomes
    <3>2. /\ calls'[d].words = calls[d].words /\ calls'[d].line = calls[d].line
          /\ calls'[d].read = calls[d].read /\ calls'[d].place = calls[d].place
          /\ calls'[d].asked = calls[d].asked
      BY <1>0, <3>1 DEF CallRow
    <3> QED
      BY <3>2 DEF SaidInv, Said
  <2>2. CASE \/ TimeAudio(d) \/ OperatorAudio(d) \/ Found(d) \/ WeatherAudio(d)
             \/ Speak(d) \/ Chtimes(d)
    <3>1. calls'[d].stage # "played"
      <4>1. CASE TimeAudio(d)
        BY <1>0, <4>1 DEF TimeAudio, Becomes, Then, CallRow
      <4>5. CASE OperatorAudio(d)
        BY <1>0, <4>5 DEF OperatorAudio, Becomes, Then, CallRow
      <4>6. CASE WeatherAudio(d)
        BY <1>0, <4>6 DEF WeatherAudio, Becomes, Then, CallRow
      <4>2. CASE Found(d)
        <5>1. calls'[d] = [calls[d] EXCEPT !.place = place, !.asked = now,
                                           !.stage = "preparing"]
          BY <1>0, <4>2 DEF Found, WeatherLocationForDevice, Becomes
        <5> QED
          BY <1>0, <5>1 DEF CallRow
      <4>3. CASE Speak(d) \/ Chtimes(d)
        BY <1>0, <4>3 DEF Speak, Chtimes, Goes, Becomes, CallRow
      <4> QED
        BY <2>2, <4>1, <4>5, <4>6, <4>2, <4>3
    <3>2. calls'[d].words = None
      BY <3>1, AnswerPreserved DEF AnswerInv
    <3> QED
      BY <3>2 DEF Said
  <2>3. CASE Heard(d)
    <3> DEFINE l == calls[d].line
               file == files[calls[d].line]
    <3>1. /\ calls'[d] = [calls[d] EXCEPT !.words = file, !.answered = TRUE,
                                          !.stage = "played"]
          /\ l \in Cached /\ calls[d].stage = "ready"
      BY <1>0, <2>3 DEF Heard, Play, Becomes
    <3>2. /\ calls'[d].words = file /\ calls'[d].line = l
          /\ calls'[d].read = calls[d].read /\ calls'[d].place = calls[d].place
          /\ calls'[d].asked = calls[d].asked
      BY <1>0, <3>1 DEF CallRow
    <3>3. /\ file # None /\ file \in Speech /\ file.began \in Nat
          /\ file.finished \in Nat /\ file.version \in Nat /\ file.place \in Nat
          /\ file.finished <= file.began + MaxSpeech
      BY <1>0, <3>1 DEF HandInv, FileInv, Speech, Cached
    <3>4. ASSUME l \in {"operator", "weather"}, file.version < calls[d].read.version
          PROVE  Overlaps(file, calls[d].read)
      <4>1. /\ calls[d].read \in Services /\ calls[d].read.committed \in Nat
            /\ calls[d].read.updated <= file.finished
        BY <1>0, <3>1, <3>4 DEF CallRow, Services, HandInv
      <4>2. Setting(l, calls[d].read) /\ Source(l, file.version, file.began)
        BY <3>1, <3>3 DEF Setting, Source, GoesBy
      <4>3. file.began <= calls[d].read.committed
        BY <3>3, <3>4, <4>1, <4>2 DEF SettingInv
      <4> HIDE DEF file
      <4> QED
        BY <1>0, <3>3, <4>1, <4>3 DEF Overlaps
    <3>5. ASSUME l = "weather", file.place < calls[d].place.id
          PROVE  Overlaps(file, calls[d].place)
      <4>1. /\ calls[d].place \in Place /\ calls[d].place.committed \in Nat
            /\ calls[d].place.updated <= file.finished
        BY <1>0, <3>1, <3>5 DEF CallRow, Place, HandInv
      <4>2. Whereabouts(calls[d].place) /\ PlaceSource(file.place, file.began)
        BY <3>1, <3>3, <3>5 DEF Whereabouts, PlaceSource, GoesBy
      <4>3. file.began <= calls[d].place.committed
        BY <3>3, <3>5, <4>1, <4>2 DEF PlaceInv
      <4> HIDE DEF file
      <4> QED
        BY <1>0, <3>3, <4>1, <4>3 DEF Overlaps
    <3>6. l = "time" => StartOfMinute(calls[d].asked) <= file.began + MaxSpeech
      BY <3>1 DEF HandInv
    <3> HIDE DEF file, l
    <3> QED
      BY <3>2, <3>4, <3>5, <3>6 DEF Said
  <2> QED
    BY <1>8, <2>1, <2>2, <2>3 DEF Follows
<1> QED
  BY <1>4, <1>5, <1>6, <1>7, <1>8, Moves

----------------------------------------------------------------------------
(* Announcements: a file is there while it may be played, and a timer is   *)
(* there while the file is, which is not the case of a call that is still  *)
(* to have one.                                                            *)
Early == Stage \ {"announcing", "played", "cut", "over"}

Kept(row, file, timer) ==
  /\ row.stage \in Early => timer = None
  /\ row.stage = "timing" => file = "written"
  /\ row.stage \notin {"announcing", "played"} => ~row.voice
  /\ row.stage = "announcing" /\ row.voice
       => \/ row.asked + JoinAudioTTL <= now
          \/ file = "written" /\ timer # None /\ row.asked + JoinAudioTTL <= timer
  /\ file = "written" => row.stage = "timing" \/ timer # None \/ ~up
  /\ ~up => row.stage \in Outside

JoinInv == \A c \in Call : Kept(calls[c], joinFiles[c], timers[c])

(* A step of a call that has nothing to do with its announcement.          *)
Aside(row, old) ==
  /\ row.stage # "timing" /\ old.stage # "timing"
  /\ row.stage \in Early => old.stage \in Early
  /\ row.stage # "announcing"
  /\ row.stage # "played" => ~row.voice
  /\ up \/ row.stage \in Outside

LEMMA AsideRows ==
  ASSUME TypeOK, JoinInv, Next, NEW c \in Call,
         \/ \E line \in Line : Dial(c, line)
         \/ TimeAudio(c) \/ OperatorAudio(c) \/ HandleWeather(c)
         \/ WeatherLocationForDevice(c) \/ AskAgain(c)
         \/ SetWeatherLocationByDevice(c) \/ WeatherAudio(c) \/ Speak(c)
         \/ Chtimes(c) \/ Play(c) \/ Finish(c) \/ Sorry(c) \/ CommandFails(c)
         \/ HandleJoinParty(c) \/ AnnounceJoin(c) \/ Fallback(c)
  PROVE  /\ \E row : Becomes(c, row) /\ Aside(row, calls[c])
         /\ UNCHANGED <<now, up, announcements>>
<1>0. /\ calls[c] \in CallRow /\ Kept(calls[c], joinFiles[c], timers[c])
      /\ up \in BOOLEAN
  BY DEF TypeOK, JoinInv
<1>e. \A stage \in {"reading", "placing", "again", "asking", "preparing",
                    "speaking", "stamping", "ready", "sorry", "idle"} :
        stage \in Early /\ stage # "timing" /\ stage # "announcing"
  BY DEF Early, Stage
<1>f. \A stage \in {"cut", "over", "played"} :
        stage \notin Early /\ stage # "timing" /\ stage # "announcing"
  BY DEF Early, Stage
<1>o. \A answered : /\ Over(calls[c], answered).stage = "over"
                    /\ ~Over(calls[c], answered).voice
  BY DEF Over, NewCall
<1>1. ASSUME NEW line \in Line, Dial(c, line)
      PROVE  \E row : Becomes(c, row) /\ Aside(row, calls[c])
  <2> DEFINE stage == IF up THEN "reading" ELSE "cut"
             row == [calls[c] EXCEPT !.line = line, !.stage = stage]
  <2>1. Becomes(c, row) /\ calls[c].stage = "idle"
    BY <1>1 DEF Dial
  <2>2. ~calls[c].voice
    BY <1>0, <2>1 DEF Kept
  <2>3. row.stage = stage /\ row.voice = calls[c].voice
    BY <1>0 DEF CallRow
  <2>4. "idle" \in Early /\ stage \in {"reading", "cut"} /\ (up \/ stage = "cut")
    BY <1>e
  <2> HIDE DEF row
  <2>5. Aside(row, calls[c])
    BY <2>1, <2>2, <2>3, <2>4 DEF Aside, Outside
  <2> QED
    BY <2>1, <2>5
<1>2. ASSUME \/ TimeAudio(c) \/ OperatorAudio(c) \/ HandleWeather(c)
             \/ WeatherAudio(c) \/ Speak(c) \/ Chtimes(c) \/ HandleJoinParty(c)
      PROVE  \E row : Becomes(c, row) /\ Aside(row, calls[c])
  BY <1>0, <1>2, <1>e DEF TimeAudio, OperatorAudio, HandleWeather, WeatherAudio,
     Speak, Chtimes, HandleJoinParty, At, Goes, Then, Aside, Kept, CallRow
<1>3. CASE WeatherLocationForDevice(c) \/ SetWeatherLocationByDevice(c)
  BY <1>0, <1>3, <1>e DEF WeatherLocationForDevice, SetWeatherLocationByDevice,
     At, Goes, Aside, Kept, CallRow
<1>4. CASE AskAgain(c)
  BY <1>0, <1>4, <1>e, <1>f, <1>o DEF AskAgain, At, Ends, Aside, Kept, CallRow
<1>5. CASE Play(c)
  BY <1>0, <1>5, <1>e, <1>f, <1>o DEF Play, Ends, Aside, Kept, CallRow
<1>6. CASE Finish(c) \/ Sorry(c) \/ Fallback(c)
  BY <1>0, <1>6, <1>e, <1>f, <1>o DEF Finish, Sorry, Fallback, Ends, Aside, Outside
<1>7. CASE AnnounceJoin(c)
  BY <1>0, <1>7, <1>e, <1>f DEF AnnounceJoin, At, Goes, Aside, CallRow
<1>9. CASE CommandFails(c)
  <2>1. up /\ calls[c].stage # "timing"
    BY <1>9 DEF CommandFails, Commanding
  <2>2. /\ Abandoned(calls[c]).stage \in {"cut", "over"}
        /\ ~Abandoned(calls[c]).voice
    BY AbandonedRows
  <2>3. Becomes(c, Abandoned(calls[c])) => Aside(Abandoned(calls[c]), calls[c])
    BY <2>1, <2>2, <1>f DEF Aside
  <2>4. calls[c].stage = "asking"
          => Aside(Returned(CutOff(calls[c]), "sorry"), calls[c])
    BY <1>e, <2>1 DEF Aside, Returned, NewCall
  <2> QED
    BY <1>9, <2>3, <2>4 DEF CommandFails
<1>8. UNCHANGED <<now, up, announcements>>
  BY DEF Dial, TimeAudio, OperatorAudio, HandleWeather, WeatherLocationForDevice,
     AskAgain, SetWeatherLocationByDevice, WeatherAudio, Speak, Chtimes, Play,
     Finish, Sorry, CommandFails, HandleJoinParty, AnnounceJoin, Fallback,
     announcements
<1> QED
  BY <1>1, <1>2, <1>3, <1>4, <1>5, <1>6, <1>7, <1>8, <1>9

LEMMA JoinPreserved ==
  TypeOK /\ AnswerInv /\ JoinInv /\ [Next]_vars => JoinInv'
<1>1. CASE UNCHANGED vars
  BY <1>1 DEF vars, JoinInv, Kept
<1> SUFFICES ASSUME TypeOK, AnswerInv, JoinInv, Next, NEW d \in Call
             PROVE  Kept(calls[d], joinFiles[d], timers[d])'
  BY <1>1 DEF JoinInv
<1>0. /\ calls \in [Call -> CallRow] /\ calls[d] \in CallRow /\ now \in Nat
      /\ joinFiles \in [Call -> {"none", "temporary", "written"}]
      /\ timers \in [Call -> Nat \cup {None}] /\ up \in BOOLEAN
      /\ Kept(calls[d], joinFiles[d], timers[d])
      /\ calls[d].asked \in Nat /\ calls[d].asked <= now /\ JoinAudioTTL \in Nat
      /\ None \notin Nat
  BY VoiceLinesAssumption, NoneAssumption DEF TypeOK, JoinInv, CallRow, AnswerInv
<1>2. CASE UNCHANGED <<now, up, announcements>> /\ calls'[d] = calls[d]
  BY <1>0, <1>2 DEF Kept, announcements
<1>3. CASE UNCHANGED <<now, up, calls>> /\ joinFiles'[d] = joinFiles[d]
           /\ timers'[d] = timers[d]
  BY <1>0, <1>3 DEF Kept
<1>4. CASE UNCHANGED <<now, up, announcements>>
           /\ \E row : calls'[d] = row /\ Aside(row, calls[d])
  BY <1>0, <1>4 DEF Kept, Aside, announcements, Early
<1>5. CASE Tick
  BY <1>0, <1>5 DEF Tick, Kept, announcements
<1>6. CASE Crash
  <2>1. /\ calls'[d].stage \in Outside /\ calls'[d].stage # "timing"
        /\ calls'[d].stage \notin {"announcing", "played"} /\ ~calls'[d].voice
    <3>1. CASE calls[d].stage \in Outside
      BY <1>0, <1>6, <3>1 DEF Crash, LeftAlone, Outside, Kept
    <3>2. CASE calls[d].stage \notin Outside
      BY <1>0, <1>6, <3>2, AbandonedRows DEF Crash, LeftAlone, Outside
    <3> QED
      BY <3>1, <3>2
  <2> QED
    BY <1>0, <1>6, <2>1 DEF Crash, Kept
<1>7. CASE Serve
  <2>1. /\ calls'[d] = calls[d] /\ timers'[d] = timers[d] /\ up' /\ ~up
        /\ joinFiles'[d] = Swept(joinFiles[d]) /\ calls[d].stage \in Outside
    BY <1>0, <1>7 DEF Serve, Kept
  <2>2. joinFiles'[d] # "written" /\ calls[d].stage \notin {"timing", "announcing"}
    BY <1>0, <2>1 DEF Swept, Outside
  <2> QED
    BY <1>0, <2>1, <2>2 DEF Kept
<1>8. CASE UpdatePartyServices \/ UpdateMemberWeatherLocationForHost
  BY <1>2, <1>8 DEF UpdatePartyServices, UpdateMemberWeatherLocationForHost
<1>9. ASSUME NEW c \in Call,
             \/ (\E line \in Line : Dial(c, line)) \/ Hangup(c) \/ Proceed(c)
             \/ RemoveAnnouncement(c)
      PROVE  Kept(calls[d], joinFiles[d], timers[d])'
  <2>1. CASE \/ (\E line \in Line : Dial(c, line))
             \/ TimeAudio(c) \/ OperatorAudio(c) \/ HandleWeather(c)
             \/ WeatherLocationForDevice(c) \/ AskAgain(c)
             \/ SetWeatherLocationByDevice(c) \/ WeatherAudio(c) \/ Speak(c)
             \/ Chtimes(c) \/ Play(c) \/ Finish(c) \/ Sorry(c) \/ CommandFails(c)
             \/ HandleJoinParty(c) \/ AnnounceJoin(c) \/ Fallback(c)
    <3>1. /\ \E row : Becomes(c, row) /\ Aside(row, calls[c])
          /\ UNCHANGED <<now, up, announcements>>
      BY <2>1, AsideRows
    <3>2. CASE c = d
      BY <1>0, <1>4, <3>1, <3>2 DEF Becomes
    <3>3. CASE c # d
      BY <1>0, <1>2, <3>1, <3>3 DEF Becomes
    <3> QED
      BY <3>2, <3>3
  <2>2. CASE Hangup(c)
    <3>1. UNCHANGED <<now, up, announcements>>
          /\ calls'[c] = [calls[c] EXCEPT !.hungup = TRUE]
          /\ (c # d => calls'[d] = calls[d])
      BY <1>0, <2>2 DEF Hangup, Becomes
    <3>2. /\ calls'[d].stage = calls[d].stage /\ calls'[d].voice = calls[d].voice
          /\ calls'[d].asked = calls[d].asked
      BY <1>0, <3>1 DEF CallRow
    <3> QED
      BY <1>0, <3>1, <3>2 DEF Kept, announcements
  <2>3. CASE Fail(c)
    <3>1. UNCHANGED <<now, up>> /\ up
      BY <2>3 DEF Fail
    <3>2. CASE c # d
      BY <1>0, <1>2, <1>3, <2>3, <3>1, <3>2
         DEF Fail, Returns, Goes, Becomes, announcements, Kept
    <3>3. CASE c = d /\ calls[c].stage \in {"speaking", "renaming"}
               /\ calls[c].line = "join"
      <4>1. /\ calls'[d] = [calls[d] EXCEPT !.stage = "announcing"]
            /\ joinFiles'[d] = "none" /\ timers'[d] = timers[d]
        BY <1>0, <2>3, <3>3 DEF Fail, Goes, Becomes, Cached
      <4>2. calls'[d].stage = "announcing" /\ calls'[d].voice = calls[d].voice
        BY <1>0, <4>1 DEF CallRow
      <4>3. ~calls'[d].voice
        BY <1>0, <3>3, <4>2 DEF Kept
      <4> QED
        BY <1>0, <3>1, <4>1, <4>2, <4>3 DEF Kept, Early
    <3>4. CASE c = d /\ ~(calls[c].stage \in {"speaking", "renaming"}
                          /\ calls[c].line = "join")
      <4>1. \E stage \in {"sorry", "cut"} :
              /\ calls'[d] = Returned(calls[d], stage)
              /\ stage = "sorry" => calls[d].stage \in Early
        BY <1>0, <2>3, <3>4 DEF Fail, Returns, Becomes, Early, Stage, Cached
      <4>2. UNCHANGED announcements /\ calls[d].stage # "timing"
        BY <1>0, <2>3, <3>4 DEF Fail, Cached
      <4>3. PICK stage \in {"sorry", "cut"} :
              /\ calls'[d] = Returned(calls[d], stage)
              /\ stage = "sorry" => calls[d].stage \in Early
        BY <4>1
      <4>4. calls'[d].stage = stage /\ ~calls'[d].voice
        BY <4>3 DEF Returned, NewCall
      <4>5. "cut" \notin Early
        BY DEF Early
      <4> QED
        BY <1>0, <3>1, <4>2, <4>3, <4>4, <4>5 DEF Kept, announcements
    <3> QED
      BY <3>2, <3>3, <3>4
  <2>4. CASE WriteTemporary(c) \/ Rename(c)
    <3>1. CASE c # d
      BY <1>0, <2>4, <3>1 DEF WriteTemporary, Rename, Goes, Becomes, Kept
    <3>2. CASE c = d /\ WriteTemporary(c)
      <4>1. /\ calls'[d] = [calls[d] EXCEPT !.stage = "renaming"] /\ up /\ up'
            /\ joinFiles'[d] = "temporary" /\ timers'[d] = timers[d]
            /\ calls[d].stage = "speaking"
        BY <1>0, <3>2 DEF WriteTemporary, At, Goes, Becomes
      <4>2. calls'[d].stage = "renaming" /\ calls'[d].voice = calls[d].voice
        BY <1>0, <4>1 DEF CallRow
      <4> QED
        BY <1>0, <4>1, <4>2 DEF Kept, Early, Stage
    <3>3. CASE c = d /\ Rename(c)
      <4>1. /\ calls'[d] = [calls[d] EXCEPT !.stage = "timing"] /\ up /\ up'
            /\ joinFiles'[d] = "written" /\ timers'[d] = timers[d]
            /\ calls[d].stage = "renaming"
        BY <1>0, <3>3 DEF Rename, At, Goes, Becomes
      <4>2. calls'[d].stage = "timing" /\ calls'[d].voice = calls[d].voice
        BY <1>0, <4>1 DEF CallRow
      <4> QED
        BY <1>0, <4>1, <4>2 DEF Kept, Early, Stage
    <3> QED
      BY <2>4, <3>1, <3>2, <3>3
  <2>5. CASE AfterFunc(c)
    <3>1. CASE c # d
      BY <1>0, <2>5, <3>1 DEF AfterFunc, Becomes, Kept
    <3>2. CASE c = d
      <4>1. /\ calls'[d] = [calls[d] EXCEPT !.voice = TRUE, !.stage = "announcing"]
            /\ timers'[d] = now + JoinAudioTTL /\ calls[d].stage = "timing"
            /\ UNCHANGED <<now, up, joinFiles>> /\ up
        BY <1>0, <2>5, <3>2 DEF AfterFunc, At, Becomes
      <4>2. calls'[d].stage = "announcing" /\ calls'[d].asked = calls[d].asked
        BY <1>0, <4>1 DEF CallRow
      <4>3. joinFiles'[d] = "written"
        BY <1>0, <4>1 DEF Kept
      <4>4. calls[d].asked + JoinAudioTTL <= now + JoinAudioTTL
            /\ now + JoinAudioTTL \in Nat
        BY <1>0
      <4>5. timers'[d] # None
        BY <1>0, <4>1, <4>4
      <4> QED
        BY <1>0, <4>1, <4>2, <4>3, <4>4, <4>5 DEF Kept, Early
    <3> QED
      BY <3>1, <3>2
  <2>6. CASE RemoveAnnouncement(c)
    <3>1. UNCHANGED <<now, up, calls>>
      BY <2>6 DEF RemoveAnnouncement
    <3>2. CASE c # d
      BY <1>0, <1>3, <2>6, <3>1, <3>2 DEF RemoveAnnouncement
    <3>3. CASE c = d
      <4>1. /\ joinFiles'[d] = "none" /\ timers'[d] = None /\ timers[d] # None
            /\ timers[d] <= now /\ timers[d] \in Nat
        BY <1>0, <2>6, <3>3 DEF RemoveAnnouncement
      <4>2. calls[d].stage # "timing"
        BY <1>0, <4>1 DEF Kept, Early, Stage
      <4> QED
        BY <1>0, <3>1, <4>1, <4>2 DEF Kept
    <3> QED
      BY <3>2, <3>3
  <2> QED
    BY <1>9, <2>1, <2>2, <2>3, <2>4, <2>5, <2>6 DEF Proceed
<1> QED
  BY <1>5, <1>6, <1>7, <1>8, <1>9 DEF Next

----------------------------------------------------------------------------
IInv == /\ TypeOK /\ AnswerInv /\ FileInv /\ SettingInv /\ PlaceInv
        /\ HandInv /\ SaidInv /\ JoinInv

LEMMA InitIInv == Init => IInv
<1> SUFFICES ASSUME Init PROVE IInv
  OBVIOUS
<1>1. /\ now = 0 /\ up = TRUE /\ services = FirstServices
      /\ \A c \in Call : /\ calls[c] = NewCall /\ joinFiles[c] = "none"
                         /\ timers[c] = None
      /\ \A l \in Cached : files[l] = None
  BY DEF Init
<1>2. PICK known \in BOOLEAN : place = [NoPlace EXCEPT !.known = known]
  BY DEF Init
<1>3. /\ place = [id |-> 0, known |-> known, updated |-> 0, committed |-> 0]
      /\ place \in Place
  BY <1>2 DEF NoPlace, Place
<1>4. /\ NewCall.stage = "idle" /\ NewCall.line = "time" /\ NewCall.asked = 0
      /\ NewCall.words = None /\ ~NewCall.voice
  BY DEF NewCall
<1>5. services \in Services /\ services.updated = 0
  BY <1>1 DEF FirstServices, Services
<1>6. TypeOK
  BY <1>1, <1>3, <1>5, Rows DEF Init, TypeOK
<1>7. AnswerInv
  <2> SUFFICES ASSUME NEW c \in Call
               PROVE  /\ calls[c].stage = "over" => Accounted(calls[c])
                      /\ calls[c].stage # "played" => calls[c].words = None
                      /\ calls[c].asked <= now
    BY DEF AnswerInv
  <2>1. /\ calls[c].stage = "idle" /\ calls[c].words = None
        /\ calls[c].asked = 0
    BY <1>1, <1>4
  <2>2. calls[c].asked <= now
    BY <1>1, <2>1
  <2> QED
    BY <2>1, <2>2, Zenon
<1>8. FileInv /\ HandInv
  BY <1>1, <1>4 DEF FileInv, HandInv
<1>9. SaidInv
  BY <1>1, <1>4 DEF SaidInv, Said
<1>10. JoinInv
  BY <1>1, <1>4 DEF JoinInv, Kept, Outside
<1>11. SettingInv
  <2> SUFFICES ASSUME NEW l \in {"operator", "weather"}, NEW r \in Services,
                      Setting(l, r)
               PROVE  /\ r.version <= services.version /\ r.updated <= now
                      /\ \A v, b \in Nat :
                           Source(l, v, b) /\ v < r.version => b <= r.committed
    BY DEF SettingInv
  <2>1. r = services /\ \A v, b \in Nat : ~Source(l, v, b)
    BY <1>1, <1>4 DEF Setting, Source, GoesBy, Cached
  <2> QED
    BY <1>1, <1>5, <2>1 DEF Services
<1>12. PlaceInv
  <2> SUFFICES ASSUME NEW p \in Place, Whereabouts(p)
               PROVE  /\ p.id <= place.id /\ p.updated <= now
                      /\ \A id, b \in Nat :
                           PlaceSource(id, b) /\ id < p.id => b <= p.committed
    BY DEF PlaceInv
  <2>1. p = place /\ \A id, b \in Nat : ~PlaceSource(id, b)
    BY <1>1, <1>4 DEF Whereabouts, PlaceSource, GoesBy, Cached
  <2> QED
    BY <1>1, <1>3, <2>1
<1> QED
  BY <1>6, <1>7, <1>8, <1>9, <1>10, <1>11, <1>12 DEF IInv

LEMMA Inductive == IInv /\ [Next]_vars => IInv'
  BY TypePreserved, AnswerPreserved, FilePreserved, SettingPreserved,
     PlacePreserved, HandPreserved, SaidPreserved, JoinPreserved DEF IInv

LEMMA Invariant == Spec => []IInv
  BY InitIInv, Inductive, PTL DEF Spec

(* The tables and files of the voice lines hold what they may, however     *)
(* calls, changes and crashes interleave.                                  *)
THEOREM TypeCorrect == Spec => []TypeOK
<1>1. IInv => TypeOK
  BY DEF IInv
<1> QED
  BY <1>1, Invariant, PTL

(* No caller who waits for the time, the operator or a conference is let   *)
(* go without an answer, whatever fails; one who waits for the weather is  *)
(* only where Asterisk did not carry out a command of handleWeather, or    *)
(* the handler died: every error of its own ends in a regret.              *)
THEOREM Answered == Spec => []SilentOnlyWhenCutOff
<1>1. IInv => SilentOnlyWhenCutOff
  BY DEF IInv, AnswerInv, Accounted, SilentOnlyWhenCutOff
<1> QED
  BY <1>1, Invariant, PTL

(* Operator and weather speech older than the settings a call has read is  *)
(* from around their last change, for any number of calls and changes.     *)
THEOREM Overlap == Spec => []StaleOnlyFromOverlap
<1>1. IInv => StaleOnlyFromOverlap
  BY DEF IInv, SaidInv, Said, StaleOnlyFromOverlap
<1> QED
  BY <1>1, Invariant, PTL

(* The spoken time is at most MaxSpeech older than the minute of the call, *)
(* whatever stamps its file gets.                                          *)
THEOREM FreshTime == Spec => []TimeIsFresh
<1>1. IInv => TimeIsFresh
  BY DEF IInv, SaidInv, Said, TimeIsFresh
<1> QED
  BY <1>1, Invariant, PTL

(* The file of an announcement outlives every conference that may be told  *)
(* to play it, for an announcement's limit below the time its file is      *)
(* kept, and no file that was written is forgotten.                        *)
THEOREM AudioKept == Spec => []JoinAudioIsKept
<1>1. IInv => JoinAudioIsKept
  <2> SUFFICES ASSUME IInv, NEW c \in Call
               PROVE  /\ calls[c].stage = "announcing" /\ calls[c].voice
                           /\ now - calls[c].asked <= JoinLimit
                           => joinFiles[c] = "written"
                      /\ joinFiles[c] = "written"
                           => calls[c].stage = "timing" \/ timers[c] # None \/ ~up
    BY DEF JoinAudioIsKept
  <2>1. /\ Kept(calls[c], joinFiles[c], timers[c])
        /\ calls[c].asked \in Nat /\ now \in Nat /\ JoinLimit \in Nat
        /\ JoinAudioTTL \in Nat /\ JoinLimit < JoinAudioTTL
    BY VoiceLinesAssumption DEF IInv, TypeOK, CallRow, JoinInv
  <2>2. ~(now - calls[c].asked <= JoinLimit /\ calls[c].asked + JoinAudioTTL <= now)
    BY <2>1
  <2> QED
    BY <2>1, <2>2 DEF Kept
<1> QED
  BY <1>1, Invariant, PTL
=============================================================================
