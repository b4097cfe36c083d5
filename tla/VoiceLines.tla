----------------------------- MODULE VoiceLines -----------------------------
(***************************************************************************)
(* The spoken lines of a party: the time (star 11), the operator (0), the  *)
(* weather (star 12) and the announcement of somebody who joins a          *)
(* conference.                                                             *)
(* The dialplan of internal/telephony/render.go hands a call to a FastAGI  *)
(* handler of internal/voice, which reads the party's settings, serves a   *)
(* file of speech made earlier or has a new one spoken, plays it and says  *)
(* whether it could; the dialplan goes on when it could not, or died.      *)
(*                                                                         *)
(* Time is in seconds, as the store keeps it; what happens in a second is  *)
(* ordered by the steps.  The speech provider, the caller, Asterisk and    *)
(* the connection to it may fail at any time; disks do not.  One party,    *)
(* one extension.                                                          *)
(***************************************************************************)
EXTENDS Integers

CONSTANTS
  Call,
  None,            \* no file, no timer
  Minute,          \* seconds in a minute
  MaxSpeech,       \* longest from reading the settings to the written file
  CacheDuration,   \* how long a forecast is served
  JoinLimit,       \* of the context of an announcement
  JoinAudioTTL,    \* after which its file is removed
  SaveDelay,       \* from the stamp of a change to its commit, at most
  MaxChanges,      \* bound of the values of settings and place together
  MaxTime

ASSUME VoiceLinesAssumption ==
  /\ Minute \in Nat \ {0}
  /\ {MaxSpeech, CacheDuration, JoinLimit, JoinAudioTTL, SaveDelay}
       \subseteq Nat
  /\ JoinLimit < JoinAudioTTL

VARIABLES
  now, up,         \* the clock; whether the application runs
  services,        \* settings of the party
  place,           \* weather location of the extension
  files,           \* line -> the file of its speech
  calls,           \* Call -> what its handler or the dialplan is at
  joinFiles,       \* Call -> its announcement on disk
  timers           \* Call -> when its announcement is to be removed

vars == <<now, up, services, place, files, calls, joinFiles, timers>>

----------------------------------------------------------------------------
Cached == {"time", "operator", "weather"}
Line == Cached \cup {"join"}

(* version and committed are history: they tell changes apart.  Phones may *)
(* set the weather up where it is on: the form sets both together.         *)
Services == [version : Nat, updated : Nat, committed : Nat,
             time : BOOLEAN, weather : BOOLEAN]

(* So is the id, which no other value of the place has had; a place that   *)
(* is not known has been cleared, or never set.                            *)
Place == [id : Nat, known : BOOLEAN, updated : Nat, committed : Nat]
NoPlace == [id |-> 0, known |-> FALSE, updated |-> 0, committed |-> 0]

(* What a file says, from settings read at began, and its modification     *)
(* time, which is when it was finished unless it was set since.            *)
Speech == [version : Nat, place : Nat, began : Nat, finished : Nat, mtime : Nat]

ASSUME NoneAssumption == None \notin Speech \cup Nat

Stage == {"idle", "reading", "placing", "again", "asking", "preparing", "speaking",
          "stamping", "ready", "renaming", "timing", "announcing", "played",
          "sorry", "cut", "over"}

(* answered and refused are history: whether the caller heard what he      *)
(* called for, or why not, and whether Asterisk did not carry out what the *)
(* handler of the call asked of it.                                        *)
CallRow == [stage : Stage, line : Line, hungup : BOOLEAN, attempt : 0..2,
            asked : Nat, read : Services, place : Place, voice : BOOLEAN,
            words : Speech \cup {None}, answered : BOOLEAN, refused : BOOLEAN]

(* Stages of the dialplan, and the end of a call; in the others a handler  *)
(* of the application is at work.                                          *)
Outside == {"idle", "cut", "over"}

(* Saved once, long ago.                                                   *)
FirstServices == [version |-> 0, updated |-> 0, committed |-> 0,
                  time |-> TRUE, weather |-> TRUE]

NewCall == [stage |-> "idle", line |-> "time", hungup |-> FALSE, attempt |-> 0,
            asked |-> 0, read |-> FirstServices, place |-> NoPlace,
            voice |-> FALSE, words |-> None, answered |-> FALSE, refused |-> FALSE]

MinuteOf(t) == t \div Minute

Init ==
  /\ now = 0 /\ up = TRUE
  /\ services = FirstServices
  /\ place \in {[NoPlace EXCEPT !.known = known] : known \in BOOLEAN}
  /\ files = [l \in Cached |-> None]
  /\ calls = [c \in Call |-> NewCall]
  /\ joinFiles = [c \in Call |-> "none"] /\ timers = [c \in Call |-> None]

Becomes(c, call) == calls' = [calls EXCEPT ![c] = call]

Goes(c, stage) == Becomes(c, [calls[c] EXCEPT !.stage = stage])

(* The handler returns, and what it knew goes with it.                     *)
Returned(call, stage) ==
  [NewCall EXCEPT !.stage = stage, !.line = call.line,
                  !.hungup = call.hungup, !.answered = call.answered,
                  !.refused = call.refused]

Returns(c, stage) == Becomes(c, Returned(calls[c], stage))

(* A call ends: its caller has been answered or did not wait for it.       *)
Over(call, answered) ==
  [NewCall EXCEPT !.stage = "over", !.line = call.line, !.refused = call.refused,
                  !.answered = answered \/ call.answered \/ call.hungup]

Ends(c, answered) == Becomes(c, Over(calls[c], answered))

(* The handler is cut off from its caller.  The dialplan goes on; that of  *)
(* the weather has no READY to look at, so to it a handler that returned,  *)
(* or whose connection closed, is one that has done: it hangs up.          *)
CutOff(call) == [call EXCEPT !.refused = TRUE]

Abandoned(call) ==
  IF call.line = "weather" THEN Over(CutOff(call), FALSE)
  ELSE Returned(CutOff(call), "cut")

settings == <<services, place>>
announcements == <<joinFiles, timers>>

At(c, line, stage) ==
  up /\ calls[c].line = line /\ calls[c].stage = stage

----------------------------------------------------------------------------
Tick ==
  /\ now < MaxTime
  /\ now' = now + 1
  /\ UNCHANGED <<up, settings, files, calls, announcements>>

FewerChanges == services.version + place.id < MaxChanges

(* The host saves; the change is stamped before the database takes it.     *)
UpdatePartyServices ==
  /\ FewerChanges
  /\ \E t \in 0..now, time, weather \in BOOLEAN :
       /\ now - t <= SaveDelay
       /\ services' = [version |-> services.version + 1, updated |-> t,
                       committed |-> now,
                       time |-> time, weather |-> weather]
  /\ UNCHANGED <<now, up, place, files, calls, announcements>>

SetPlace ==
  /\ FewerChanges
  /\ \E t \in 0..now :
       /\ now - t <= SaveDelay
       /\ place' = [id |-> place.id + 1, known |-> TRUE,
                    updated |-> t, committed |-> now]

(* The host sets the place of the extension, or clears it.                 *)
UpdateMemberWeatherLocationForHost ==
  /\ \/ SetPlace
     \/ place.known /\ place' = [NoPlace EXCEPT !.id = place.id]
  /\ UNCHANGED <<now, up, services, files, calls, announcements>>

----------------------------------------------------------------------------
(* A call is dialled; the dialplan resets READY and asks the application.  *)
Dial(c, line) ==
  /\ calls[c].stage = "idle"
  /\ Becomes(c, [calls[c] EXCEPT !.line = line,
                                 !.stage = IF up THEN "reading" ELSE "cut"])
  /\ UNCHANGED <<now, up, settings, files, announcements>>

Hangup(c) ==
  /\ calls[c].stage \notin {"idle", "over"} /\ ~calls[c].hungup
  /\ Becomes(c, [calls[c] EXCEPT !.hungup = TRUE])
  /\ UNCHANGED <<now, up, settings, files, announcements>>

(* A file of the time is served in the minute of its modification time;    *)
(* serving it for as long as a minute would be a bug.                      *)
AsOldAsAMinute(file) == now - file.mtime < Minute

SameMinute(file) == MinuteOf(file.mtime) = MinuteOf(now)

(* A file is served unless its settings were replaced after it was made;   *)
(* serving whatever file there is would be a bug.                          *)
AnyFile(file, updated) == TRUE

NotBefore(file, updated) == file.mtime >= updated

TimeFileServes == files["time"] # None /\ SameMinute(files["time"])

OperatorFileServes ==
  files["operator"] # None /\ NotBefore(files["operator"], services.updated)

WeatherFileServes(where) ==
  /\ files["weather"] # None
  /\ now >= files["weather"].mtime
  /\ now - files["weather"].mtime < CacheDuration
  /\ NotBefore(files["weather"], services.updated)
  /\ NotBefore(files["weather"], where.updated)

(* Without a file that serves, new speech is asked for.                    *)
Then(serves) == IF serves THEN "ready" ELSE "speaking"

TimeAudio(c) ==
  /\ At(c, "time", "reading") /\ services.time
  /\ Becomes(c, [calls[c] EXCEPT !.asked = now, !.stage = Then(TimeFileServes)])
  /\ UNCHANGED <<now, up, settings, files, announcements>>

OperatorAudio(c) ==
  /\ At(c, "operator", "reading")
  /\ Becomes(c, [calls[c] EXCEPT !.read = services, !.asked = now,
                                 !.stage = Then(OperatorFileServes)])
  /\ UNCHANGED <<now, up, settings, files, announcements>>

----------------------------------------------------------------------------
(* The weather: settings, then the place, which the caller may be asked    *)
(* for, and settings again.                                                *)
HandleWeather(c) ==
  /\ At(c, "weather", "reading")
  /\ Goes(c, IF services.weather THEN "placing" ELSE "sorry")
  /\ UNCHANGED <<now, up, settings, files, announcements>>

WeatherLocationForDevice(c) ==
  /\ At(c, "weather", "placing") \/ At(c, "weather", "again")
  /\ IF place.known
     THEN Becomes(c, [calls[c] EXCEPT !.place = place, !.asked = now,
                                      !.stage = "preparing"])
     ELSE Goes(c, IF calls[c].stage = "placing" THEN "asking" ELSE "sorry")
  /\ UNCHANGED <<now, up, settings, files, announcements>>

(* Three ZIP codes may be tried; a fourth would be a bug.                  *)
FourTries(c) == calls[c].attempt + 1 <= 3

TriesLeft(c) == calls[c].attempt + 1 < 3

(* No ZIP code, or none that is found: it is asked for again, and at last  *)
(* the caller is told to try later.                                        *)
AskAgain(c) ==
  /\ At(c, "weather", "asking") /\ ~calls[c].hungup
  /\ IF TriesLeft(c)
     THEN Becomes(c, [calls[c] EXCEPT !.attempt = @ + 1])
     ELSE Ends(c, TRUE)
  /\ UNCHANGED <<now, up, settings, files, announcements>>

(* The phone fills an empty place and replaces none; the place is read     *)
(* again whoever has filled it.                                            *)
SetWeatherLocationByDevice(c) ==
  /\ At(c, "weather", "asking") /\ ~calls[c].hungup
  /\ IF ~place.known /\ services.weather
     THEN SetPlace
     ELSE UNCHANGED place
  /\ Becomes(c, [calls[c] EXCEPT !.attempt = 0, !.stage = "again"])
  /\ UNCHANGED <<now, up, services, files, announcements>>

WeatherAudio(c) ==
  /\ At(c, "weather", "preparing") /\ services.weather
  /\ Becomes(c, [calls[c] EXCEPT
                   !.read = services,
                   !.stage = Then(WeatherFileServes(calls[c].place))])
  /\ UNCHANGED <<now, up, settings, files, announcements>>

----------------------------------------------------------------------------
(* Speech arrives and takes the place of the file in one rename.           *)
Speak(c) ==
  LET call == calls[c]
  IN
  /\ up /\ call.line \in Cached /\ call.stage = "speaking"
  /\ now - call.asked <= MaxSpeech
  /\ files' = [files EXCEPT ![call.line] =
                 [version |-> call.read.version, place |-> call.place.id,
                  began |-> call.asked, finished |-> now, mtime |-> now]]
  /\ Goes(c, IF call.line = "time" THEN "stamping" ELSE "ready")
  /\ UNCHANGED <<now, up, settings, announcements>>

(* Then the file of that name, be it another's by now, is given the time   *)
(* that was to be spoken.                                                  *)
Chtimes(c) ==
  /\ At(c, "time", "stamping")
  /\ files' = [files EXCEPT !["time"].mtime = calls[c].asked]
  /\ Goes(c, "ready")
  /\ UNCHANGED <<now, up, settings, announcements>>

(* The file of that name is played, whoever made it.                       *)
Play(c) ==
  /\ up /\ calls[c].line \in Cached /\ calls[c].stage = "ready"
  /\ IF calls[c].hungup
     THEN Ends(c, FALSE)
     ELSE Becomes(c, [calls[c] EXCEPT !.words = files[calls[c].line],
                                      !.answered = TRUE,
                                      !.stage = "played"])
  /\ UNCHANGED <<now, up, settings, files, announcements>>

(* READY is set, and who joins enters the conference; or the handler of    *)
(* the weather returns.                                                    *)
Finish(c) ==
  /\ up /\ calls[c].stage = "played"
  /\ Ends(c, TRUE)
  /\ UNCHANGED <<now, up, settings, files, announcements>>

(* What the handler itself does fails: no voice, no speech in time, an     *)
(* error of the store or of the conference.  The weather is to say        *)
(* so itself, an announcement is a beep, and the dialplan sees to the      *)
(* others.                                                                 *)
Fail(c) ==
  LET call == calls[c]
  IN
  /\ up
  /\ \/ /\ call.line \in Cached
        /\ call.stage \in {"reading", "placing", "again", "asking", "preparing",
                           "speaking", "stamping"}
        /\ Returns(c, IF call.line = "weather" THEN "sorry" ELSE "cut")
        /\ UNCHANGED announcements
     \/ /\ call.line = "join" /\ call.stage \in {"reading", "announcing"}
        /\ Returns(c, "cut")
        /\ UNCHANGED announcements
     \/ /\ call.line = "join" /\ call.stage \in {"speaking", "renaming"}
        /\ Goes(c, "announcing")
        /\ joinFiles' = [joinFiles EXCEPT ![c] = "none"]
        /\ UNCHANGED timers
  /\ UNCHANGED <<now, up, settings, files>>

Sorry(c) ==
  /\ up /\ calls[c].stage = "sorry"
  /\ Ends(c, TRUE)
  /\ UNCHANGED <<now, up, settings, files, announcements>>

(* Where a handler reads its environment, or a command of it is under way: *)
(* the greeting while speech is made, the question for a ZIP code, a file, *)
(* READY, the regret.                                                      *)
Commanding(call) ==
  \/ call.stage \in {"reading", "asking", "preparing", "sorry"}
  \/ call.line \in Cached /\ call.stage \in {"speaking", "ready"}
  \/ call.line # "weather" /\ call.stage = "played"

(* The command fails: the connection is broken, or its 85 seconds are up,  *)
(* or Asterisk could not do it.  The handler returns and says nothing;     *)
(* only from the question for a ZIP code it may yet try a regret.          *)
CommandFails(c) ==
  /\ up /\ Commanding(calls[c])
  /\ \/ Becomes(c, Abandoned(calls[c]))
     \/ /\ calls[c].stage = "asking"
        /\ Becomes(c, Returned(CutOff(calls[c]), "sorry"))
  /\ UNCHANGED <<now, up, settings, files, announcements>>

----------------------------------------------------------------------------
(* Joining: the phone's member is looked up, a file with the name is made, *)
(* its removal is arranged, and the conference hears it or a beep.         *)
HandleJoinParty(c) ==
  /\ At(c, "join", "reading")
  /\ Becomes(c, [calls[c] EXCEPT !.asked = now, !.stage = "speaking"])
  /\ UNCHANGED <<now, up, settings, files, announcements>>

WriteTemporary(c) ==
  /\ At(c, "join", "speaking") /\ now - calls[c].asked <= JoinLimit
  /\ joinFiles' = [joinFiles EXCEPT ![c] = "temporary"]
  /\ Goes(c, "renaming")
  /\ UNCHANGED <<now, up, settings, files, timers>>

Rename(c) ==
  /\ At(c, "join", "renaming")
  /\ joinFiles' = [joinFiles EXCEPT ![c] = "written"]
  /\ Goes(c, "timing")
  /\ UNCHANGED <<now, up, settings, files, timers>>

AfterFunc(c) ==
  /\ At(c, "join", "timing")
  /\ timers' = [timers EXCEPT ![c] = now + JoinAudioTTL]
  /\ Becomes(c, [calls[c] EXCEPT !.voice = TRUE, !.stage = "announcing"])
  /\ UNCHANGED <<now, up, settings, files, joinFiles>>

AnnounceJoin(c) ==
  /\ At(c, "join", "announcing") /\ now - calls[c].asked <= JoinLimit
  /\ Goes(c, "played")
  /\ UNCHANGED <<now, up, settings, files, announcements>>

RemoveAnnouncement(c) ==
  /\ up /\ timers[c] # None /\ timers[c] <= now
  /\ joinFiles' = [joinFiles EXCEPT ![c] = "none"]
  /\ timers' = [timers EXCEPT ![c] = None]
  /\ UNCHANGED <<now, up, settings, files, calls>>

----------------------------------------------------------------------------
(* For a line that did not say it was ready, the dialplan says the time    *)
(* itself, plays the operator's bundled words, or sends the call to the    *)
(* operator; a route that forgot to look at AGISTATUS would be a bug.      *)
NoAGIFallback(line) == line # "weather"

LocalAnswer(line) == line \in Line

Fallback(c) ==
  /\ calls[c].stage = "cut"
  /\ Ends(c, LocalAnswer(calls[c].line))
  /\ UNCHANGED <<now, up, settings, files, announcements>>

(* The application dies: Asterisk sees its connections close, removals     *)
(* that were arranged are forgotten, files stay.                           *)
LeftAlone(call) == IF call.stage \in Outside THEN call ELSE Abandoned(call)

Crash ==
  /\ up /\ up' = FALSE
  /\ calls' = [c \in Call |-> LeftAlone(calls[c])]
  /\ timers' = [c \in Call |-> None]
  /\ UNCHANGED <<now, settings, files, joinFiles>>

(* What a start leaves of the announcements; to leave them all would be a  *)
(* bug.                                                                    *)
SweptNothing(file) == file

Swept(file) == IF file = "written" THEN "none" ELSE file

Serve ==
  /\ ~up /\ up' = TRUE
  /\ joinFiles' = [c \in Call |-> Swept(joinFiles[c])]
  /\ UNCHANGED <<now, settings, files, calls, timers>>

----------------------------------------------------------------------------
Proceed(c) ==
  \/ TimeAudio(c) \/ OperatorAudio(c) \/ HandleWeather(c)
  \/ WeatherLocationForDevice(c) \/ AskAgain(c)
  \/ SetWeatherLocationByDevice(c)
  \/ WeatherAudio(c) \/ Speak(c) \/ Chtimes(c) \/ Play(c) \/ Finish(c)
  \/ Fail(c) \/ Sorry(c) \/ CommandFails(c)
  \/ HandleJoinParty(c) \/ WriteTemporary(c) \/ Rename(c) \/ AfterFunc(c)
  \/ AnnounceJoin(c)
  \/ Fallback(c)

Next ==
  \/ Tick \/ Crash \/ Serve
  \/ UpdatePartyServices
  \/ UpdateMemberWeatherLocationForHost
  \/ \E c \in Call :
       \/ \E line \in Line : Dial(c, line)
       \/ Hangup(c) \/ Proceed(c) \/ RemoveAnnouncement(c)

Spec == Init /\ [][Next]_vars

----------------------------------------------------------------------------
(* Properties.                                                             *)

(* Everything is of its type.                                              *)
TypeOK ==
  /\ now \in Nat /\ up \in BOOLEAN
  /\ services \in Services /\ place \in Place
  /\ files \in [Cached -> Speech \cup {None}]
  /\ calls \in [Call -> CallRow]
  /\ joinFiles \in [Call -> {"none", "temporary", "written"}]
  /\ timers \in [Call -> Nat \cup {None}]

(* Who calls the time or the operator, or joins a conference, and does not *)
(* hang up, is answered whatever fails: by the line, the clock, the        *)
(* operator or bundled words.  So is who calls the weather, or hears a     *)
(* regret, whatever the store, the place, the speech or the application    *)
(* not being there does to the call; only a handler that Asterisk no       *)
(* longer obeys, or that dies, leaves this caller with nothing.            *)
SilentOnlyWhenCutOff ==
  \A c \in Call :
    calls[c].stage = "over" /\ ~calls[c].answered
      => calls[c].line = "weather" /\ calls[c].refused

(* Made around a change: finished after it was stamped, by a caller who    *)
(* had read what was in force before it was committed.                     *)
Overlaps(words, change) ==
  /\ change.updated <= words.finished
  /\ words.finished <= change.committed + MaxSpeech

(* The operator and the weather say what was in force when they were       *)
(* dialled, or words made around the last change of it: never words that   *)
(* were finished before that change was stamped, or begun after it was     *)
(* committed, although a file may be replaced, between the look at it and  *)
(* its playing, by a call that has read older settings.                    *)
StaleOnlyFromOverlap ==
  \A c \in Call :
    LET call == calls[c]
    IN  call.words # None =>
          /\ call.line \in {"operator", "weather"}
               /\ call.words.version < call.read.version
               => Overlaps(call.words, call.read)
          /\ call.line = "weather" /\ call.words.place < call.place.id
               => Overlaps(call.words, call.place)

StartOfMinute(t) == Minute * MinuteOf(t)

(* The time that is heard is at most the time it takes to speak older than *)
(* the minute in which it was asked for, whoever made the file and whoever *)
(* stamped it.                                                             *)
TimeIsFresh ==
  \A c \in Call :
    calls[c].line = "time" /\ calls[c].words # None
      => StartOfMinute(calls[c].asked) <= calls[c].words.began + MaxSpeech

(* The comment above os.Chtimes says more: speech of an earlier minute is  *)
(* not reused.                                                             *)
NoStaleMinute ==
  \A c \in Call :
    calls[c].line = "time" /\ calls[c].words # None
      => MinuteOf(calls[c].asked) <= MinuteOf(calls[c].words.began)

(* An announcement is on disk as long as a conference may be told to play  *)
(* it, and not for ever: it is about to be given a timer, or has one, or   *)
(* the next start removes it.                                              *)
JoinAudioIsKept ==
  \A c \in Call :
    /\ calls[c].stage = "announcing" /\ calls[c].voice
         /\ now - calls[c].asked <= JoinLimit
         => joinFiles[c] = "written"
    /\ joinFiles[c] = "written"
         => calls[c].stage = "timing" \/ timers[c] # None \/ ~up
=============================================================================
