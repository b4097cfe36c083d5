# RingRing in TLA+

RingRing lets a host run a small private telephone system, a *party*: the host
invites people, each claims an extension and receives SIP credentials for a
phone, an app or a desk phone, and Asterisk connects the calls and answers
service lines. A Go program (`cmd/ringring`) keeps the directory in SQLite,
serves the web pages and the phone API, generates Asterisk's configuration,
talks to it over AMI and FastAGI, and gives every party an OpenAI project for
the spoken lines.

This directory holds the specifications of that program, the TLC
configurations that check them on small instances and the TLAPS proofs that
hold for all instances. Source paths below are relative to `src/`.

## Running

    tlc -workers 2 -config MCReconciler_safety.cfg MCReconciler
    tlapm ReconcilerProofs.tla

## 1. Inventory

What each part keeps, does, and must get right. *M* marks what is modelled now,
*P* what the plan in section 3 adds, *-* what stays out.

| | part (source) | state | operations | hard behaviour | what makes it correct |
|-|-|-|-|-|-|
| M | party directory (`internal/store/store.go`, `phone_push.go`) | parties, invitations, members, devices, setup links, readiness, push registrations | create, invite, cancel, claim, add, rotate, revoke, fetch, tick, choose a number, register, delete | requests in any order, expiry in seconds against a finer clock, username collisions, deletion under concurrent creation | an invitation admits once; names are unambiguous; a revoked phone holds nothing; a link opens its own secret once; no orphan rows |
| M | telephony reconciler (`internal/telephony/reconciler.go`, part of `ami.go`, `render.go`) | generated files, the mutex, what Asterisk has loaded | lock, query twice, write twice, reload, answer | failure at every stage, a crash between commit and publication, a reload that outlives its sender | success means published; never back to an older directory; no change waits forever |
| M | OpenAI project of a party (`internal/webapp/app.go`, `internal/openaiadmin`, `internal/store`) | status, key and limits in the row; project, keys and limit at the provider | provision, rotate the key, update the limit, archive | two systems and no transaction across them; lost and late answers; concurrent retries | a paused party can be resumed; replaced keys die; the limit shown was confirmed |
| P | phone API and push (`internal/webapp/phone_mobile.go`, `internal/voice/incoming.go`, `internal/apns`) | push tokens; requests between authentication and effect | authenticate, register, withdraw, deliver, drop dead tokens | a request authenticated under a credential that is then rotated | a token belongs to the phone's present credential |
| M, P | voice lines (`internal/voice/server.go`, `join.go`, routes of `render.go`) | audio files and their times, timers, calls in progress | time, weather and its ZIP code dialogue, operator, join announcements; *P*: the *15 chooser | synthesis takes seconds while settings, place and key change; the application may die under a call | nobody is left unanswered but a weather caller cut off from the handler; stale words only from an overlap with the change; announcements are kept while needed and no longer |
| M | accounts (`internal/store`, `internal/webapp/app.go`, `internal/localauth`) | users, credentials, recovery codes, sessions, authentication slots | sign up, log in, Google, recover, log out, delete | two recoveries with one slip of codes, a login across a reset, an account deleted under its own sign-in, slots held by slow hashing | codes serve once; a reset ends the sessions; slots come back; no session without its user |
| M, P | rate limiter (`internal/webapp/ratelimit.go`) | buckets by key | allow, prune; *P*: the limiter of rings, which mixes two windows | window boundaries, pruning above 10,000 buckets, restarts | fewer than two limits in a window; pruning forgets nothing in force |
| M | AMI client (`internal/telephony/ami.go`) | a connection, the list being read | log in, list contacts, calls and channels, ring, announce, reload | events and foreign frames between answers, lists that start late or end early, phones that change while they are listed | an answer was true at some time since the question; an answer is complete or an error; an effect is reported only if it happened, and only a phone seen online is rung |
| P | dialplan and extension rules (`render.go`, `conference.go`, `internal/extension`) | none | render, validate, suggest | overlap of numbers, lines and reserved codes | each number reaches one route; a suggestion is valid and free |
| P | schema repair (`store.go`, `Open`) | legacy tables | add columns, move reserved numbers, delete orphans | legacy rows of any shape | repair is idempotent and leaves no orphan or clash |
| - | provisioning formats, weather, radio, web pages, configuration, metrics, maintenance, secrets | none to speak of | rendering, fetching, parsing | | no protocol to check |
| - | iOS app, Asterisk configuration, deployment scripts | their own | | | clients and environment: they appear as the phone, Asterisk and the provider of the models |

How they interact: handlers of `webapp` run one per request, side by side. They
share the store, which opens SQLite with a single connection, so statements
and transactions are serialised; they share one reconciler, called after a
change commits and once when `main` starts, and serialised by its mutex; they
call the OpenAI administration API with no lock and no transaction. Calls come
back from Asterisk over FastAGI (`voice`), which reads the store, serves speech from
files that outlive a restart, changes a member's number and reconciles too; while a
list of phones is shown or a phone is rung, the program asks Asterisk over AMI, one
connection per question. Nothing is queued in the program: a step
that fails is logged, shown to the host, and retried by the host.

## 2. What is modelled

### Directory

`Directory.tla` has one function per table (`Tables.tla`, shared with `SignIn`), from the live primary keys to rows,
and one action per operation of the store. Each operation is one statement or
one transaction on the only connection, which is why it is one step. What the
handler does before it is a parameter: the clock it read (`at`, up to
`MaxHandlerDelay` before the commit) and the username the generator drew (any;
a collision is a disabled action, as the handler draws again with nothing
written). The host's forms, the join form, the setup link and the push endpoint
are `PartyForms`, `PhoneForms`, `JoinStep`, `SetupStep` and `PushStep`.

- Identifiers, secrets and tokens are long random strings that never repeat:
  fresh numbers. SIP usernames are six digits and do repeat: a small set.
- The clock counts half seconds and the database whole seconds (`unix`,
  `fromUnix`), because a cancellation compares whole seconds and a claim the
  exact time.
- A readiness check is stamped with the credential in force when the host's form
  commits, as the code stores a time for the device and no credential.
- `admitted` and `fetched` are history variables for the properties; they also
  number the invitations and the secrets.
- Left out: names, labels, the text of the forms, service settings, weather
  locations, the limits on open invitations that only the page shows.

Two abstract machines say what the tables are for. In `CredentialLife.tla` a credential is
issued once, handed out by a link once at most and only while its phone uses it, and
retired for good. In `Admission.tla` a member joins by an open invitation of the party, which
it spends, and nothing spent or withdrawn opens again. `Directory` maps to them through
`LiveSecrets`, `OfferedSecrets` and `DisclosedSecrets` (`CredentialsLive`), and through
`OpenInvitations` and `Memberships` (`MembersAreInvited`). An invitation whose time is up
stays open there, as its row does: what expiry promises is `CancelLeavesNoLiveLink`'s.
`OnePartyAtATime` compares the rows that belong to two parties (`PartyRows`) before and
after a step.

### Reconciler and Publication

`Reconciler.tla` abstracts what the two routing queries return to version
numbers, one for devices and one for services, and follows
`Reconciler.Reconcile` line by line: lock, `RoutingDevices`, `RoutingServices`,
`pjsip.conf`, `extensions.conf`, reload, answer. `Fail` is an error at any of
them, including a canceled request and an AMI deadline; a reload that was sent
stays with Asterisk, its sender replaced by `Nobody`. `Crash` kills every handler;
`Restart` is `main`, which reconciles before it serves and serves whatever the
outcome. `SilentCommit` is a commit nobody reconciles: a new party, a key rotation
and a claim by the app whose answer cannot be encoded.

Asterisk is external: it serves reloads one at a time, loads one file after the
other and answers when both are loaded; a restart loads the files as they are.
A module that rejects its file is invisible to the code and is not modelled. A
deployment without AMI (`Reloader` nil, the reload is skipped) is not modelled,
nor is loss of a renamed file at a power cut (the directory is not synced).

`Publication.tla` is the abstract promise: one kind of data is committed,
published in order of commitment and never back, and acknowledged only when it
is in force. `Devices` and `Services` instantiate it with the version in force,
the older of what the two files Asterisk runs show; `PublishesInOrder` promises both.

### PartyOpenAI

`PartyOpenAI.tla` is the life of one party's project. A request of the host is a
handler with a program counter and what it has read; each statement on the row
and each call of the provider is a step. The statements carry the conditions of
their `WHERE` clauses (`CanInstall`, `CanStartUpdate`, `OwnUpdate`, and none but
existence for `UpdatePartyOpenAI`). A call is confirmed, refused, or given up: one
given up may take effect later (`Land`) or never. `Stop` ends a handler anywhere:
a crash, a canceled request, a database error, a failed encryption.

The provider is external and modelled from the client: creation of a project, its
limit, keys of one service account, deletion of a key, archival, and what an
archived project still accepts. The pages of a key listing are one atomic
listing. Not modelled: a deployment without an administrator key, parties from
before key identifiers were stored, the reconciliations inside the spend limit
update (they are requests of `Reconciler`).
`replaced`, `confirmed`, `overlapped` and `strayed` are history: keys that rotations have
replaced, limits the provider has confirmed, whether requests have overlapped, and the
limits asked in calls given up.

### SignIn and RateLimiter

`SignIn.tla` is the accounts of hosts. A handler of `app.go` is a record with its stage
and what it has read: it starts (`Signup`, `Login`, `Recover`, `GoogleCallback`,
`DeleteAccount`), and each operation of the store is a step named after it
(`CreateLocalUser`, `LocalCredentialByUsername`, `RecoverLocalUser`, `UpsertGoogleUser`,
`DeleteUserWithoutParties`). Verifying the password and creating the session are one
step (`VerifyAndStart`), as nothing is read between them; everything may happen between
it and the read of the credential. `Return` is every way out of a handler: its answer, or an
error or a canceled request at any stage; the deferred release of the slot is part of it.
`Crash` forgets handlers, slots and buckets and keeps the database.

- Passwords are numbered in order of issue, and a set of recovery codes has the number
  of the password issued with it. Number 0 is a wrong guess.
- `spent`, `passes` and the fields `password`, `began` and `since` of a session are
  history variables.
- `users` with a Google subject stand for Google accounts and for the development login,
  which differ in where the subject comes from.
- Left out: hashing, cookies and CSRF tokens, the exchange with Google before its
  answer, the page that shows recovery codes once, and the limiter by address.

`AccountLife.tla` is what this amounts to for a host: an account is opened and closed, a
password is set and replaced, a session entered and left, and none of them comes back once it
is over. `Entry`, `Passwords` and `Entries` read it off the tables (`AccountsLive`). Its
`Enter` says what a login is worth: it gets in by the present password, or by one replaced
after the login began, never by an older one. Handlers, slots, codes and the limiter do not
exist there; a recovery is `Replace`, whoever it raced with.

`RateLimiter.tla` is `allow`: `AfterTry` is what it leaves of the buckets, `Allows` what it
answers. `SignIn` instantiates it for `authUsers`, with the keys of logins and recoveries.

### VoiceLines

`VoiceLines.tla` is the spoken lines of one party and one extension. A call is a record
that goes through the dialplan (`Dial`, `Fallback`) and the FastAGI handler of its line,
step by step: the reads of the store (`TimeAudio`, `OperatorAudio`, `HandleWeather`,
`WeatherLocationForDevice`, `WeatherAudio`), the dialogue (`AskAgain`,
`SetWeatherLocationByDevice`), the speech that takes the file's place in one rename
(`Speak`), its stamp (`Chtimes`), the playback of whatever file has the name (`Play`), and for a
conference the file of the announcement, its timer and its order to Asterisk
(`WriteTemporary`, `Rename`, `AfterFunc`, `AnnounceJoin`, `RemoveAnnouncement`). `Fail` is a
line without a voice, a retired key, speech out of time or any error of what the handler
itself does, at any point where it checks one; the weather then goes on to its regret
(`Sorry`). `CommandFails` is a command that Asterisk does not carry out, wherever one is
under way (`Commanding`): the connection is broken, or its 85 seconds are up
(`server.go:130`), as they may be while a caller keys in a ZIP code, or the channel refused.
The handler returns and says nothing, save that an error in the dialogue
of the ZIP code still tries the regret. `Crash` closes the connections and forgets the timers; `Serve`
starts again and sweeps the directory.

- A change of settings is stamped up to `SaveDelay` before it is committed; a
  timestamp has the resolution of the store, a second.
- `version`, `id`, `committed`, `asked` and the contents of a file are history: they
  tell which settings the words were made from and when.
- A route may be dialled whatever the settings say, as Asterisk may still run an older
  dialplan. The dialplan of the time, the operator and a conference looks at `READY` and
  goes on by itself (`Fallback`) where a handler returned without it. That of the weather
  has no `READY` and looks only at `AGISTATUS`: a handler that returned in silence, or
  died, is to it one that has done, and it hangs up (`Abandoned`).
- The 85 seconds are not counted: a command may fail at any time for any of its reasons.
- `answered` and `refused` are history: whether the caller heard what he called for, the
  dialplan's words or a regret, and whether a command of the call's handler failed or the
  handler died. The greeting alone does not count as an answer.
- Left out: errors of removing files and of reading the directory, the time writing
  takes, the words themselves, the operator's other reasons than help, the two
  settings of the weather apart (the form sets them together). Party and services
  are read by one step.

### Ami

`Ami.tla` is one connection after the other: `Begin`, log in (`ReadLogin`), and either
a command (`ReadOutcome`) or the loop that reads a list frame by frame (`PassOver`,
`ReadStart`, `ReadItem`, `ReadEnd`, `ReadNothing`, `ReadRefusal`, `Exceed`). A list of
conferences goes on with a list of each (`NextRoom`), the setup ring with a second
connection (`ContactStatuses`). `Break` is a refused or broken connection, the deadline, or a
frame too large, at any point. `answer` is what the page or the handler is told.

Asterisk is external and modelled from how the client reads it: it goes through what it
knows item by item while phones register, ring, move and leave (`Change`); it answers a
list of nothing with an error (`Nothing`), refuses a command or the first list of a kind
(`Error`), and sends frames of others at any time (`SendForeign`).

- One request at a time: requests share nothing but the phones. The wire holds one frame;
  order is kept, and how many are under way does not matter to the reader.
- What happens to phones between requests happens while the next one logs in.
- `since`, `accepted` and the value in a frame are what the properties look back at.
- Left out: elapsed seconds of calls, malformed endpoints, rooms of other parties.
  Which endpoints the party has is the constant `Known`.
- `Reload` is a command here, and with its effect a stage of `Reconciler`;
  `AnnounceJoin` is one here, and a step of `VoiceLines` there.

## 3. Plan

Written, in this order, the most important first: `Directory`, `Reconciler` with
`Publication`, `PartyOpenAI`, `SignIn` with `RateLimiter`, `VoiceLines`, `Ami`, each with
its proofs. What is left:

1. `PhoneApi`: the two steps of `phonePushAPI`, delivery and dead tokens, claims
   by the app; extends `Directory`'s phones with requests in flight. Property: a
   push token belongs to a phone that authenticated with the present credential.
2. `Chooser`: the *15 dialogue as an AGI conversation over `Directory` and
   `Reconciler`. Property: what is announced is what is saved, digit for digit;
   an abandoned dialogue changes nothing.
3. The limiter of rings, with the windows of host and phone over one table of buckets.
4. `Extensions` (`Valid`, `Reserved`, `Suggest`), `Dialplan` (which route a number
   takes) and `Repair` (orphans and reserved numbers): pure operators and small
   machines checked against reference definitions.

Worth proving beside these: lemmas on `Suggest` and on the order of `Repair`'s deletions.

## 4. Runs

| run | instance | states | shows |
|-|-|-|-|
| `admission` | 2 hosts, 2 parties, 2 invitations, 3 phones, limit 2, half a second of handler delay | 425,418 | the rows of the directory keep their promises when links are claimed, cancelled and expired and parties and members deleted; no step touches two parties |
| `phones` | 1 host, 2 phones, 4 credentials, 2 push tokens, 1 check | 171,960 | the credential's life: link, token, checklist, revocation, rotation; the refinements of `CredentialLife` and of `Admission` |
| `safety` | 2 changes, 1 silent commit, 1 crash, 1 restart of Asterisk | 3,047,619 | what success means, monotonicity, and the refinement of `Publication` twice |
| `liveness` | 2 changes, 1 crash, 1 restart, fairness | 384,236 | every change that waits gets a verdict |
| `retries` | 2 handlers at a time, 5 requests, 2 amounts, 2 late calls, stops | 272,583 | the safety of rotation and of limit updates under loss, crash and concurrency |
| `accounts` | 2 requests, 2 slots, 1 account (by password or through Google), 3 passwords, 2 sessions, a window of two seconds, 2 logins and 1 recovery a window | 1,362,012 | codes, sessions, slots and the limiter under overlapping requests, failures and crashes; the refinement of `AccountLife` |
| `lines` | 2 calls, 1 change of settings or of place, 3 seconds with a minute's end among them | 3,619,656 | who is answered, and who may be left in silence, what is stale, what stays on disk, when everything may fail and the application die |
| `lists` | 2 phones with a channel each, one of them with 2 registrations, 2 conferences, 3 changes, 4 frames | 3,029,134 | what a list and a command may say of phones that change meanwhile |
| `key`, `limit`, `orphan` | the instance of `retries` without loss or stops | | three findings of section 6 |
| `minute` | the instance of `lines` | | the fourth |

**Why the bounds are enough.** `admission`: two invitations of one party reach the
collision of two claims, two parties the independence of their numbers; three phones
against a limit of two reach the limit with one phone revoked; with a lifetime of
one second and a clock of one and a half, links live, expire and are cancelled in
their last second. `phones`: four credentials over two phones give each a rotation after a
revocation, and a username drawn again. `safety`: with two changes and the startup
reconciliation, three runs contend for the mutex; a crash may come with a reload
under way; two versions differ per part, which is all the order compares.
`retries`: five requests are the provisioning, two complete rotations or updates
and a stale retry of each; two late calls let the later one land first.
`accounts`: with two handlers a recovery and a login, or two recoveries, overlap, and an
account is deleted under its own sign-in; three passwords are one before and one after each
of two resets; a window of two seconds in a clock of three has tries at its start, at its
end and in the next. Each handler finds a slot, a second account adds nothing an invariant
relates, and the limiter drops buckets only after more than two windows, later than this
clock runs: the three are left to the theorems, which hold for any number of users, any
`AuthSlots` and any `MaxBuckets`. `lines`: two calls race for one file, on the same line
or not, before and after one change of the settings or one of the place, and of different
minutes; speech takes none or one second, so it may cross a change, the end of a minute,
or the life of a forecast. Only the weather looks at both kinds of change, and it takes
each of them alone; that no mixture of the two matters is the theorem's. `lists`: one phone
has two registrations, of which the better counts; each has the channel that makes a call of two;
three changes let a call leave a room that was listed and enter one that was not; four
frames are a whole list of two registrations exactly, or a list of one with one foreign
frame, and one more is too many. The limit on conferences does not bite in
this instance, and the theorem covers it. The
counters bound only how often something happens; the theorems have no such bound.

**Deadlock** says nothing here: `lines` and `lists` are checked for it and cannot
deadlock, as a crash, a start or another question is always possible; the other machines
may come to rest, the directory and the accounts when their bounds are used up, the others
when no request is left. That somebody waits for ever is a question of liveness.

**Fairness** (`FairSpec`, run `liveness`): weak fairness of each request's own
steps and of taking a free mutex. The Go scheduler runs a runnable goroutine, Go's
mutex serves a goroutine that waits, queries and file operations return, and an AMI
connection carries a deadline (`ami.go`, `connect`), so a request at any stage goes
on or fails. Nothing is assumed of Asterisk, which may never answer.
The other specifications assume no fairness and claim no liveness: every wait in them
ends by a deadline, a hangup or the caller's patience, which are steps of the model.

**Symmetry** is used for safety properties only, over hosts, usernames, valid
numbers, tokens, requests, handlers, recovery codes, calls and whatever `MCAmi.tla` names.

## 5. Proofs

Four theorems are refinements: `Directory` implements `CredentialLife` and `Admission`,
`Reconciler` implements `Publication`, `SignIn` implements `AccountLife`. Of each but
`Publication`, whose `PubNext` is the promise, a theorem draws the consequence a host
cares about (`NoCredentialReturns`, `NoInvitationReopens`, `NothingEndedReturns`).

Each theorem holds for every value of the constants, from the named assumption of
its module (`DirectoryAssumption`, `ReconcilerAssumption`, `PartyOpenAIAssumption`,
`SignInAssumption`, `VoiceLinesAssumption`, `AmiAssumption`) alone, and in the last two from
`NoneAssumption`, that the value for nothing is none of the values. `TablesProofs` holds the
lemmas on tables that `DirectoryProofs` and `SignInProofs` share. All safety properties of the passing runs are proved.

**DirectoryProofs.** Each property is proved on top of `TypeCorrect` and `References`.
`InvitationOnce` is not inductive: the invariant is `InvitationsSpent`, which adds
that an invitation not marked used has admitted nobody. `SetupLinkOnce` and
`Readiness` share `SecretsKept`, which adds that an unspent link's secret was never
fetched and that no two phones share a secret. `DeviceLimit` uses the library's
lemmas on cardinality: the count is read in the transaction that inserts, and a
claim starts a new member. `Cancellation` rests on `SecondsAgo`, an expiry in an
earlier whole second is past to the half second, and on a lemma that nothing but a
cancellation shortens the list of a party that stays. It holds for every
`MaxHandlerDelay`: a handler's clock is never ahead, so what it took to be expired
is expired for a claim that reads the clock from then on. A claim that read the
clock before the cancellation is promised nothing, and may still succeed if its
link was in its last instant.

`ImplementsCredentialLife` maps every operation to issuing, disclosing, retiring or a
stutter (`IssueStep`, `DiscloseStep`, `RetireStep`, `LifeStep`). The delicate ones are the
rotation, which retires one credential and issues the next in one transaction, also for a
revoked phone whose old credential is long gone, and the deletions, which retire many. It
needs `SecretsKept`, as a secret two phones shared would outlive one's revocation, and
`RevokedPhoneHoldsNothing`, as a link left to a revoked phone would hand out what is retired. From the abstract machine alone, `NoCredentialReturns` concludes that no step of
the code puts a credential that is out of service back, or discloses it.
`ImplementsAdmission` maps claims to admissions and everything that closes invitations or
removes members to `Withdraw`; type correctness is all it needs, as the claim reads and marks
the invitation in one transaction. From `Admission` alone, `NoInvitationReopens` concludes
that an invitation claimed, canceled or deleted never opens again, and that a member who was
removed never returns. `PartiesAreSeparate`
shows for each operation a party outside of which it changes no row (`OneTouched`,
`OnePhone`); its steps use `ReferencesResolve`, without which a phone found by username
might belong to no party, and `NamesAreUnambiguous`, without which a token might belong to
two.

**ReconcilerProofs.** `Inv` adds to the properties: `Mutex` (whoever is past the
lock is its holder, and nobody is anywhere while the app is down), `Awaited` (a
reload somebody waits for belongs to one run, once), `Ages` (what Asterisk runs is
at most as new as the files, and those as the database), `Fresh` (the holder's
snapshot covers its own change and all that was written before, and the files it has
written show the snapshot) and `Loading` (a reload that is waited for loads the files
its sender wrote). `SuccessIsPublished` then follows at `Answer`, since the files
contain the holder's change and both have been loaded after it wrote them, and
every later step only moves forward. `ImplementsPublication` shows every step to be, for the
devices and for the services each, a step of `Publication` or a stutter (`PartStep`,
`EveryStepIsAPartStep`).

**PartyOpenAIProofs.** `Shape` relates the row to itself (which statuses come with a
project, a key, a pending amount) and to what each handler knows; its part
`Provisional` says that until the project is stored others can only delete the
party. `KeyNumbers` says that a key about to be installed, or to be created by a call
given up, is nobody else's. `Retiring` is the heart of `Retired`: a rotation that has
seen no failure, and whose key is still the party's, has every replaced key that still
works on its list; a deletion that succeeds keeps it so, and a failure forfeits the
right to settle. `NoReplacedKeyReturns` says what the two parts mean for one key: replaced,
it is not installed again by any handler, and deleted, it is not revived by any call that
lands late (`NoRevival`). `Survives` needs a second invariant, `Solo`: while no two requests
have overlapped, the handler at work is the only one, what it read is what the row
says, and neither it nor a late call can delete the installed key. `LimitSurvives` builds on
`Solo` again: `Limits` says that the provider's limit is the one the row shows (once the
party is ready or rotating), the default of a project about to be stored, or the amount of
an update about to finish, or else a stray one, and that whoever is to post still works on
the party's own update; `Strays` says that only amounts of calls given up can arrive late.
Both need that the row is not ready while a limit is being set, which `Provisional` gives
for a new project and `OwnUpdate` for an update.

**SignInProofs.** The step lemmas split a step into what it does to requests and slots, to
the database and to the limiter, so each invariant looks at its part. `AccountInv` adds to
`CodesServeOnce` that a username has its user alone, that passwords are never given
twice, and that the codes of a present password have served nothing; without the last a
second reset could not be told from the first. `WorkInv` is what a login at work may
still believe: the password it verified is the present one, or it began before the reset.
`LimiterInv` follows the tries let through backwards from the bucket: its own are at
most the limit and start where it does, and all but the limit less one of those before are
a window older; a forgotten bucket is old enough to leave none.

`ImplementsAccountLife` maps each commit to a step of `AccountLife` and everything else to a
stutter. One lemma per kind of step (`SignUpStep`, `OpenStep`, `EnterStep`, `ReplaceStep`,
`CloseStep`, `LeaveStep`) is about the tables alone, and `AccountLifeStep` finds the commit in
the handler. It needs `WorkInv`, as the password a handler compares was read before and may
have been replaced since, and `AccountInv`, as a recovery must find the one account of its
username and a session the password it was begun under. From the abstract machine,
`NothingEndedReturns` concludes that a session that ended, an account that was closed and a
password that was replaced are gone for good, whichever handlers were at work meanwhile.

**RateLimiterProofs** is about the operators alone: `TriesAreCounted`, and `OpenBucketsStay`,
which holds of callers with different windows as long as none is more than twice another.
The ring of a phone mixes five minutes and one (`app.go:1842`), so it is outside.

**VoiceLinesProofs.** `Moves` reduces a step of a call to a few kinds of step, of which most
leave everything an invariant reads. `SettingInv` and `PlaceInv` are the heart of
`Overlap`: whoever goes by settings `r` meets words of older ones only if these were begun
before `r` was committed, be they in a file or still being spoken. `HandInv` says that
the file a call is about to play will do although it may be another's by now, and `FileInv`
that a file is no older than what was spoken takes. `JoinInv` relates the three times of
an announcement: its context ends before its timer fires (`JoinLimit < JoinAudioTTL`).
`Answered` rests on `AnswerInv`, by which a call is over only if it is accounted for, and
on `AbandonedRows`, the row of a call whose handler is cut off.

**AmiProofs.** `ProtocolInv` says where the request and Asterisk are together, so the
first frame that ends a list is of that list and the last one. `TrueInv`: what was read
or is on the wire has been so since the question. `StatesInv` and `RoomsInv`: what has
been so all the while is read, on the wire, still to be looked at, or the question has
been refused. At the end of a list nothing is left of the other three.

**Not proved.** Liveness (`EveryChangeGetsAVerdict`) is model-checked only, as the
prover does not reason about `ENABLED`. The four refuted claims of section 6 have
no theorem, naturally.

## 6. Findings

Three statements of `docs/ARCHITECTURE.md` and one comment do not hold of the code. No run
needs a lost call or a crash, only requests of the same host, or calls, that overlap.

- `ReadyKeyIsLive` (`app.go:1306`). A retry of a rotation keeps the key it read at
  the start and retires every other one, also when its own is no longer listed. If
  the rotation finishes meanwhile and the next one installs a newer key, the retry
  deletes the newer key; the party stays ready with a dead key. Line 170 of the
  document says the ready state returns only after the new key appears in the list.
  What does hold is `RetiredKeysStayDead` and, without overlaps, `KeySurvivesRetries`.
- `ReadyLimitIsEnforced` (`app.go:1151`). A retry that posts after the original has
  finished, and after the host has set another amount, makes the provider enforce the
  older one. Line 168 says a retry "cannot race it with a different value". What holds
  is `LimitWasConfirmed`, `PendingAmountIsFinal` and, without overlaps and late calls,
  `LimitSurvivesRetries`.
- `ProjectDiesWithItsParty` (`app.go:2017`). A party deleted during provisioning has
  no project yet when it is read; the project is stored, then deleted with the row,
  and stays active. Line 174 says archival comes first.
- `NoStaleMinute` (`server.go:534`). The time is put in place and stamped with its minute
  in two steps. Between them the file bears the time at which it was written, which may be
  of the next minute, and a call of that minute plays the speech of the minute before. The
  comment at line 531 says a request that crosses a minute boundary must not reuse it.
  What holds is `TimeIsFresh`: the time heard is never older than speech takes.

Met while modelling, and visible in a property that holds rather than in a run that fails:
a login that has verified the old password when a reset commits still gets its session
(`app.go:696` says all old sessions are invalid, and `ResetEndsSessions` names the
exception); words of older settings may be heard when the speech overlaps the change
(`StaleOnlyFromOverlap`); and a weather caller is left in silence, with the application
alive, when a command of the handler fails or the connection's deadline passes
(`server.go:341`, `363`, `374`), as the dialplan sees a success (`render.go:208`), although
`ARCHITECTURE.md:160` says private FastAGI failures receive the service-unavailable
explanation (`SilentOnlyWhenCutOff` names the exception; for the other routes, and for a
call the application never took, the line is right).
The operator's handler does not read the endpoint the dialplan gives it, although
`ARCHITECTURE.md:146` says the app validates it; the line says nothing that depends on it,
and the model has one extension.

## 7. Not modelled, and hazards uncovered

Every hazard is listed with its line in `PROJECT.json`, and those without a property
with the reason:

- a push registration whose credential is rotated between its two steps
  (`phone_mobile.go:147`), and a dead token deleted after it was registered anew
  (`incoming.go:60`): the phone API of the plan;
- the chooser's announcement after a failed reconciliation (`server.go:290`): the chooser;
- windows of two lengths over one table of buckets (`app.go:1842`): the limiter of rings,
  which the hypothesis of `OpenBucketsStay` leaves out;
- orphans deleted at a start (`store.go:248`): repair;
- a temporary file of an announcement that a crash leaves (`join.go:107`): the model has
  it (`WriteTemporary`) and shows it stay, as the sweep at a start looks for the final
  name only, although the comment at `join.go:115` says the sweep closes the gap of a
  crash. `JoinAudioIsKept` speaks of renamed files alone.

Of the modelled parts, conferences beyond the 128 a list takes are exempt from
`AnswersAreComplete`, as the code drops them. A restart forgets the limiter's buckets, so
`GuessesAreBounded` counts from the last start. `DisableLegacyAIConversation` clears a retired
flag at a start and is not modelled. Provisioning formats, the weather client and the radio
catalogue, configuration, metrics, maintenance, pages and templates keep no state that a
protocol could break; the iOS app, Asterisk and the deployment are environment.
