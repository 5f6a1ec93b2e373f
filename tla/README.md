# TLA+ specifications of icloud-hme-mng

The server manages iCloud "Hide My Email" aliases of several Apple accounts: it
keeps the accounts and their web sessions in one JSON file, creates and changes
aliases by request and by a scheduled *automation rule*, reads mail through a
pooled IMAP connection, and notifies an operator. It is one Go process; all the
interesting behaviour is between goroutines (requests, the scheduler, the runs
it spawns, timers) that share in-memory maps under mutexes, and between those
maps and the files they are saved to.

This directory holds TLA+ models of that behaviour, TLC configurations that
check them on small instances, and TLAPS proofs of what holds for every size.

    tlc -config automation_run.cfg MCAutomationRun.tla      # check a run
    tlapm AutomationRunProofs.tla                           # check the proofs

`PROJECT.json` lists components, runs, mutants, hazards, findings and theorems,
and maps every definition to the source lines it models.

## 1. The system

| Component | State | Operations | Interacts with | What is hard |
|---|---|---|---|---|
| **Automation rule** `account/automation.go` | per account: configuration (limits, schedule, target) and progress (last and next run, created, failures, daily count, pause reason) | set, record a run, pause, resume, defer, load from file | saved with the account | calendar arithmetic, counters that are reset and cut, flags that must agree |
| **Automation run** `server/alias_automation.go` | local to one goroutine: the rule it read, what it created | look, queue for the lock, look again, list, create one by one, save, unlock, record, book | operation lock, HME client, rule, history, notifier | the rule is read before and written after the lock; overlapping runs, midnight, lost answers, restart |
| **Scheduler** `server/alias_automation.go` | started flag, stop and done channels, poller goroutine | Start, Stop, poll, RunDue | every request that changes rules; runs that switch a rule off | Start reads rules and acts later; Stop waits for a goroutine; runs call both |
| **Alias operations** `server/alias_operations.go` | a lock per account, a cached HME client per account | withClient, withCredentialUpdate, invalidate one or all | account store, HME client | a cached session against the stored one |
| **Account store** `account/manager.go`, `alias_history.go` | accounts in memory and `accounts.json`, creation history | add, remove, reload, store cookies or passwords, record | everything | failed saves, edited file, removal during an operation |
| **Password login** `server/login.go`, `account/manager.go` | challenges waiting for a code, each with a client of its own | start, verify, expire, invalidate | account store, alias operations | replacement and expiry against verification; leaks |
| **HME client** `hme/client.go`, `upstream/error.go` | cookies, service address | validate, list, generate and reserve, deactivate, delete | iCloud | retries of what may have been done, answers that are lost, late or break off |
| **Inbox** `server/inbox_imap_session_pool.go`, `inbox_preview_cache.go` | one IMAP connection per account with an idle timer; a message cache | Use, invalidate, clear, expire; get, set, evict | App password of the account | a connection or cached mail that outlives its credentials |
| **Notifications** `notification/*.go` | settings, bounded queue, worker | notify, update, test, close | runs, session errors | full queue, close during delivery |
| **Platform authentication** `platformauth/store.go`, `server/platform_auth.go` | administrator, login sessions | set up once, log in, log out, expire | every request | concurrent set-up, session limit |
| **Audit log** `auditlog/store.go` | one file a day | append, list, prune | every request | rotation, torn lines |
| **Mail clients** `mail/client.go`, `mail/web_client.go` | the selected mailbox | list, search by recipient, scan instead, pages by UID | inbox pool | a page found one way and the next another, mail arriving and leaving between pages |
| SRP, routing, web interface | none that is shared | conversion and I/O | | not modelled |

How they interact: a request handler or a run takes the *account operation
lock* (`accountOperationLocks`), gets or builds the cached HME client, calls
iCloud, writes the rotated cookies back to the store and releases the lock.
The store has a mutex of its own around each method, which saves the file
before it returns and undoes its change when the save fails. Credential
updates (cookies, password, code) take the same operation lock and drop the
cached client first. Removal and reload change the store first and drop
clients, challenges and connections afterwards. The scheduler polls the rules
and spawns a goroutine for each due rule; requests that change rules call
`Start` again, and so does a run that switches its rule off.

What makes each part correct:

- rule: its flags agree; progress is never lost by an update; the next run lies
  after the last one; what is stored can be loaded again.
- run: never more aliases than the total, target and daily limits allow; one
  due time is executed once; a pause is honoured; everything created is booked.
- scheduler: exactly one poller while rules are enabled; Stop returns; a due
  rule is dealt with in the end.
- sessions: fresher cookies are never overwritten by older ones; a removed
  account is gone for good; no login client leaks; no request hangs.
- inbox: a connection is used by one request at a time and not after its
  credentials changed; pages neither repeat nor skip a message.
- HME client: a call that reports success is right, and what a creation leaves
  behind is bounded however its answers get lost.
- notifications: in order, bounded copies, settings in use are those on disk,
  Close returns.
- platform authentication: one administrator for good, sessions only for him,
  at most 256 of them.
- audit log: an acknowledged record is listed until it expires, and then goes.

## 2. Modules

`AutomationRule` has no variables. It defines the rule as a record and each
method of `account/automation.go` as an operator from rule to rule: `SetRule`,
`RecordRun`, `PauseRule`, `ResumeRule`, `DeferRule`, the daily counter, the
schedule (`NextAllowedAt` over weekdays and the execution window), the back-off
(`NextRunAt`), the number of aliases to create (`CreateCount`) and what the
loader demands (`Loadable`). Time is counted in ticks, `TicksPerDay` to a day;
intervals, window limits and the longest back-off are ticks as well. Label
prefixes, error texts and the recorded last status are left out: nothing
decides on them.

`AutomationRun` extends it with the goroutines of one account. A process is a
scheduled run, a "run now" request or a direct creation. Its phases are the
places where the code lets others in: `wait` (for the operation lock), `list`
and each round of `create` (upstream calls under the lock), `release`
(`withClient` saves the session and unlocks), `record`
(`RecordAliasAutomationRun`, after the lock is released) and `book`
(`RecordAliasCreation`). Around it are the operator (`SetAutomation`, `Pause`,
`Resume`, `Reload`), `Defer`, changes of aliases under the same lock, `Tick`, and with
`Faults` a list whose answer breaks off and is read as empty (`ListBreaksOff`), reserves
whose answer is lost (`Retry`, `CreateFails` with `ghost`), failed saves
(`Release` with `saved = FALSE`, `RecordFails`, `BookFails`) and `Restart`. What becomes
of a reserve without an answer is open: it waits in `late` and takes effect at
once, at any later time (`ArrivesLate`), or never.
`accounts.json` is no variable: every mutator saves before it returns and rolls
back when the save fails, so file and memory agree between steps. `history` has
every batch ever booked (`batches`), the numbers of those the server still has
(`kept`), and how many there were when the file was last read (`loaded`), which
tells the order of the list (`Precedes`): the last booked first, but sorted by their
times up to the last reading. `Book` keeps the first `MaxHistory` of the list.
The account itself stays: its removal is in `AccountSession`, and a run under
way then ends as when its record or its booking fails. The history
variables `cycleMade` and `dayMade` count the aliases of automation that have come
into being at iCloud, `cycleStray` and `dayStray` those of them that nobody was told of,
and `unknown` of a run those that its loop cannot have counted; `made` counts
what the server was told of. `exact` turns false at the named events after which the stored counters
cannot match those counts, and `lost` when a save failed or the server
restarted with uncommitted work.

`AutomationScheduler` models `Start`, `Stop`, the poller and `RunDue` step by
step: `Start` is `ReadList`, then `Ensure` or `Swap`; `Stop` is `Swap`,
`CloseStop`, `WaitDone`. Callers are requests and runs. A run itself is one
step here (`RunEnds`, `RunUnsaved`): its detail is in `AutomationRun`. It may come from
the poller or from a request (`RunNow`), and calls `Start` whenever the rule it has
recorded is not enabled, whoever switched it off. The
history variable `raced` notes that a rule changed while a `Start` acted on the
list it had read.

`AccountSession` models one account's session in four places: memory
(`stored`), `accounts.json` (`file`), the cached client (`cached`) and a
request's hands, with the operation lock, the challenge store (`pending`,
`expired`, `open`), removal and reload. A session is a pair: `gen` counts the
credentials somebody supplied, `rev` the cookie rotations since, so "older" is
an order. Each handler is a sequence of phases; only the operation lock spans
steps, the short mutexes make one step each. `overtaken` marks an operation
that held the lock while a reload replaced the sessions, or entered before that
reload dropped the client. An update reads the account when it begins (`found`)
and stores its result only if the account still exists; a login that asks for a
code does not look again, and what it puts into the challenge store after the
account has gone is noted in `orphans`.

`InboxPool` models reading the mail of one account: `Use` step by step
(`EntryFor`, `Lock`, `Drop`, `Connect`, the operation, and its one retry), the
idle timer and its goroutine (`GrowIdle`, `Fire`, `Expire`, `DropExpired`), and
the requests that change credentials, which store first, then take the entry
out of the pool, retire it behind its user, close the connection and clear the
cache (`Change`, `Forget`, `Retire`, `Disconnect`, `Clear`). The pool's mutex
protects single steps; an entry's mutex is held across upstream calls and is
the `mu` of the entry. A connection and a cached message are known by the
number of the credentials they come from. `idle` stands for "`lastUsed` lies
`idleTTL` back". One message stands for the cache; that it may be lost at any
time (`Evict`) covers its ten minutes and its limits. When IMAP fails a list
falls back to the web interface, which touches neither pool nor cache.

`InboxPaging` is the reading of a mailbox page by page. A message is its UID;
`box` is the mailbox, changed at any moment by `MailArrives` and `Expunge`; `reader`
holds the request under way and the cursor of the next one. `Search` and
`FetchPage` are `listInboxPage` and `findByRecipientPage` with `fetchUIDPage`;
`SearchFindsNothing`, `SearchAll`, `ScanChunk` and `AnswerScan` are
`findByRecipientFallbackPage`, which may replace the search on any page;
`RequestFails` is the handler's fall-back to the web interface, or its refusal:
of a later page always, of the first when the web interface fails as well. UIDs
stay valid throughout, as nothing in the client looks at UIDVALIDITY: a mailbox
that is numbered anew would be another reading.

`HideMyEmail` is `hme/client.go` against the service. A call is a sequence of
requests (`validate`, `list`, `generate`, `reserve`, `deactivate`,
`reactivate`, `delete`, and the `deactivateFirst` and `deleteAgain` of
`Delete`); each attempt ends in one action: `Validated`, `Listed`, `Generated`,
`Confirmed`, `Refused` (a status or an answer without success, with the
verdict of `upstream/error.go`), `Unanswered` (repeated by `request`; the
service has carried it out, will, or never does) or `BrokenOff`. `AfterError`
is what the method does next: another round of `CreateAlias`, the second half
of `Delete`, or the error. The service is external: `alias`, `late` requests
that take effect when the client has given up, and `OtherDevice`.
A `generate` that succeeds without a candidate leads to a reserve of no address;
the service is assumed to refuse it, so that it is one of the `Refused`.
`AliasCreation` is what callers of `CreateAlias` may rely on, as an abstract
specification; `AutomationRun` uses exactly that (`Retry`, `LoseAnswer`, `ArrivesLate`).

`PlatformAuth` is `platformauth/store.go` and the sessions of
`server/platform_auth.go`. A set-up is `BeginSetup` (the handler's look at
`Configured`), `LockSetup` (the second look, after the password was hashed),
`WriteFile` or `WriteFails`, `SetMemory`; a login joins it at `Stamp`
(the expiry, before the session mutex) and `Insert`. `Restart` may come
between any two steps. `Administrator` is the abstract promise: appointed
once, never taken back, nothing known that is not on disk.

`AuditLog` is `auditlog/store.go`: `Record`, `List`, `Cleanup` and the hourly
ticker read the clock (`Begin`), take the mutex (`Lock`), clean file by file
(`CleanFile`, `CleanDone`, `CleanFails`) and append. An append may fail, or the
process stop, anywhere in the line (`AppendFails`), and `Restart` runs `New`
again. A file is a sequence of lines, open when its last newline is missing;
what is appended behind an open line joins it, and neither can be decoded.
`Listing` is what `List` answers. List changes nothing `Cleanup` does not, so
both are the operation `Ticker`.

`Notifier` stands for the webhook and for the mail notifier, which have the
same queue, worker, retries, settings and `Close`. `ReplaceFile` and
`FinishUpdate` are the two halves of `Update`, with `ChmodFails` between them;
`Ask`, then `Enqueue` or `Drop`, is `Notify`; `Take`, `SendSucceeds`,
`SendFails`, `Wait` and `Quit` are the worker; `BeginTest`, `TestSent`,
`TestWait` are `SendTest`; `CloseStep` is the three steps of `Close`. A request that timed
out is assumed to have arrived by then or to be dropped: a webhook that takes a
request in after its client gave up on it could see a notice behind a later one. Settings
are numbered by the updates that supplied them, notices by their place.

`MCAutomationRun` gives `AutomationRun` its configurations for TLC. The modules
named after another with `Proofs` behind it (`AutomationRunProofs`,
`AutomationSchedulerProofs`, `AccountSessionProofs`, `InboxProofs`,
`AuditLogProofs`, `PlatformAuthProofs`, `HideMyEmailProofs`, `NotifierProofs`) hold the proofs. Operators
whose comment says *broken variant* are plausible mistakes in the definition
that follows them; nothing uses them except as mutants, one for every checked
property, which show that the property can fail.

## 3. What is checked

| Run | Instance | States | What it shows |
|---|---|---|---|
| `automation_run` | 2 processes, 2 configurations, 2 run starts, 1 operator action, reload or restart, 1 lost answer, lists may break off, all saves may fail, 2 days of one tick, a history of 1 batch | 1,118,709 | `TotalLimitHonoured`, `LimitsHonoured`, `NoReplay`, `HistoryComplete`, `RunsNeverEnable` |
| `automation_days` | 1 process used for 3 runs over two days, windows and daily limits, 2 operator actions | 1,485,714 | `TypeOK`, `LimitsHonoured` over consecutive runs, `RuleCoherent` with the schedule |
| `pause_bypassed` | 2 processes, 1 operator action | violated | finding 1 |
| `rule_unloadable` | 2 processes | violated | finding 2 |
| `scheduler` | 2 accounts, 1 client, 1 run, 3 poller identities | 75,452 | `TypeOK`, `OnePoller`, `ReconciledUnlessRaced`, `StopReturns`, `DueRuleRuns` |
| `account_session` | 3 requests, 2 challenges, 2 generations, 1 rotation | 82,491 | `TypeOK`, `ChallengesOwned`, `SessionNeverRegresses`, `RemovalFinal`, `RequestsFinish` |
| `inbox_pool` | 3 requests, 3 entry identities, 2 credentials | 237,265 | `TypeOK`, `ConnectionsOwned`, `NothingStale`, `PoolQuiesces` |
| `inbox_paging` | pages of 2, chunks of 3, 5 messages, 1 failed request | 1,660,464 | `TypeOK`, `NoDuplicateNoGap`, `PagingEnds` |
| `hide_my_email` | 2 calls, 2 rounds, 2 attempts, 4 addresses, 3 lost or broken answers | 74,508 | `TypeOK`, `CallsAnswered`, `CreationBounded` |
| `platform_auth` | 2 requests, 2 credentials, 2 sessions that last 2 ticks of 3, 4 tokens | 18,908 | `TypeOK`, `SessionsOwned`, `SessionsBounded`, `AppointedOnce` |
| `audit_log` | 3 records and the ticker, days of 2 hours, retention 2 hours, lists of 2, 4 hours, 2 starts | 239,592 | `TypeOK`, `AcknowledgedListed`, `ExpiredRemoved` |
| `notifier` | 2 callers, queue of 2, 2 attempts, 3 notices, 2 updates, 2 starts | 307,762 | `TypeOK`, `SettingsPersisted`, `DeliveryOrdered`, `AcceptedAttempted`, `CloseReturns` |

The properties, in words:

- `TotalLimitHonoured`: throughout its loop, what a run still has to create
  fits under `max_total_aliases`, although it read the number once. On top come
  at most the aliases the loop cannot know of: those missing from a list that
  broke off (finding 12), and those that come into being during the loop by a
  reserve whose answer was lost.
- `LimitsHonoured`: over any number of runs, of the aliases that automation brings
  into being at iCloud there are never more than the target or, on one day, the
  daily limit, with one more for each whose creation was never answered (it counts
  in the cycle and on the day it appears in) — unless one of
  the events named by `exact` happened. Those events are the honest limits of
  the code: a run that reads the rule before another has recorded, a run in
  flight at midnight or during a change of the rule, a daily limit lowered
  below the count, and progress that was never recorded.
- `RuleCoherent`: enabled, next run, pause reason, target and daily count never
  contradict each other.
- `NoReplay`: a goroutine queued behind a run that has executed and recorded
  the same due time leaves.
- `RunsNeverEnable`: recording never switches a rule on nor replaces the
  operator's configuration.
- `HistoryComplete`: what the server knows it created is in a batch that was booked or still in
  some process's hands, failed saves and restarts apart; and a batch leaves the history only
  for `MaxHistory` (500) others that were booked later or are of a run that began no
  earlier. That is all the code gives: by which of the two orders a batch goes
  depends on when the file was last read (finding 14).
- `OnePoller`: no stop channel is closed twice, the scheduler points to a
  living poller, and any other poller is in the hands of exactly one `Stop`.
- `StopReturns`, `DueRuleRuns`, `ReconciledUnlessRaced`: see the findings for
  the exception.
- `SessionNeverRegresses`: the stored session never goes back, except by an
  operation a reload overtook, and between operations the cached client is
  never behind the store.
- `RemovalFinal`, `ChallengesOwned`, `RequestsFinish`: once a removal is
  answered no client of the account is left, no operation on it is under way and
  no challenge of it is stored, but the challenge of a login that had read the
  account before it was removed (`orphans`, finding 13); nothing brings the account
  back but a reload; no login
  client leaks or is verified twice, every request is answered.
- `ConnectionsOwned`: no connection is left without an owner by overlapping
  invalidations, failures and timers, none is used by two requests or after it
  was closed, and an unused one always has its timer.
- `NothingStale`: once a change of credentials is answered, no connection that
  was opened with the old ones is open and no preview of the old mailbox is
  cached. Whole messages are excepted (finding 6).
- `PoolQuiesces`: no request is sent round the loop of `Use` for ever, and the
  timers close every connection.
- `NoDuplicateNoGap`: no message is shown twice, and none that was there from
  the beginning is left out between pages, although pages are found by search
  or by scan and mail arrives and leaves. `PagingEnds`: there is a last page.
- `CallsAnswered`: every call is answered, and a success is true (`AnswersTrue`): the
  alias was in the state asked for at some moment of the call. `CreationBounded`: the
  refinement of `AliasCreation`.
- `SessionsOwned`, `SessionsBounded`: every session belongs to the
  administrator on disk, also when two set-ups raced; and there are never more
  than the limit. `AppointedOnce`: the refinement of `Administrator`.
- `AcknowledgedListed`: an acknowledged record is listed until it expires or a
  full list of no older ones hides it; only a record whose line was joined to
  another is excepted (finding 7). `ExpiredRemoved`: an expired entry goes.
- `DeliveryOrdered`: no notice arrives behind a later one, and in no more
  copies than attempts. `SettingsPersisted`: what is in use is what a restart
  loads, but for finding 9. `AcceptedAttempted`, `CloseReturns`: an accepted
  notice is tried unless the notifier closes, and Close returns.

**Bounds.** Each bound is a constant named in its module and used in guards
only (`MaxTime`, `MaxRuns`, `MaxChanges`, `MaxMade`, `MaxLost`, `MaxRequests`,
`MaxGen`, `MaxRev`, `MaxSecret`, `MaxUID`, `MaxFailures`, `MaxAddresses`,
`MaxCalls`, `MaxFaults`, `MaxIssued`, `MaxRecords`, `MaxStarts`, `MaxNotices`, `MaxUpdates`). Two processes suffice for the automation, since every
interaction is between one run and one other actor: another run, a direct
creation, the operator, the clock. Configurations are chosen so that limits are
reached: a target of 2 with batches of 2, a refill up to 3 under a daily limit
of 2 (in `automation_days` within half a day), a total of 4 (or 2) with one alias or none at the
start. `MaxHistory` stands for the 500 batches of the code: with 1, the second batch
already drops the first, and a reload lies between them or not; orders of three
and more batches were only simulated (two batches kept, four runs) and are covered by the
proof. `automation_days` asks nothing of the history, which no action reads, and
therefore counts states that differ in it alone as one (`VIEW WithoutHistory`). Three
requests in `account_session` let a removal or reload overtake an operation
while a third queues; the safety properties were also checked with four
requests and three generations (1,084,798 states). Three
requests in `inbox_pool` are a user, one who queues behind it and a change of
credentials; three entry identities always leave one for a new entry. Three poller identities
allow one current poller and two being stopped. A mailbox of five and pages of
two give up to three pages, and chunks of three leave a chunk that straddles a
page. Four addresses are two calls of two rounds, and three faults exhaust the
attempts of one request with one to spare for the next. Two set-ups that race
and two sessions make the table overflow. Retention of one day in hours of two
a day puts the cutoff in the middle of a file and at its edge; three records
are one torn, one that joins it and one that must survive. Three notices fill
the queue of two behind the one being sent. Pure back-off doubling and
weekday arithmetic are covered for all values by the proofs.

**Deadlock** is checked in `platform_auth`, which never rests. Elsewhere it is
not: bounded runs end, and a server without requests rests. That nobody waits
for ever is stated by the liveness properties.

**Fairness.** In `scheduler`, weak fairness for the steps of callers and
pollers is the Go runtime: a goroutine that can run does. Strong fairness for
`Quit` is the random choice of `select` between the ticker and a closed stop
channel; strong fairness for `RunEnds` says that saving a rule does not fail
for ever. In `account_session`, handlers go on once begun (upstream calls have
timeouts), and a waiter passed over is handed the mutex in the end (Go's
starvation mode), which is strong fairness for taking the lock. `inbox_pool`
needs less: as long as some handler or timer can take a step, one does
(requests are finite in number there, so nobody can be passed over for ever).
`inbox_paging` and `hide_my_email` assume that an attempt of a request ends
(every one has a timeout, or the connection is dropped) and that the handler
goes on. In `audit_log` the ticker fires again and again, the mutex is handed
over in the end, and cleaning does not fail for ever. In `notifier` goroutines
go on and a closed stop channel is chosen in the end; that a `Send` returns is
not in `Fairness` but a premise, `SendsReturn`, of the two properties that need
it, because only the webhook has a timeout for it (finding 10). Requests, the
operator and faults are never forced.

## 4. What is proved

Every theorem holds for any values of the constants that the assumptions of the
module allow, so for any number of requests, runs, accounts or messages and any
bounds. In each module `Invariance` states one inductive invariant, `IInv`, with
one lemma per action; the theorems about the checked properties follow from it.
What the invariant adds to the properties is what makes them inductive:

**`AutomationRunProofs`** first proves what the rule's operators do: day
arithmetic, that the next permitted time is never earlier than the time asked
for (`NextAllowedBound`) and that the next run is later than now
(`NextRunLater`), and that each update keeps a coherent rule coherent
(`SetRuleOK`, `RecordRunOK`, `PauseRuleOK`, `ResumeRuleOK`, `DeferRuleOK`,
`ResetDailyCoherent`). Then it proves `TypeCorrect`, `RuleStaysCoherent`,
`TotalLimitAlwaysHonoured`, `NothingReplayed` and `RecordNeverEnables`. The
total limit survives a creation only because nobody else may create or delete
meanwhile, which needs that the lock is held by exactly the process inside
`withClient` (`LockInv`), and that a run enters its loop with nothing created
and leaves it when nothing is left (`RunOK`). What arrives late during the loop, and
what a broken list left out at its beginning, is the `unknown` of that run. A record keeps
`lastRunAt < nextRunAt` only because the next time a run planned lies after its
own start, and no start or last run lies in the future. No replay follows from
coherence: a rule that is due was last run before its due time.

`LimitsAlwaysHonoured` needs a balance (`CountersOK`). Its ghosts count what iCloud
has: `cycleMade` and `dayMade` count every alias of a run, answered or not, and
`cycleStray` and `dayStray` those of them whose answer was lost. While the counters are
exact, one process at most has created aliases and not yet recorded them
(`OneActs`), what it may still create fits into both limits (`ActingFits`), and
the aliases made since the target was set, and today, less the strays, are those the
rule has counted plus those in the hands of that process (`Outstanding`, and `Settled`
when there is none). A stray that appears, at once or late, moves both sides of the
difference alike. The day enters because a run that counts for today began
today (`SameDay`).

`HistoryStaysComplete` says that unless a result was lost, the aliases made are
those in the batches ever booked and those in the hands of runs; and that a batch missing
from the history was replaced (`Replaced`): `MaxHistory` others were booked later
or began no earlier. Booking keeps that because all that stand before the batch it drops
came later in one of the two orders, and a replaced batch stays replaced
(`ReplacedStays`); reading the file again changes the order and drops nothing
(`RereadKeeps`). The first half is a sum over the
runs and one over the batches, folds over finite sets. The theorems of the library on induction take
an operator and cannot be used; `SumUnfolds` and the lemmas around it argue from
a smallest counterexample instead, with the well-foundedness of `<` on the
naturals (`WFMin`), which is why `RunAssumption` says that there are finitely
many runs.

**`AutomationSchedulerProofs`** proves `TypeCorrect`, `SinglePoller`,
`WaitedIsStopped` and `Reconciled`. `OnePoller` needs to know who answers for
a poller that is no longer the current one: a `Stop` has it in hand from the
swap until it has seen it end, and its stop channel is closed while that `Stop`
waits, and only then (`StopsOK`). `ReconciledUnlessRaced` needs `PolledOK`: nobody
is about to swap the poller out while there are enabled rules, and where they
have none, a `Start` is on its way.

**`AccountSessionProofs`** proves `TypeCorrect`, `OneHolder`, `LoginsOwned`, and the
action properties `NeverRegresses` and `RemovalIsFinal`. That a save never puts back
an older session needs the order of all its copies, also where no property looks
(`GensOK`, `OrderOK`): the client is not behind the account, even while it is
used, unless a reload has yet to drop it, and a request that holds the lock
meanwhile has been overtaken, which its save will find out; what an update
commits is newer than what is stored. `RemovalIsFinal` also needs that a challenge
stored while the account is gone is an orphan (`OrphansOK`): a removal clears the
challenges before it is answered, and only a login that had read the account
before stores one afterwards. The lock is held by whom the phases say
(`LockOK`), and a login client has one owner, the store or the verification that
took it (`ChallengesOK`).

**`InboxProofs`** is about `InboxPool` and `InboxPaging`, which share no state; the names
of the specification of `InboxPaging` begin with `Paging` for that reason. Of the pool
it proves `TypeCorrect`, `ConnectionsAlwaysOwned` and
`NothingStaysStale`. The invariant follows an entry out of the pool: it is
retired, and then without a connection, or a request is about to retire it
(`OpenOwned`, `UsedOwned`, `DropsOK`); and it says that what is in the pool was opened
with the stored password, or a request is about to make the pool forget it
(`OpenFresh`, `UsedFresh`). Both are said of the connection in the entry and of
the one a request is opening or using, because a connection enters the entry
only after it was opened. Most actions are one of two general steps, of a
reader on its entry and of a timer, each treated once.

Of the paging it proves `PagingTypeCorrect` and `PagesComplete`. `ShownOK` says that
nothing below the cursor was shown, nothing was shown twice, and nothing owed
above the cursor is missing. While a request is under way, the page is cut from
UIDs that contain everything owed below the cursor, or more than a page of
which are higher than what they leave out (`Covers`); and a scan keeps what
is left of it below what it has found (`ScanOK`). `HighestFull`, `HighestBound` and
their neighbours say how many UIDs "the highest n" are, and that what is left
out lies below them: the reason why the cursor of the next page loses nothing.

**`AuditLogProofs`** proves `TypeCorrect` and `AcknowledgedStaysListed`. The invariant
says that a whole line is that of a record, in the file of its day, and once
(`FilesOK`); that what is in a file was written by an operation that has ended
(`WrittenOK`), so that the next line is new; and that an acknowledged record that
has not expired and was not joined with another line is in a file (`AckedOK`). An
operation cleans by the clock it read before it took the mutex, which is why no
operation is ahead of the clock (`OpsOK`): what it throws out has expired. That a
rewritten file holds exactly the retained lines is `RewrittenOK`, from `PickedOK`
on picking places out of a sequence; what a write adds and spoils is `ExtendedOK`.
The listing itself is the first lines in a strict total order (`InOrderOK`),
and `FirstFull` and `FirstAhead` say that when a record is not among the first
`Limit`, these are `Limit` lines, none of which is older.

**`PlatformAuthProofs`** proves `TypeCorrect`, `OnlyTheAdministratorSignsIn`,
`SessionLimitHonoured` and `KeepsThePromise`, the refinement of `Administrator`. The invariant says that
memory equals the file except between the two steps of the one writer, that
whoever writes found no administrator, and that a request past its set-up or
login presented what is stored. `SessionsOwned` is not inductive without the
last: a session is inserted steps after the credentials were looked at. The
limit needs that making room removes one session from a finite table.

**`HideMyEmailProofs`** proves `TypeCorrect`, `SuccessesAreTrue` and
`CreationKeepsItsPromise`, the refinement of `AliasCreation`. The invariant
counts: addresses offered never exceed `MaxRounds` for each ended
creation and the rounds of the one under way (`BudgetOK`), late requests concern addresses that were offered
(`ServiceOK`), and an address under reservation was not reported before
(`ToldOK`). Each action then maps to `Begin`, `Make`, `Succeed`, `Fail` or a
stutter. Existing aliases only come from addresses within the budget, whenever
their requests take effect; that is why the bound survives answers that arrive
after the call has ended. `AnswersTrue` needs that no result is announced before
the end, and which requests belong to which method (`StepsOK`): what the service
confirmed last is what the method was asked for.

**`NotifierProofs`** proves `TypeCorrect`, `SettingsSurvive` and `InOrder`, the
safety of `Notifier`. `DeliveryOrdered` needs two facts that no run states: a
notice not yet taken has no copy, so what arrives is never behind a later one;
and the copies of the one under way are fewer than its attempt while it is
sent, at most its attempt while it waits. That the head of the queue lies
behind the last notice taken follows from the queue being a gapless interval
of numbers, also after a restart (`QueueOK`).

The assumptions are those the modules name, and TLC evaluates each in a run:
`TimeAssumption` (a day and the back-off limit have at least one tick),
`RunAssumption` (configurations are ones `ValidateAliasAutomation` accepts, the
runs are finitely many), `SchedulerAssumption` (clients and runs are
different, accounts finitely many), `SessionAssumption` (challenges are finitely many),
`InboxAssumption` (there is at least one password), `PagingAssumption` (a page
and a scan have room for at least one message), `PlatformAssumption`,
`HideMyEmailAssumption` and `NotifierAssumption` (limits are natural
numbers, those of attempts positive), `AuditAssumption` (a day has an hour, a List
room for a record, and there is a first start). All say that the null values are not
members and that bounds are natural numbers.

Every invariant and every action property of the passing runs is stated by a
theorem, and so is the safety half of `CallsAnswered` (`AnswersTrue`). Only model-checked is liveness (`StopReturns`, `DueRuleRuns`,
`RequestsFinish`, `PoolQuiesces`, `PagingEnds`, the other half of `CallsAnswered`,
`AcceptedAttempted`, `CloseReturns`, `ExpiredRemoved`), because the prover does
not reason about fairness and ENABLED.

## 5. Findings

The first two have a run that TLC finds violated. The others were met while
modelling: each is an exception that a property of a passing run must name, or
lies in code whose detail the models leave out.

1. **A pause bypassed by "run now"** (`pause_bypassed`). The README promises
   that a manual run obeys the pause. It is tested before the run queues for
   the lock (`alias_automation.go:288`) and not again; a pause in between is
   not honoured.
2. **A rule the loader rejects** (`rule_unloadable`). Overlapping failures
   store a `consecutive_failure` above `max_failure_count`; the loader rejects
   it (`automation.go:256`) and with it the whole `accounts.json`, so the
   server does not start again. Lowering `daily_creation_limit` below today's
   count, or `max_failure_count` below the failures so far, has the same effect.
3. **One due time executed twice.** `alias_automation.go:163` says the recheck
   under the lock avoids duplicate execution. The result is recorded after the
   lock is released (`:424`), so a second goroutine can take the lock in
   between, still find the rule due, and create its aliases too. `exact` names
   it as an exception of `LimitsHonoured`.
4. **An enabled rule nobody polls.** `Start` reads the rules before it takes
   the scheduler's mutex: one that saw no enabled rule can stop the poller
   after another has seen one and returned (`raced`).
5. **Reload against operations.** `reloadConfig` replaces sessions before it
   drops cached clients and without the operation locks, contrary to the order
   `alias_operations.go:106` calls necessary; an operation under way writes its
   old session over the reloaded one (`overtaken`).
6. **Old mail in the cache.** `getInboxMessage` writes the whole message into
   the cache (`server.go:743`) after it has left the pool. When credentials
   change or the account is removed in between, mail of the old mailbox enters
   the cache after it was invalidated and is served until it expires.
7. **A torn line takes its neighbour with it.** `appendEntry`
   (`auditlog/store.go:612`) does not look at the end of the file: behind a
   line without newline the next acknowledged record is lost (`spoiled`).
8. **Damaged files stay.** A log file in which no line can be decoded is never
   rewritten nor removed (`store.go:361`).
9. **Refused settings are loaded by a restart** when `os.Chmod` fails after the
   rename (`email.go:494`, and the same in `webhook.go`) (`refused`).
10. **Close of the mail notifier is not bounded** by the dial timeout
    (`email.go:193`): the SMTP session has no deadline; and the worker's
    `select` may begin a queued delivery after stop.
11. **429 is not retried**, although `API.md:1032` says so
    (`upstream/error.go:71`).
12. **An answer that breaks off is taken for complete** (`client.go:353`). For
    a list that means no aliases and no error, and a run that counts zero
    against `max_total_aliases`. `ListBreaksOff` does so, and `TotalLimitHonoured`
    names the excess: the run's `unknown`.
13. **A challenge stored after the removal.** `startAccountLogin` looks the account up
    before the login at Apple and stores the challenge after it (`login.go:161`). When the
    account is removed in between, the removal finds no challenge to clear, and a
    challenge with an open client of the removed account stays until it expires or is
    verified, which fails (`orphans`).
14. **The order of the history.** `API.md:863` promises the newest batches first, by
    time of creation. A batch carries the start of its run but is put in front
    when the run ends (`alias_history.go:200`); the list is sorted only when the file is
    read. With runs that overlap the order therefore differs before and after a
    restart or reload, and so does the batch that is dropped beyond 500 (`Replaced`).

## 6. Plan

Done: the modules of section 2 and the proofs of section 4. What is left, in
this order:

1. The account file in detail: temporary file, rename, crash between steps,
   `AddAccount`, the App password; and an abstract account register that
   `AccountSession` is shown to implement between reloads.
2. An abstract specification of a session pool (a request works on a connection
   with the stored password or fails), which `InboxPool` is shown to implement.
3. `PreviewCache`: the limits of 500 entries and 50 whole messages, the choice
   of the oldest and the ten minutes.
4. The password and two-factor login of `hme/auth.go` as a protocol against
   the Apple service, composed with the challenge store.

## 7. Not modelled

The web interface, routing and error codes, SRP and the other cryptography,
the login of `hme/auth.go`, the mail client of the web interface, HTML and MIME
conversion, redaction of log entries, HTTP details of one upstream request,
health and static files, and the deployment scripts: they convert or do I/O and
share no state between requests. The read-only preview of a run changes nothing.
Several accounts interact only through the scheduler and the file, so the run
and session modules take one account; a save for another account appears as
`SaveElsewhere`.
