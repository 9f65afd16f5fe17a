# Verification of the ScopeDB CLI

TLA+ modules of `scope`, the ScopeDB command line (Go), model-checked with TLC;
the safety properties of eight of them are also proved with TLAPS. Paths are
relative to `src/`.
`PROJECT.json` lists the components, runs, mutants, the source lines of every
definition, the hazards and the theorems.

- [The system](#the-system)
- [What is hard](#what-is-hard)
- [Modules and code](#modules-and-code)
- [Runs, bounds and what they show](#runs-bounds-and-what-they-show)
- [Disagreements with the documentation](#disagreements-with-the-documentation)
- [Proofs](#proofs)
- [What is not modelled](#what-is-not-modelled)
- [Plan](#plan)

## The system

`scope` is a short-lived process. Several of them run at a time (two terminals, a
script and a user, CI jobs) and meet in three places: the credential record of a
control plane, the lock file beside it, and the servers.

| Component | Code | State | Operations |
|---|---|---|---|
| Credential stores | `internal/credential` | an entry per control URL in the OS keyring and in `credentials.json` (which can also hold a logout marker) | `Load`, `Save`, `Replace`, `Delete` |
| File lock | `internal/filelock` | an exclusive lock on `credentials.lock` | acquire (polled, cancellable), `Close`; freed by a kill |
| Auth manager: login life cycle | `internal/auth/manager.go`, `login.go` | the record's token pair; a login's memory of what it replaced | `RenewableLogin`, `LoadAccess`, `Account`, `refresh`, `SaveLogin`, `RestoreLogin`, `Logout`, `persistLogin` |
| Auth manager: data access | `internal/auth/manager.go`, `workspace.go`, `status.go`, `login.go` | the record's selected workspace and cached data token | `ResolveDataAccess`, `saveDataToken`, `SelectWorkspace`, `RequireWorkspace`, the OIDC exchange |
| Interactive authorization | `login.go`, `internal/oauth`, `controlplane/oauth.go` | a polling loop, or a one-shot listener on 127.0.0.1 | device code flow, loopback flow |
| Catalog commands | `internal/command/catalog*.go` | a plan in memory or in a file | list, read, plan, apply, drop |
| Query execution | `internal/dataplane`, `query.go` | a submitted statement | submit, wait, cancel |
| API keys | `api_key.go` | none (server side) | list, create, revoke by name or ID |
| Configuration | `internal/config` | `config.toml` | load, atomic save |
| Control-plane client | `internal/controlplane` | none | requests, error classification |
| Error mapping | `app.go`, `catalog.go`, `session.go`, `internal/clierror`, `cmd/scope` | none | exit codes, hints, and whether anything is printed |
| Diagnostics, console, output | `doctor.go`, `console.go`, `internal/output` | none | read-only |

How they interact: every command that needs an account calls the auth manager,
which reads the record without the lock and writes it only under the lock. The
manager sees one record; the credential stores implement it over two places. A
query, and a catalog command, asks `ResolveDataAccess` for an endpoint and a
token and then talks to the data plane. `login` runs an authorization flow and
hands its tokens to `persistLogin`, which saves the record, then the
configuration, and undoes the first when the second fails.

## What is hard

For each component, what makes it correct, and what a test would hardly reach.
`PROJECT.json` has the hazards with their lines.

- **Stores.** Two places without a transaction: each access may fail and the
  process may die between two. A login that was replaced or logged out must not
  come back from a stale entry, a successful logout must leave nothing, and the
  unlocked two-step `Load` must not read across a change. Together they have to
  look like one record.
- **Login life cycle.** Refresh tokens work once; reuse ends the login. Requests
  and answers get lost; the server serves the last consumed token again for a
  while, which the retry relies on. No interleaving of refreshes, logins,
  rollbacks and logouts may store older tokens over newer ones, send a consumed
  token, or leave an active grant that nobody can end.
- **Data access.** A query reads the record, makes up to five requests and then
  writes a cached token, all without holding the lock. Meanwhile the login, its
  tokens or the selected workspace may have changed.
- **Catalog.** The user reviews a diff for as long as they like; others change the
  catalog; a commit may be executed after its client has given up; a plan file
  may be applied elsewhere, later and twice.
- **Device code.** Waiting periods against an interval, a cap, lost requests and a
  deadline.
- **Loopback.** Several connections and one outcome, which may come before anybody
  waits for it; leftovers of earlier logins; connections that stay open.
- **Queries.** A wait that is interrupted while the statement finishes, and a
  cancellation that is late, unanswered or only accepted. What is reported decides
  whether the user runs a statement with side effects again.
- **Configuration.** `login` writes `config.toml` after the credentials and without
  their lock. Commands that are killed in between, writes that fail, rollbacks,
  other logins and power losses must neither leave a file that names a server
  nobody logged in to nor a state in which login and logout refer to each other.
- **Errors.** Facts arrive together (an interrupt and the error it causes, a
  timeout and a status); which rule sees them first decides the exit code, the
  hint, and whether the statement ID is printed at all.
- **API keys.** Names that repeat or are other keys' IDs, and a target that must stay
  the confirmed one while selection and login change.

## Modules and code

### CredentialRecord, CredentialSlot, CredentialStores

`CredentialSlot` is the abstract specification: one record; a call sets it to its
target, fails, or (only a new login that cannot be installed) leaves it empty.
`CredentialStores` is `stores.go` with its keyring and file stores. A record is a
login and a revision; the two variables `keyring` and `plaintext` hold a record,
nothing, an unreadable entry, or (file only) the logout marker. `job` is the call
in progress and `step` its next store access: one action per access, with both
outcomes, and `Crash` before any. `reader` is a `Load` without the lock, in its
two accesses. Calls come from where the manager makes them: `CallSave` only
rewrites the visible login, `CallReplace` installs a new one, `CallRestore` the
one `SaveLogin` handed out, `CallDelete` the logout.

The refinement maps the slot to what `Load` would return (`Visible`), so
`SlotSpec` says that no sequence of partial failures shows a third record.

A keyring call that fails leaves the entry as it was. A keyring call that
reports failure after having worked is not modelled.

### LoginRecord, AuthManager

`LoginRecord` is the abstract specification, what the manager promises to the
commands: one record, to which a login is installed once (`Install`), which then
only moves to the next token pair (`Renew`), goes away (`Remove`), or is undone by
the login that installed it while it is still what that login wrote (`Undo`). So a
record that was removed stays removed, a pair never moves back, and the record of
one login never turns into that of another. `LoginRecord` stands above `AuthManager`
as `CredentialSlot` stands below it. The refinement (`LoginRecordSpec`) maps the
record to `slot`, the logins still to come to the grants that were not issued or
whose login has not reached `SaveLogin` (`Installable`), and what may be undone to
what the logins between `SaveLogin` and the end of `RestoreLogin` remember
(`Restorable`).

`AuthManager` has processes (`pc`), the record (`slot`: a token pair, None or
Invalid), the file lock, and the server's view of each grant: issued or ended,
the newest generation, and whether the retry window of the token consumed last
is open. A token pair is its grant and generation. A locked section without a
network call is one step; `refresh` and `Logout`, which call the server under
the lock, take several. Every network step may be answered, refused, lost before
or lost after the server acted. Store failures are those of `CredentialSlot`; a
keyring that cannot be read at `SaveLogin` is `SaveLoginUnreadable`, which replaces
a record it has not seen and remembers none for a rollback.

| Code | Actions |
|---|---|
| `LoadAccess`, `Account` and its retry after a 401 | `StartUse`, `AccountOk`, `AccountUnauthorized`, `AccountError` |
| `refresh`: lock, reload, up to three requests, save | `RefreshBegin`, `RefreshUnavailable`, `SendAnswered`, `SendRefused`, `SendRetried`, `SendFails`, `SaveRefresh`, `RefreshExpired` |
| login: the check for a login, authorization, `SaveLogin`, configuration, `RestoreLogin`, revocation | `StartLogin`, `SecondLogin`, `CheckError`, `Authorize`, `AuthorizeFails`, `SaveLogin`, `SaveLoginUnreadable`, `SaveLoginFails`, `SaveConfig`, `RestoreLogin`, `RestoreFails`, `RevokeIssued` |
| `Logout` | `StartLogout`, `CleanLogout`, `RevokeLogout`, `DeleteLogout` |
| a kill | `Crash` |
| the server and the Console | `Rotates`, `ServesAgain`, `Reuse`, `GrantEnds`, `WindowCloses` |

Abstractions: expiry times are local knowledge, so "the access token is about to
expire" is a free choice, and "the refresh token has expired" is possible only for
a token the server no longer accepts (`MayLapse`). The retry window does not
close while a process is between its first request and its save: three requests
of 15 s and two waits of 1 s fit in the window the retry is designed for. The
history variable `lost` records the rotations that could not be stored, and `adrift`
why a grant may be active with no tokens left here: the user was `"told"` so (by
`auth logout`, the only command that says it), it was `"overwritten"` by a login
that could not read the record, or it is `"stranded"` (answer lost, login killed, or
its revocation failed, which `login.go:521` discards). `NoOrphan` says that there is
no other way; it does not say that the user hears of it.

### WorkspaceAccess

The same record with what `AuthManager` leaves out: the selected workspace and the
cached data token. `state` is each process's snapshot, `target` the workspace a
query resolved, `access` the token it will use. `query` (`ResolveDataAccess` and
`saveDataToken`), `use`, `status` and `login` (`SaveLogin`, `RestoreLogin` when the
configuration cannot be saved, `selectLoginWorkspace`) are
commands over the shared steps `Load`, `Account` and `refresh`; `OpenChanges` is
the Console making workspaces available or scheduling them for deletion. A keyring
that cannot be read has its branch in both places that have one: a query goes on
with the OIDC exchange (`manager.go:360-366`), and a login replaces the record without
its selection (`manager.go:173-185`). Locked
sections are single steps, except the refresh, whose request is made under the
lock; the token life cycle is reduced to a generation that a refresh raises. Through
`Tokens`, an instance of `LoginRecord` over login and generation, `NoRevert` says that
these writers keep the promise `AuthManager` implements, although they write the
record for reasons of their own, and that the selection changes in three cases
only: a command selects, a login starts over a record it could not read, or a
rollback brings back the record that the login replaced, with the selection of
that time. The last two do take away a selection that somebody else may have made.

### CatalogChange

`changeCatalog` for `plan`, `apply` and `drop`: a catalog maps objects to
definitions and has a version per site (endpoint and workspace). A command
resolves the selected site, dry-runs its change (`DryRun`: before, change and
version), saves it as a plan or has it confirmed, and commits with `If-Match`
(`Commits`). `SameTarget` is the check that a saved plan belongs to the resolved
site. The commit is a message in `sent`: the server executes it
(`Applied`), refuses it, or the client gives up first (`TimesOut`) and the request
is executed or lost later (`ExecutedLate`). The catalog service is external:
it honours `If-Match` and refuses data loss that is not allowed. What a command
that gave up reports is `ErrorReports`.

Deleting an object is replacing it by nothing; `drop` without `--all` and `apply`
then differ in nothing the properties see.

### DeviceLogin

`deviceLogin` and `waitForPoll`. Time is counted in units of 5 s, the polling
interval and the step of `slow_down`. A request takes up to `MaxRequest` units and
reaches the server somewhere within them; a wait passes unit by unit, so that
approval, denial and Ctrl+C can fall anywhere. An approval may also fall between
the server's look at the code and the arrival of its answer: `Approve` then dates
it back (`Since`). The CLI's deadline starts up to `Skew` units after the server's.
The variables and formulas that `LoopbackLogin` has too carry other names here
(`phase`, `outcome`, `Never`, `DeviceSpec`), so that one module can prove things
about both.

### LoopbackLogin

`loopbackLogin` with the listener: a handler per connection reads its request
(`Receive`), hands the callback to the channel (`Send`) and answers (`Answer`); the
login opens the browser, waits, judges and exchanges. The channel is the sequence
`results`; the send never waits (`Sent`). A callback carries or lacks this login's
state and this server's issuer, and brings a code, a denial, another error or
nothing; `Judge` is the order in which `login.go:291-302` looks at these. When the
login returns, the listener accepts no more connections. `Close` is the end of
`Shutdown`, which waits for the handlers but gives up after two seconds: handlers may
still run while the command stores the login or reports the error, and are cut
off by `Exit`, the end of the process. So a browser may be left without its page;
no property says otherwise.

### ErrorReports

The way of an error to the user as functions. `DoJSON` and `PostForm` make an error
of an answer (`client.go`, `oauth.go`), `NormalizeError` maps it to an exit code and
hints (`app.go`, with `normalizeCatalogError` and `workspaceSetupError`), and `Prints`
says whether `execute` writes anything (`cmd/scope/main.go`). An error is the set of
the facts that `errors.Is` and `errors.As` find in its chain, so that wrapping is
union and the order of the rules is what is modelled. Messages, request IDs and
"retry after" are left out.

### QueryExecution

`QueryService.Execute` with the reports of `ErrorReports`, around statements of an
external server (`sent`, `lost`, `running`, and the three ends). Data access, the
submission and the wait fail in every way the clients can; `Ends` puts the error
through `NormalizeError` into `exit`, `hints` and `shown`. The user is part of the
model: a statement is run again only when its report says that it had no effect,
and an unconfirmed outcome is looked up first (`Verify`). Network timeouts of the
SDK look like `--timeout` to the code and are the same action (`Interrupt`).

### ApiKeys

`api-key create` and `revoke`, one command among other clients, logins and
selections. The command's access token is the account it belongs to; the server
(external) shows an owner every key and a member their own. Requests and answers
may be lost; what the user is told then is part of the model.

### Configuration

`config.Load` and `config.Save` with the login that calls them: `LoadConfig` resolves
the server from flag, file and default; `CheckPasses`, `CheckRefuses`, `SaveLogin`,
`SaveConfig`, `RestoreLogin`, `RevokeIssued` and `Logout` are the steps of `auth login`
and `auth logout` that touch the file or a server's record. With a keyring that
cannot be read the check passes whatever is stored (`CheckUnreadable`) and the login
replaces it with nothing to put back (`SaveUnread`); `SaveFails` is a `Replace` that
fails before, while or after it writes. `file` is what commands
read, `disk` what it may be after a power loss: the rename is atomic and the
content was synced before it, the directory entry is written out later (`Flush`).
The same holds for `credentials.json`: `PowerLoss` may take any record, or bring back
one that was removed, as a login that the server has ended. Which writes of a
record were safe by then is left open, so the model loses more than a disk does.
The user is part of the model: after a failed or killed command they run it
again with the same flags, and when a login exists they log out first, as the
hint says. The previous record that a login may put back is an expired one:
`SaveLogin` refuses to replace any other that it can read. A file edited by hand
is not modelled.

## Runs, bounds and what they show

| Run | Instance | Shows |
|---|---|---|
| CredentialStores | three logins with two revisions each; either store empty or unreadable at first | `NoRetiredRead`, `NoResurrection`, `CleanDelete`, refinement of `CredentialSlot` |
| AuthManager | two processes, two grants, one rotation per grant | `NoOrphan`, refinement of `LoginRecord` |
| AuthRotations | two processes, one grant, two rotations, fair | `RecordUsable`, `NoReuse`, `LockReleased` |
| WorkspaceAccess | two processes, two workspaces, two logins, one rotation | `AccessMatchesTarget`, `CachedTokenBelongs`, `NoOidcAfterLogin`, `NoRevert` with refinement of `LoginRecord` |
| CatalogChange | two commands, two sites, one object with two definitions, two commits; empty catalogs at first | `PreviewedChange`, `LossAgreed`, `HonestResult`, `PlanStaysOnSite` |
| DeviceLogin | a code of 65 s, announced intervals none, 10 s, 40 s, requests of up to 10 s | `Paced`, `ApprovalNoticed`, `OneLatePoll`, `DeviceTerminates` |
| LoopbackLogin | three connections, six callbacks and another path | `FirstDecides`, `Truthful`, `Terminates` |
| QueryExecution | one statement run up to three times | `AtMostOnce`, `Diagnosed`, `Stops` |
| ApiKeys | two IDs, two names of which one is an ID, two workspaces, owner and member | `RevokesMeant`, `KeepsConfirmed` |
| Configuration | two terminals, two servers, two logins set out for, two faults | `ConfigUsable`, `LoginTakesHold` |
| AuthOverwrite, WorkspaceLogin | as AuthManager, WorkspaceAccess | violated, see below |

The largest, `AuthManager` and `WorkspaceAccess`, have 1.3 and 1.7 million distinct
states, `Configuration` half a million; each takes two to three minutes with two
workers.

Why the bounds are enough for the interesting cases:

- Three logins give a stored one, a copy that should have gone, and a new one.
  Two revisions distinguish a stale copy of the same login.
- One rotation makes a token consumed, a second one makes an older pair that
  could be stored over the newest; two grants are a login and the one that
  replaces it; two processes for every race over the lock (the section is
  exclusive, so a third process adds another one that waits). Proofs cover all
  sizes.
- Two workspaces and two logins are one to start from and one to change to. Two
  definitions and two commits let a catalog change and change back under a
  different version.
- Two faults are a failed write, or a record replaced unread, and the failure, the
  kill or the power loss that meets the rollback; two servers are the one a login
  names and the one the file does. (A check that cannot read the keyring costs no
  fault.)
- The six callbacks are this login's code, denial, other error and missing code,
  a denial that carries another login's state and a code from another issuer.
- 65 s is longer than the shortest wait that the cap of 30 s prevents, with the
  two requests that `ApprovalNoticed` allows for. Intervals
  stay below `MaxInterval` (60 s) and the clock below `Horizon`: no execution of
  the code as it is reaches either.
- Three connections are one whose callback decides, one that fills the channel
  again, and one more that finds it full. Three runs of a statement are one
  more than it takes to run it twice.

Deadlock is checked except for `DeviceLogin`, `LoopbackLogin`,
`QueryExecution` and `Configuration`, where finished commands are the end.
Symmetry is used in safety runs only, over values the specifications never
compare by order.

**Fairness.** `AuthRotations` assumes weak fairness of each process's steps inside
the locked section: every request there is bounded by the HTTP client's timeout
(15 s) and the waits between them by the retry delay, so a process that is not
killed always gets on; no fairness is assumed of the server's answers. A kill
releases the lock by itself. `DeviceLogin` assumes weak fairness of the loop
(requests time out, sleeps end) and none of the user or the server.
`LoopbackLogin` assumes it of the login (its wait has a time limit, its requests too)
and of each handler that has received a request, not of the browser.
`QueryExecution` assumes it of the steps of an interrupted command only: a request
returns when its context ends, and the cancellation has five seconds.
`Configuration` assumes weak fairness of each terminal's command and of its user,
who goes on; faults are bounded in number, everything else that happens to a login
(it lapses, it is refreshed, it is ended elsewhere) may happen or not.

**Mutants.** Operators marked "variant" in the modules are plausible bugs: the same
code with a dropped guard, a missing reload, a bound off by one. They are used
by nothing in the specifications; `PROJECT.json` pairs each with the property
that fails when it takes the place of the definition below it.

## Disagreements with the documentation

1. **`LoginKeepsSelection`** (WorkspaceLogin). `README.md:67` promises that a login
   without `--workspace` keeps an available selection.
   `selectLoginWorkspace` decides from the record it read before the account
   lookup; a workspace that another process selects during the lookup is
   overwritten. A compare in `SelectWorkspace`, as `saveDataToken` has one, would
   close it. `auth status` has the same shape (`status.go:63`), without a promise
   in the documentation.
2. **`LoginPreserved`** (AuthOverwrite). `CHANGELOG.md:55` promises that a login which
   another process completes during the authorization is preserved. `SaveLogin`
   checks that under the lock, but takes a keyring it cannot read for an empty one
   (`manager.go:173`) and goes on to replace what may be there. Nothing tells the user that the
   overwritten grant stays active.

The same branches show in other modules, where the properties name them as the
exceptions they are:

- `docs/connect.md:102` says that a stored login takes precedence over OIDC. A query
  that cannot read the keyring uses OIDC whatever is stored (`manager.go:360-366`).
  What holds is `NoOidcAfterLogin`: once a login was read, the query stays with it.
- `CHANGELOG.md:73` says that a login whose configuration cannot be saved restores the
  previous valid credentials. After `SaveUnread` there is nothing to restore, and the
  rollback deletes the record (`manager.go:212-215`); a `config.toml` that named the
  server then names it without a login. `ConfigUsable` counts a login replaced
  unread among the reasons for that.

## Proofs

Eight modules hold proofs, each `<Module>Proofs` about the module it extends;
`AuthorizationProofs` is about `LoopbackLogin` and `DeviceLogin`. Each proves its
results for every value of the constants from the named assumption of the module
alone (the bounds are natural numbers, `None` and the like are no values of the
sets they are added to); `DeviceAssumption` also says that the bounds `MaxInterval`
and `Horizon` leave room for every announced interval and the last wait. Each
follows the same plan: an inductive invariant `IInv` (`InductiveInvariant`), one
lemma per action or group of actions, and the properties as consequences. Every
safety property that a passing run checks is proved. (`TypeOK` of `ApiKeys` is proved
only; no run checks it.)

| Module | Theorems: `Spec` implies | What makes it inductive |
|---|---|---|
| `AuthManagerProofs` | `TypeOK`, `RecordUsable`, `NoReuse`, `NoOrphan`, `LoginRecordSpec` | see below |
| `CredentialStoresProofs` | `TypeOK`, `NoRetiredRead`, `NoResurrection`, `CleanDelete`, `SlotSpec` | see below |
| `WorkspaceAccessProofs` | `TypeOK`, `AccessMatchesTarget`, `CachedTokenBelongs`, `NoOidcAfterLogin`, `NoRevert` | `HolderOK`: what the lock holder read is still the record. `Owned`: a data token, stored or in a snapshot, belongs to the login it is kept with. `Apart`: two logins that may still be rolled back are different ones, which makes `Restorable` a function. With them every step is a step of `LoginRecord` |
| `CatalogChangeProofs` | `TypeOK`, `PreviewedChange`, `LossAgreed`, `PlanStaysOnSite`, `HonestResult` | `Fresh`: a plan whose version is still the catalog's shows that very catalog, whether a command has it, the plan file, or a request on its way |
| `QueryExecutionProofs` | `TypeOK`, `AtMostOnce`, `Diagnosed` | `OtherRuns`: of the runs before this one none is running or finished. `Final`: what is reported as final is final |
| `ApiKeysProofs` | `TypeOK`, `KeepsConfirmed`, `RevokesMeant` | `ChosenInv`: the key to act on is the only match in what the server listed |
| `AuthorizationProofs` (loopback) | `TypeOK`, `FirstDecides`, `Truthful` | `FirstInv`: until it is taken, the channel holds the first callback and nothing else. `DecidedInv`: a genuine code or denial is what the user decided |
| `AuthorizationProofs` (device) | `DeviceTypeOK`, `Paced`, `OneLatePoll`, `ApprovalNoticed` | `DeviceInv`. `DelayInv`: the wait so far and what is left of it make up the backoff. `LateInv`: who polled after the deadline is done. `NoticeInv`: the next poll is near every approval that can still be noticed |
| `ConfigurationProofs` | `TypeOK`, `ConfigUsable` | see below |

**AuthManager.** None of the three properties is inductive. `IInv` adds

- `LockInv`: the holder of the lock is the one process in a locked section;
- `HeldInv`: what that process read of the record is still there, so that its
  save replaces exactly what it rotated, and the token it saves is the newest;
- `SendInv`: while a token is being sent, a rotation it caused can be fetched
  again. With `LockInv` this is why the retry is not reuse;
- `IssuedInv`: nobody has tokens of a grant that was never issued;
- `PlaceInv`: a grant is in one place only: the record, a login's hands, or the
  record a login may restore, which is dead or known to be lost;
- `KeptInv`: between its save and the end of its command, a login's grant is in
  the record or known to be left behind. This is what makes a rollback safe that
  finds another record.

Most actions touch few variables, so `Effects` and `OthersStep` collect what the
steps of a group leave alone. `PlaceInv`, which relates every process to every
other, has a lemma per way a grant moves: `AuthorizePlaces`, `ReplacePlaces`,
`StorePlaces`, `FailPlaces`, and `StayPlaces` for the steps that move none.

`ProcessesImplementRecord` is the refinement. It needs one more invariant,
`PairInv`: what a login is about to store is the first pair of its grant, and what
a refresh is about to store is the successor of the stored one. `PlaceInv` makes
`Restorable` a function of the grant: nobody else carries it. The lemmas
`Installable...` and `Restorable...` say how a step of one process changes the two
mapped variables; `ReplaceMoves`, `LeaveMoves`, `RestoreMoves`, `AuthorizeMoves` and
`OutsideMoves` map the steps, and `NextMoves` combines them.

**CredentialStores.** `StageInv` says what each step of a call has behind it (before
the file entry is dropped the keyring has the new record, before it is deleted
the keyring is empty), `SaveInv` that a refresh rewrites the visible record where
it is, `RetiredInv` that no retired login is visible, and `ReaderInv` that a reader
who found no file entry will not find a hidden login in the keyring.
`StoresImplementSlot` is the refinement: under the mapping of the slot to what `Load`
would return, every store access is a step of `CredentialSlot` or none.
`NoResurrection` follows from how each access moves what is visible (`NextMoves`).

**Configuration.** `ConfigUsable` is endangered by rollbacks. One puts back the
record that its login replaced, which may be that of a command that is itself about
to put one back, and so on: somebody's login ends, its record expires, the next
login takes its place. At the bottom there may be no record, and a file that names
the server would then name it without a login. `StackInv` says that these records
form a stack (`at` gives each login that may be rolled back its height): the
server's record is that of the highest login, and each login puts back that of the
next lower one (`Linked`); whoever's record is part of it is on it (`Covered`); and
while the lowest stands for no record, nobody who is not on the stack has the server
in the file or is about to write it there, unless that login was ended, replaced
unread or lost (`Unowed`). Each step moves the stack in one of six ways, with a
lemma each: a login pushes (`PushKeeps`), a rollback pops (`PopKeeps`), a command
that keeps its login or gives up drops what lies below it, which can no longer be
put back (`LeaveKeeps`), a logout empties it, and so does a lost record
(`EmptyKeeps`), a login that replaces a record unread starts a new one of its own,
with nothing below (`AloneKeeps`), and all other steps leave it alone (`SameKeeps`).

**Model-checked only.** Liveness (`LockReleased`, `Terminates`, `DeviceTerminates`,
`Stops`, `LoginTakesHold`), since `ENABLED` is out of the prover's reach; and what
the two runs that expect a violation show.

## What is not modelled

- Listing and reading the catalog, the parsing of qualified names and the diff:
  reads and formatting, after which a command holds the values `CatalogChange`
  starts from.
- `doctor`, `console`, `version`, `completion`, listing and rendering: read-only
  or pure formatting.
- The control-plane client's requests and the lock's system calls: their outcomes
  are alternatives of the actions that use them.
- Encoding of requests, bounded reading of answers, origin checks and the
  normalisation of addresses; the configuration file's paths and format.
- The texts of errors, their request IDs and "retry after".
- Several control URLs, outside `Configuration`: each has its own record, and the
  shared file of credentials is rewritten under the lock.

## Plan

What is left, in order:

1. The composition of `AuthManager` with `CredentialStores`.
2. `CatalogName`: parsing and formatting of qualified names as functions against a
   reference definition over bounded inputs.
