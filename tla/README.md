# GiveTrack in TLA+

GiveTrack (公益捐赠追踪平台) is a donation platform: organizations publish projects, administrators
review them, donors give money to approved projects, and the site shows what each project has raised
and each donor has given. A Go backend (gin, GORM, MySQL 8) serves a React frontend. This directory
holds TLA+ models of its core, TLC instances of them, and machine-checked proofs.

## 1. Inventory

| Part | State | Operations | Interacts through |
|---|---|---|---|
| Donation service `service_donation.go` | none of its own; one transaction per request | `Create`, `MyDonations`, `Certificate` | transaction on a pool connection; rows of `projects`, `users`, `donations` |
| Admin service `service_admin.go` | none | `ReviewProject`, `ReviewOrganization`, pending lists | autocommitted statements on `projects`, `organizations`, `admin_reviews` |
| Auth service `service_auth.go` | none (the role is in the token) | `Register`, `Login`, `GenerateToken`, `ParseToken`, `UpdateProfile` | `users`, `organizations` |
| Project service `service_project.go` | none | `Create`, `CreateUpdate`, `List`, `GetDetail`, `MyProjects` | `projects`, `project_updates`, `organizations` |
| Ranking service `service_ranking.go` | none | rankings and statistics, read only | `users.total_donation` |
| Repositories and models | MySQL tables, row locks, pool | `FindByID`, `Save` of the whole row, `Create` | every service |
| Rate limit `middleware_rate_limit.go` | map of buckets under a mutex | count and refuse | in front of `/login`, `/register` |
| Start and stop `main.go`, `database.go`, `seed.go` | seed rows | `Connect` with retries, `Seed`, graceful shutdown | MySQL, process restarts |
| Frontend session `AuthContext.tsx`, `api/index.ts`, `Login.tsx`, `Register.tsx` | user and token in each tab, both again in localStorage | restore, login, register, logout, 401 interceptor | storage shared by all tabs; late answers of `/auth/me` |
| Frontend pages `Home`, `Ranking`, `Projects`, `Profile`, `Admin`, `CreateProject`, `CreateUpdate` | what was fetched, filter, page number, form state | load, filter, turn the page, review, publish | HTTP with a 10 s timeout; the effects on the user object |
| Project page `ProjectDetail.tsx`, `DonationModal.tsx` | the project shown, the dialog, a donation under way | load, open, close, donate | the same; the donation service |

What is hard here:

* **Read, compute, save the whole row.** Every update of a row is GORM's `Save` of a struct read
  earlier: two handlers that overlap overwrite each other's columns. `Create` does it inside a
  REPEATABLE READ transaction whose reads take no locks, so the transaction does not help.
* **Locks and the pool.** The insert of a donation locks its parent rows shared (foreign keys), the
  saves lock the same rows exclusively: two donations to one project deadlock as a matter of
  course. A transaction keeps its connection throughout, and the pool is bounded.
* **Partial failure and crash.** Reviews and registrations are sequences of autocommitted statements;
  any of them may fail, the process may die between any two, and a COMMIT may succeed while its
  answer is lost.
* **Time.** The limiter reads the clock before it takes its mutex.
* **Answers that come late.** The site cancels no request. Every answer is taken by whatever state the
  component has by then: the session by `getMe`, a list by the last answer to come, the dialog by a
  donation that was sent before it was closed. axios gives up after 10 s, the server does not.
* **Two copies.** Each tab has its user and token in memory, all share those in localStorage, and requests
  carry the stored token of the moment.

What makes each part correct: money is never invented, an acknowledged donation is never lost, the
three records of a donation agree, only reviewed projects are displayed, `completed` means funded and
funded means `completed`, the audit trail is truthful, nothing leaks connections or locks, every
donation is answered; a refused client stays out until its window ends. In the browser: nobody is shown
or acted for who did not log in, a logout is final, a page shows what was chosen last and never what an
earlier page asked for, thanks are only for donations in the books, and waiting ends. `PROJECT.json` lists the
hazards line by line with the properties that cover them.

## 2. Modules

| Module | Models |
|---|---|
| `Store` | tables `projects`, `users`, `donations` (money and status), InnoDB row locks, the connection pool |
| `Donation` | `DonationService.Create`, one action per statement; `DonationHandler.Create`'s answer |
| `Review` | `AdminService.ReviewProject`, three autocommitted statements |
| `Profile` | `AuthService.UpdateProfile`, two autocommitted statements |
| `GiveTrack` | the composition of the four, the crash and restart of the process, fairness, the properties |
| `Ledger` | abstract: what the comment of `Create` promises, donations as single steps, and reviews that leave the money alone |
| `Catalog` | `AuthService.Register`, `AdminService.ReviewOrganization`, `ProjectService.Create`: how accounts, organizations and projects come into being |
| `Cents` | the arithmetic of `Create` below one yuan: float sums and comparison, rounding by the columns |
| `Startup` | `Connect`, `Seed`, the server and its shutdown, over outages, kills and restarts |
| `RateLimit` | the fixed-window limiter with its purge |
| `Session` | `AuthContext`, the axios interceptors, the login and registration forms, over several tabs of a browser |
| `View` | what the pages load and show, with `ProjectService.List` behind the list of projects |
| `Checkout` | `ProjectDetail` with `DonationModal`, in front of a server that takes the steps of `Ledger` |
| `MCGiveTrack`, `MCRateLimit`, `MCView`, `MCCheckout` | instances for TLC |
| `GiveTrackProofs`, `CatalogProofs`, `CentsProofs`, `SessionProofs`, `ViewProofs`, `CheckoutProofs` | theorems about the module each is named after |
| `ProcessProofs` | theorems about `Startup` and `RateLimit` |
| `SumTheorems` | facts about sums over finite sets, used by `GiveTrackProofs` and `CheckoutProofs` |

Two modules are composed through the abstract one: `GiveTrack` implements `Ledger`
(`Atomic == INSTANCE Ledger WITH ...`, in behaviours without stale saves), and `Checkout` takes the
donations of its server from it (`Server == INSTANCE Ledger WITH ...`). What concurrent transactions do to the
books beyond `Ledger` is in `GiveTrack`; what the donor is told is in `Checkout`.

Operators whose comment starts with "Fault" are not part of any specification: each is a plausible bug
of the definition that follows it, kept to show that a property notices it (`PROJECT.json` "mutants").

### How the model corresponds to the code

*Requests.* `don[d]`, `rev[r]` and `prof[q]` are goroutines: a program counter and the values read.
An identifier is reused after its request ends, so a run has any number of requests, a few at a time.

*Reads.* `ReadProject` takes project and user row together: the first SELECT of a REPEATABLE READ
transaction fixes the snapshot that the later `userRepo.FindByID` reads too. The two rows carry all
that the transaction reads and writes of the modelled columns. `target_amount` never changes.

*Writes.* The transaction's writes are applied to the tables at `Commit`, when others can see them;
the row locks taken at each statement keep other writers of those rows away in between. `NewProjectRow` and
`NewTotal` are whole rows computed from the snapshot, as `Save` writes them. A save outside a
transaction (`SaveReview`, `SaveProfile`) is its own short transaction: one step that needs a free
connection and a row no one has locked.

*Locks.* AutoMigrate creates foreign keys from `donations` to `users` and `projects`
(`model_project.go:47-48`), so the INSERT locks both parents shared until the transaction ends. The
model takes both at once. GORM also upserts the preloaded organization of a saved project with
`ON CONFLICT DO NOTHING`; the row locks of that statement are left out: they only add waiting, which
`Abort` already covers by failing at any point.

*Failure.* `Abort` is any statement failing, a deadlock victim, a lock timeout, or BEGIN failing;
`CommitUnacknowledged` is a COMMIT that took effect while the client saw an error; `FailReview`,
`FailProfile` fail any statement of the other two; `Crash` is the process dying at any moment and
being restarted by `restart: unless-stopped` (docker-compose.yml:26). A shutdown that gives up on requests
after ten seconds (`main.go:75-82`) looks the same to the database.

*Money.* In `Store` and what builds on it amounts are whole yuan, as the donation dialog offers them; a float64 adds
and compares those exactly. A value above `MaxDecimal` is an error of the statement (strict mode).
`Cents` takes the fractions the API accepts as well, counted in mills: the request's amount and the new
total are each rounded to a `decimal(14,2)` on their own, half up, while the comparison with the target uses the
float sum. Where that sum lies on the edge, half a cent or the target itself, and is not exact, the model
takes either side. So a project whose sum equals the target may stay open: 0.06 + 0.01 < 0.07 as float64,
while the columns show 0.07 of 0.07. `byProject` and `byUser` are the sums of the rows inserted since
start, compared with totals relative to the opening balance, since the seeded donations of
`seed.go:68-76` do not add up to the seeded totals.

*Start.* `Startup` has one process and the tables that outlive it. Seed's rows after the administrator are
the list `1 .. Demo`: what matters is their order and that row 1 is the first account with role `org`, the
one the next start looks for. Each of `Handlers` is a goroutine that serves a request. All it may do here is to register an
administrator, since Seed's first count sees those; an organization registered while the server runs makes no difference, by then
one is there. `waited` is the time `Shutdown` has been waiting: `Drained` is its return with every request answered,
`GiveUp` the one after its ten seconds (`Grace`), which may come although requests are left.

*Accounts.* In `Catalog` a request to register and the row it may insert share an id; names and addresses are
compared for equality only, as the lookup and the unique indexes do. The role is stored as sent, `admin` included: no `oneof`
restricts it (`handler_auth.go:25`), and the `validate` tag at `service_auth.go:46` is not evaluated.
Of a publication the model keeps the organization's check and the insert; the project it inserts is one of the pending projects `GiveTrack` starts with. Statements may also take effect and lose
their answer. Connections and locks are left out here: every statement stands alone.

*Session.* A user object is the id it was created with and the account whose username and role it shows: that is
what `loadUserInfo` mixes, since it replaces name and role and keeps the rest. A token is its account. A login may be answered
with 401 whatever was typed, since the handler answers so for every error of `Login`, a failing database included.
A task of a page (a click, an answer) runs to its end before another one: one action each. `Load` is a page
load, by the visitor or by the interceptor's `window.location.href`, between which and the load itself the old page
still lives (route `leaving`). Requests under way are a set: two equal ones count as one. Closing a tab is left out: it
only takes requests away. The effects that StrictMode runs twice in development are run once, as in a build.

*View.* `loads` and `posts` are the requests the page waits for; `Parts` says of how many requests, or reads at
the server, a load consists. A list of projects is two reads, `Count` and `Find`, between which the tables may
change. What is in the tables is their version, `clock`, and the number of approved projects per filter,
which is what page numbers depend on. `Fresh` is mounting, `Arrive` the route change with everything it drops: setters of a component
that is gone do nothing. The effects on `[user]` run when the user object changes, so when `getMe` answers (`Refreshed`) and
when a user is there from the start. On the admin and publication pages, which ask for the role first, it is the same:
without the role the page is left at once. `ServeReview` and `Change` advance the version; the project a form creates is
pending and not in the lists watched here. Of a form only its being under way matters. A 401 is `SignOut`; what it does to
storage is `Session`.

*Checkout.* `page.id` is the address, `page.shown` the project in state; they differ while the project of a new
address is loading. `post[n].home` is what the closure of `handleSubmit` keeps: the page it was made on, for whose address
`onSuccess` loads again. `Serve` may come after `Failure`, which is axios giving up. A donation that is refused,
failed or lost at the server is `fate = "refused"` or stays `"waiting"`.

*History variables.* `acked` (what donors were told), `applied` (decisions that reached a row), `halves`, `seeded` of `Startup`,
`entered`, `opened` and `overtaken` of `Session`, `seen` of `Checkout`, and in a view `crossed`, `opened`, `since` and `offered` exist for
the properties only.

## 3. Runs

| Run | Instance | Shows |
|---|---|---|
| `platform` | 2 donations, 2 connections, an open and a pending project, 1 review at a time, 1 profile update, crash | `TypeOK`, `NoLeak`, `NeverOverstated`, `AcknowledgedIsRecorded`, `PendingUntouched`, `DisplayedWasApproved`, `CompletedIsFunded`, `AuditFollowsDecision`, `NeverBackToPending`, `FundedIsCompleted` |
| `fresh` | 2 donations to 2 projects, 2 connections, 1 review, 1 profile update, no stale save (`FreshSpec`) | `BooksBalance`, `DonationsAreAtomic` (refinement of `Ledger`) |
| `liveness` | 2 requests, 2 donors, 2 open projects, 2 connections, fair | `EveryDonationAnswered` |
| `rate_limit` | 5 requests, 2 clients, purge at 2 entries | `RefusedUntilWindowEnds` |
| `catalog` | 2 accounts, 2 reviews at a time, 2 per organization, 1 project, failures and crashes | `TypeOK`, `UniqueAccounts`, `RefusedIsTaken`, `ToldOrganizationExists`, `PublishedAfterApproval`, `AuditFollowsDecision`, `NeverBackToPending` |
| `startup` | 2 retries, 3 seed rows, 2 requests in flight, 2 ticks of waiting, 3 faults | `ServingHasAdmin`, `ReferencesExist`, `GracefulStop`, `StopEnds`, `EventuallyServes` |
| `cents` | 5 donations of 4 mills to a quarter yuan, target half a yuan | `DriftIsBounded`, `AmountFitsStatus` |
| `session` | 2 accounts, 2 tabs, 2 requests in flight | `TypeOK`, `OnlyEntered`, `OneTabConsistent`, `GoneStaysGone` |
| `view` | 2 filters with 2 or 3 projects on pages of 2, 2 loads, 1 submission, 1 change of the tables, fair | `TypeOK`, `NeverOlderThanOpening`, `PageIsCurrent`, `PagesOffered`, `LoadingEnds` |
| `checkout` | 2 projects that lack 2, 2 loads, 2 donations, 1 of others, fair | `ToldWithinBooks`, `OneAtATime`, `SubmitSettles` |
| `lost_update` | violates `BooksBalance` | finding 1 |
| `charged_twice` | violates `FailureMeansNotRecorded` | finding 2 |

*Bounds.* Two transactions suffice for every anomaly here: the lost update, the lock upgrade deadlock
and the pool's exhaustion are between two parties. Targets of 3 over an opening of 1 are reached by one
donation of 2 or two of 1, so donations land below, on and above the target. `MaxRaised` caps what one donor
gives in a behaviour, `MaxReviews` the reviews per project, `MaxTime` the clock; `MaxDecimal` lies where
a legal sequence of donations overflows it. `MaxFaults` caps outages, kills and failing statements: three
are enough to break a start, its successor, and a stop. `Handlers` are the requests in flight, of which one is answered
and one is not; with `Grace` 2 a stop can be early, late or in between; `MaxAdmins` caps the administrators.
`MaxDonations` caps the donations to the one project of `Cents`, whose amounts round up, down, to a half and not at all.
In `catalog` two requests clash by name, by address, by both or not at all; two reviews suffice for an
approval revoked while a publication is under way. In `session` two requests are the late one and the one it races, two
tabs the one that acts and the one that does not know; two accounts are needed to mix. In `view`, with pages of two,
two and three projects are a full page and a page more, so that a list shrinks below the page that is open, and a rounding
error in `totalPages` shows; two loads cross. In `checkout` two donations are the lost one and its repetition, and two projects
the one shown and the one addressed; a project that lacks 2 is completed by two donations of anyone.
Deadlock is checked except in `rate_limit`, whose requests are one-shot and whose clock stops, and in
`cents`, whose project ends completed.

*Fairness* (`FairSpec`). Go runs every runnable goroutine: weak fairness of each statement that does
not wait. `database/sql` serves waiters for a connection in order, and InnoDB grants locks in
order: strong fairness of `Begin` and of the statements that lock. A transaction whose lock wait
never ends is rolled back by deadlock detection or `innodb_lock_wait_timeout`: weak fairness of `Abort`
while it waits, and when a value is out of range. Neither arrivals, failures nor crashes are fair.

In `Startup` the process runs, and Docker restarts it and MySQL (`restart: unless-stopped`): weak fairness of
`Boot`, `Restart` and `MySQLStarts`. Time passes, `Shutdown` returns when it may, and `main` closes the pool: weak fairness of `Stop`,
which `StopEnds` needs. Answers are not fair: a request may run for ever. Signals, kills, outages and requests are not fair.

In `View` and `Checkout` axios ends every request, with its answer or after 10 s with a failure (`api/index.ts:5`): weak fairness
of delivering or failing each load and each submission. Neither the server nor the visitor is fair. `LoadingEnds` is about a
visitor who stays on a page: whoever leaves pages for ever may see only the start of each.

### Findings

1. **Lost update** (`service_donation.go:106`). The comment at line 51 promises that record, project
   amount and donor total are written consistently. Two overlapping donations both record, and the later
   COMMIT overwrites the earlier increment. Reads `FOR UPDATE`, or `SET x = x + ?`, would keep
   the promise: when only unchanged rows are saved it holds (`fresh`).
2. **Charged twice** (`DonationModal.tsx:43`). The alert after ten seconds without an answer says that the donation
   failed and asks for another try. Nothing stops the server from recording it, then or later; the second
   try is a second donation. A key in the request that the server remembers would let it recognise the repetition.

### Observations

What modelling showed beside the findings; no run is about these.

* `ReviewProject` sets the status without looking at the one the row has (`service_admin.go:42`): an approval after
  the completing donation leaves the project with its target reached and open to more, one that races it writes the
  old amount back as well. `FundedIsCompleted` says that nothing else does the former: only an approval of a row that
  was read with its target reached (`Reopened`).
* A donation that read the project before it was rejected writes `approved`, or `completed`, back with its whole-row
  save (`service_donation.go:106`): the rejected project is displayed again.
* `Seed` inserts its rows without a transaction and skips all of them once an organization account exists (`seed.go:28`): a
  first start cut short after it leaves the later demo rows missing for good.
* `Register` inserts the organization in a second statement (`service_auth.go:86`): when it fails, the account stays, without an
  organization and without a way to get one.
* `CreateUpdate.tsx:51` sends `images` as a list, `handler_project.go:126` expects a string: every update sent from the site is
  refused. `View` has only `Refused` for it.
* The test accounts on the login page (`Login.tsx:78-80`) other than the administrator are not among those that `seed.go` creates.
* When loads of the project list or of a project cross, the last answer is shown, also for a filter or an address that was left:
  `PageIsCurrent` speaks of loads that did not cross, and `ToldWithinBooks` of the project shown, not addressed.
* With two tabs, user and token can come apart: a tab acts with the token another one stored, and a late `getMe` can store a
  user beside a token of another account. `OneTabConsistent` needs the single tab.
* In one tab, after a logout and a login as another account, a `getMe` that was sent before puts the old name and role on the new
  user, beside the new token (`AuthContext.tsx:35`), until the next load. `OneTabConsistent` says that there is no other way to
  mix two accounts: without a login that overtook a `getMe` of another account (`overtaken`), id, name, role and token agree.
* Audit records may be written in another order than the updates they tell of (`service_admin.go:75`): of two reviews that overlap
  the last record may disagree with the status.
* `POST /auth/register` takes any role, `admin` included (`handler_auth.go:25`); the site's form offers two.
* A success that comes after the dialog was closed and opened again closes it.
* `types/index.ts` is shadowed by `types.ts` and not used.

## 4. Proofs

Each theorem is for all users, projects, requests, targets, opening balances and pool sizes that satisfy
the named assumptions (`StoreAssumption`, `DonationAssumption`, `ReviewAssumption`,
`CatalogAssumption`, `StartupAssumption`, `CentsAssumption`, `RateLimitAssumption`, `CheckoutAssumption`, `NoneAssumption` of `Session`, and
`AllAssumption`, `LimitAssumption`, `CountsAssumption`, `BoundAssumption`, `RolesAssumption` of `View`).

| Theorem | States | Inductive invariant |
|---|---|---|
| `TypeCorrect` (of six modules), `LimitTypeCorrect` | `TypeOK`, `LimitTypeOK` | itself; in `ProcessProofs` part of the invariant that the other theorems use |
| `TotalsNeverOverstated` | `NeverOverstated` | with `SeenNotOverstated`: a stale value about to be written back is bounded by the records too |
| `PendingProjectsUntouched`, `OnlyApprovedDisplayed`, `ReviewIsFinal` | `PendingUntouched`, `DisplayedWasApproved`, `NeverBackToPending` | with `SeenApproved`: a donation in flight is for a project that left `pending` for good |
| `CompletedMeansFunded` | `CompletedIsFunded` | with `SeenApproved` |
| `AuditIsTrue` (`GiveTrackProofs`) | `AuditFollowsDecision` | with `AuditTrail`: a review about to be recorded was applied |
| `NothingLeaks`, `UpdatesExclude` | `NoLeak`; `WritersExclude`, that two open transactions never both have an update of one row | with `LocksHeld`, `LocksCompatible`: the lock table describes the transactions, and has no conflict |
| `AcknowledgedSurvive` | `AcknowledgedIsRecorded` | `OwedIsRecorded`: beside what a donor was told, the records hold what is committed and will be told, a sum over the requests in flight |
| `FundedProjectsClose` | `FundedIsCompleted` | `TypeOK`; one step per statement that writes a project's row |
| `OnlyStaleWritesLose` | `BooksBalance`, given `NoStaleWrite` | itself: each of the three full-row saves keeps it when the row has not changed since the read |
| `CreateIsAtomicFresh` | `DonationsAreAtomic`, given `NoStaleWrite` | `Reviewed`; `Apply` maps to `Ledger!Donate`, `SaveReview` to `Ledger!Review`, every other step, the save of a fresh profile included, to a stutter |
| `DisjointIsFresh` | `NoStaleWrite`, given `[]Disjoint` | `SeenCurrent`: what each request has read is what the tables hold; one lemma per save that others must not see |
| `AccountsUnique`, `RefusalsHaveReason`, `RegistrationHolds` | `UniqueAccounts`, `RefusedIsTaken`, `ToldOrganizationExists` | with `RowsFollowRequests`: a request's program counter tells which of its rows exist; rows are only added |
| `PublishersWereApproved`, `AuditIsTrue` | `PublishedAfterApproval`, `AuditFollowsDecision` | with `DecisionsApplied`, `PublishersApproved`: what a handler carries past a statement was applied before |
| `ReviewIsFinal` (`CatalogProofs`) | `NeverBackToPending` | `RowsFollowRequests`: an organization is inserted before anyone reviews it |
| `DriftOnlyFromHalves` | `DriftIsBounded` | itself with `TypeOK`; lemma `SumsRange` bounds what one addition can do |
| `StatusFitsAmount` | `AmountFitsStatus` | itself: rounding does not cross a target in whole cents (`RoundingKeepsOrder`) |
| `AdminAtService` | `ServingHasAdmin` | with `AdminFirst`: where Seed is tells whether there is an administrator, and those it inserted are among them |
| `SeedKeepsReferences` | `ReferencesExist` | with `InsertedInOrder`: the rows before `next` are there |
| `StopIsGraceful` | `GracefulStop` | `DrainedOrLate`: the pool is about to be closed only with the requests answered or the time over |
| `NoEarlyRefill` | `RefusedUntilWindowEnds` | `BarredIsFull`: a barred key keeps its full bucket |
| `OnlyEnteredShown` | `OnlyEntered` | with `TypeOK`: `getMe` is never sent without a token, so its answer is about somebody who logged in |
| `LogoutIsFinal` | `GoneStaysGone` | `TypeOK`; one step per answer: all but `Welcome` leave a visitor who is gone gone |
| `OneTabIsConsistent` | `OneTabConsistent` | with `ClosedTabsEmpty`, `Paired` and `Unmerged`: a session in memory is the stored one unless the storage was cleared, and a `getMe` under way is of its account unless it was overtaken |
| `NothingOlder` | `NeverOlderThanOpening` | with `Ages`, `ReviewsHere`: what loads carry is no older than the visit either |
| `SettledPageIsCurrent` | `PageIsCurrent` | with `LoadsFit`: a load that did not cross is the only one, and for what is chosen |
| `PagesAreThere` | `PagesOffered` | with `ListsFit`: while the version a list counted in is current, `totalPages` fits the tables; lemma `PagesHaveProjects` is its arithmetic: page n has projects iff n <= totalPages |
| `NeverTwoAtATime` | `OneAtATime` | `BusyIsOne`: the button is disabled exactly while one donation has the page waiting |
| `ThanksAreBooked` | `ToldWithinBooks` | `RecordedIsBooked`: the donor's books are the sum of what the server recorded, and only that is thanked for |

`NoStaleWrite` says that no handler saves a row that has changed since it read it. Any pool, any overlap, reviews, profile updates,
failures and crashes are then allowed, and the books balance; so finding 1 has this one cause, and reads `FOR UPDATE` in the transaction
of each of the three handlers, which make every save fresh, would repair it. It is an assumption about behaviours, not about the code: the code has
stale saves. `DisjointIsFresh` says where they come from: a stale save takes two requests between read and save of one row at one
time (`Disjoint` forbids just that). Two donations to different projects by different donors, or a review of one project during a
donation to another, never make one, with any number of connections.

*Sums.* Two invariants are about sums over requests. `SumFunctionOnSet` unfolds to a function that is defined by recursion over
the subsets of a set; that such a function exists, is unique and does not depend on the order of the elements is proved in
`SumTheorems` from the library's well-foundedness of strict subsets, each induction as the choice of a minimal counterexample.
From there on `SumRemove`, `SumAdd`, `SumSame` and `SumMonotone` say how sums change with their set.

Only model-checked: the liveness properties `EveryDonationAnswered`, `StopEnds`, `EventuallyServes`, `LoadingEnds` and `SubmitSettles`, since
fairness is about `ENABLED`, which the provers do not handle. Every other property of the passing runs is a theorem.

## 5. Plan

Done: the core, `Catalog`, `Startup`, `Cents`, the browser's side in `Session`, `View` and `Checkout`, and theorems for every safety
property. Next: what the limiter admits at most per window, with stale stamps and the purge; the clamping of limits
(`NormalizePage`) and the progress percentage against reference definitions, which matter to clients other than the site.

## 6. Not modelled

On the server `Login`, the token functions, certificates, rankings and the lists of one's own only read. `CreateUpdate`
compares columns that never change and inserts one row; the site's requests never reach that point. `NormalizePage` is
bypassed by the limits the site sends.

In the browser the tabs within a page (`activeTab`) and the certificate's alert change nothing else, `updateUser` is never
called, and the text fields of forms are the visitor's. `View` has one tab of the browser and takes the changes of user and
token as they come; `Session` has all tabs and no page data.

Passwords and token signatures (cryptography), rendering and styling, CORS, request ids, logging, health,
the generated API description, build files: stateless or declarative. `VolunteerService` has a table
and no code that writes it. Text columns of projects and users are overwritten by the same saves as the
money; the model follows the money and the status only.
