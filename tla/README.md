# A specification of the hotel management system

TLA+ modules, model-checking configurations and machine-checked proofs for the
FastAPI/SQLAlchemy hotel management application in `src/`. Everything is
translated from the code; where a document and the code disagree the model
follows the code. Four of the disagreements are *findings*: a run of its own shows
each, and `PROJECT.json` quotes the document. The others we know of are listed
[beside them](#findings).

Contents: [the system](#the-system) · [modules](#modules) ·
[the front desk](#the-front-desk-model-and-code) ·
[the other components](#the-other-components-model-and-code) · [properties](#properties) ·
[runs](#runs) · [findings](#findings) · [proofs](#proofs) ·
[not modelled](#what-is-not-modelled-and-why) · [plan](#plan)

## The system

One ASGI process serves a JSON API and server-rendered pages. Every request
gets a database session of its own (`get_db`); the handlers are coroutines, so
two requests interleave at every `await` on the database. All durable state is
in one relational database, PostgreSQL in production and SQLite in development.
Components talk only through that database, apart from the failed-login tracker,
which is process memory. There are no background jobs and no messages.

| component | state | operations | interacts with | what is hard | what makes it correct |
|---|---|---|---|---|---|
| reservation lifecycle (`reservation_service.py`) | table `reservations` | create, update, check_in, check_out, cancel, mark_no_show | rooms (reads and writes `status`), payments (`balance`), guests | check-then-act across awaits, partial updates of one row, calendar days passing | no night sold twice; lifecycle respected; one occupant per room; price follows the stay; write-offs by managers |
| booking calendar (`room_repo.py`, migration `c58d31ea7f04`) | derived from `reservations` | `is_available`, `no_double_booking`, `ck_reservation_dates` | lifecycle | half-open ranges, constraint exists on PostgreSQL only | (room, night) belongs to at most one blocking booking |
| housekeeping (`room_service.py`) | `rooms.status` | set_status, update_room | lifecycle (occupants, bookings) | races with check-in and booking | a guest's room is neither AVAILABLE nor out of service; no booking in a room out of service |
| room catalogue (`room_service.py`) | `rooms`, `room_types` | create/update types, create/update/delete rooms, availability search | lifecycle (capacity, upcoming stays) | deletion and shrinking under live bookings | capacity covers every live party |
| payments and folio (`payment_service.py`) | table `payments` | record, refund, folio | lifecycle (status, totals) | two payments against one balance, repeated refunds | paid never exceeds due; a payment is refunded at most once; a known receipt number is not taken again |
| invoices (`invoice_service.py`, `payment_repo.py`) | `invoices`, `invoice_counters` | issue, next_sequence | lifecycle, folio | first invoice of a year, two issues at once | numbers unique, one invoice per stay |
| staff accounts (`auth_service.py`, `user_repo.py`) | table `users` | create, update, deactivate, change password | every role check | two administrators acting on each other | an active administrator always remains |
| sessions and tokens (`deps.py`, `security.py`) | `users.token_version`, password hash | login, logout, authenticate a request | staff accounts | tokens outliving a sign-out | a token from before a sign-out or a password change is refused |
| failed-login tracker (`ratelimit.py`) | ordered dictionary in memory | is_locked, record_failure, reset, evict | login | expiry, eviction at the cap | bounded; the lock falls in time; no wrong password lifts it |
| guest registry (`guest_service.py`) | table `guests` | create, get_or_create, update, delete, anonymise | lifecycle (foreign key) | deletion or erasure under a booking in flight | one document, one guest; no stay lost with a deleted guest |
| reports and dashboard (`report_service.py`) | none | aggregates | everything, read-only | rounding, waivers, day boundaries | figures agree with the folio and the calendar |
| web pages, wiring, seed, migrations | none | rendering, settings, one-off scripts | API | – | – |

The hazards — the places where a test would hardly reach — are listed at their
source lines in `PROJECT.json`, each with the properties that would notice it
going wrong or the reason why none does yet.

## Modules

| module | what it is |
|---|---|
| `HotelDomain` | statuses, nights, overlap, stay-range rule, room charge |
| `RoomNights` | abstract specification: bookings hold (room, night) pairs, none held twice |
| `FrontDesk` | the reservation service and room housekeeping over one database, one action per segment of a handler between two awaits |
| `FrontDeskProperties` | type invariant, invariants, action properties, and `Calendar`, the refinement mapping to `RoomNights` |
| `Reports`, `ReportProperties` | the queries of the dashboard, the board, the report and the availability search over the tables of `FrontDesk`, and how they must agree |
| `Pricing` | VAT and its rounding |
| `Folio`, `FolioProperties` | the payment service and its ledger, with the desk operations that read the balance |
| `InvoiceBook` | abstract specification: numbers entered one after the other, struck out, never used again |
| `Invoicing`, `InvoicingProperties` | issuing with the counter row, its lock and the savepoint; `Book`, the refinement mapping to `InvoiceBook`; fairness |
| `StaffAccounts`, `StaffAccountsProperties` | accounts, row locks of the administrator count, tokens |
| `LoginTracker`, `LoginTrackerProperties` | the bounded, ordered store of failed logins, the login handler, time |
| `RegistryTables` | the tables guests, room types, rooms and bookings share |
| `GuestRegistry`, `RoomCatalog` | the guest service; the type and room operations of the room service |
| `Registry`, `RegistryProperties` | the two composed with booking, walk-in, amendment and the end of a stay |
| `MC*` | model values, symmetry sets and state constraints for TLC, one per component |
| `FrontDeskProofs`, `ReportProofs`, `FolioProofs`, `InvoicingProofs`, `StaffAccountsProofs`, `LoginTrackerProofs`, `RegistryProofs` | the theorems and their TLAPS proofs |
| `SumFacts` | lemmas about sums over finite sets, for the proofs about the folio and the reports |

How they fit together: a component's module holds its state and actions, its
`Properties` module what must hold, its `MC` module the instance for TLC and its
`Proofs` module the proofs. `Reports` reads `FrontDesk`'s state, so the report
properties are checked in every state of the desk. `Folio` and `Registry` repeat
the small part of a reservation they depend on (status and total; guest, room
and party) instead of the whole row, and have the desk operations that touch it
as actions of their own.

## The front desk: model and code

**State.** `booking` is the reservations table (a function from ids to rows; an
id not used yet holds `NoRow`), `room` is the `status` column of `rooms`,
`today` is `date.today()`, and `req[s]` is what the handler of session `s` has
in its local variables at its next await: which operation, how far it is, the
row as it was loaded (`old`) and the row it wants (`new`), and the same for the
room.

**Sessions and the ORM.** A handler decides on the rows it loaded, not on the
rows as they are: `expire_on_commit=False` and the identity map never refresh
them inside a request. At the commit SQLAlchemy emits an `UPDATE` with only the
columns whose value differs from the loaded one, by primary key and with no
version column. `WrittenRow(old, new, current)` says exactly this, and it is
why a concurrent request can be half overwritten and why assigning OCCUPIED to a
room already loaded as OCCUPIED writes nothing. Queries see what is committed
(READ COMMITTED, PostgreSQL's default, which the engine does not change).
`create` is different: `BaseRepository.create` flushes the INSERT itself, so a
constraint violation is raised there and not in `_commit_booking`.

| actions | code |
|---|---|
| `Create`, `CheckAvailable`, `Insert` | `create`: role and date checks and the room load; `_assert_room_free`; flush and commit |
| `Update`, `UpdateRoom`, `CheckAvailable`, `CommitUpdate` | `update`: guards on the loaded row; a moved stay loads its new room; availability; `_commit_booking` |
| `CheckIn`, `CheckInOccupants`, `CommitLifecycle` | `check_in` |
| `CheckOut`, `Cancel`, `Balance`, `CommitLifecycle` | `check_out`, `cancel` and the debt decision |
| `MarkNoShow`, `CommitLifecycle` | `mark_no_show`, whose route admits managers only |
| `SetStatus`, `RoomOccupants`, `RoomBlocking`, `CommitRoom` | `set_status` / `update_room` and `_assert_may_take_out_of_service` |
| `Rollback` | `get_db`'s `except`: client gone, worker stopped, unhandled error; nothing uncommitted survives. Because it is enabled at every await, a crash at any point is covered |
| `Tick` | midnight |

A handler that raises an `AppError` before its first database write leaves no
trace, so a request that is refused on its first load is simply no step; one
refused later is `Refuse`, which returns the session to `Idle`.

**Abstractions.** Days are `0 .. MaxDay`; rates are positive whole numbers;
`waived` is whether `waived_amount` is set; whether a leaving guest owes money
is a free choice in `Balance` (`Folio` has the sum itself); the party-size
check and the guest's existence can only refuse here and are in `Registry`
together with the columns they read. `PENDING` is kept in the status sets as the code
has it, although no handler stores it. The walk-in endpoint
is in `Registry`.

**Bounds.** `Res` bounds how many bookings are ever made, `MaxDay` the calendar,
`Session` the requests in flight, `Requests` the kinds of request a run makes.

**Two specifications.** `Spec` lets any requests interleave. `ApartSpec` is
`Spec` restricted to behaviours in which no two requests in flight are about the
same room; a single session is a special case. It is the assumption under which
the handlers' own checks are enough, and the findings show what happens without
it. `desk_apart` explores `ApartSpec` as `Spec` under `CONSTRAINT RoomsApart`:
the steps that leave it only start a request, and are checked as well. No
fairness is assumed of the desk: its properties are safety properties.

## The other components: model and code

All of them share the conventions of the desk: a request in flight is a record
in `req[s]` with what its handler keeps in local variables, each action is the
code between two awaits, a commit writes the columns that differ from the row
as loaded, and `Rollback` ends a request at any await.

**Folio.** `stay` is what the ledger needs of a reservation (status, net total,
amount waived), `payment` the payments table, `today` the day of `utcnow()`.
`Record`, `RecordReference`, `RecordBalance`, `RecordCommit` are `record`: the
load and the cancelled check, `get_by_reference`, the ceiling, the INSERT.
`Refund`, `RefundReversed`, `RefundCommit` are `refund`. `CheckOut`, `Cancel`,
`LeaveBalance`, `LeaveCommit` are the two departures of the reservation service
with their write-off; `Edit` and `EditCommit` stand for check-in, no-show and
re-pricing, which change what the ledger sees of a reservation. `amount_paid`,
`revenue_between`, `revenue_by_day`, `revenue_trend` and `outstanding_balance`
are the sums, in whole cents, and in hundredths of a cent where the query does not round.
A reference is a text of a small set with `str.strip` as a function on it: the
lookup uses the stripped text while the row stores the one that was typed.

**Invoicing.** `counter[y]` is the committed `last_number` of a year's row (0
for no row), `invoice` the committed invoices, `status` what the operations ask
of a reservation. What a request has written and not committed is in `req`: a
request at `insert` or `commit` holds the row lock of its year's counter.
`Issue` and `CheckExisting` are `issue` up to the number; `Allocate`,
`InsertCounter` and `Retry` are `next_sequence` (the UPDATE, the INSERT in a
savepoint, the second UPDATE after losing it); `InsertInvoice`, `Commit` the
rest. `DeleteStay` is the cascade of a deleted guest, `NewYear` 1 January, and
`Init` starts from any numbers given out before the migration, which sets each
year's row to the largest (`Carried`). `Fairness` is strong fairness of each
request's next step: a request that waits for the counter's lock, or for the
unique index entry of another's uncommitted insert, is enabled again and again
rather than continuously, and PostgreSQL grants a lock in the order of its
queue. No fairness is assumed of starting a request, of rolling back or of the
calendar.

**Staff accounts and tokens.** `user` is the users table, `tokens` every token
ever issued. A request holds the row it loaded and the rows its administrator
count has locked (`locks`); who has to wait for a lock is not enabled. `Login`,
`LoginIssue` are the password check with the account loaded before it;
`Logout`, `LogoutCommit` `revoke_sessions`; `ChangePassword`, `PasswordCommit`
the change, which gives the caller a new token; `Create`, `CreateCommit`,
`Authorised`, `Deactivate`, `Count`, `UpdateEmail`, `UpdateCommit` the
administrator's routes (`deactivate` has a guard of its own and goes on like an
update that sends `is_active` false). A password hash is a number
(`key`) that a change replaces by a fresh one.

**Login tracker.** `entries` is the `OrderedDict` as a sequence, oldest first.
Time is relative: `left` is what a lock has to run and `touched` the age of the
last touch, and `Tick` moves both; that is what makes the state finite without a
last day. `Attempt` is `is_locked` with its clean-up, `Wrong` `record_failure`
after the await on the password check, `Right` `reset`, `Dropped` the
deactivated account, which does neither. `lock_seconds` is a variable only so
that one run covers locks shorter and longer than the TTL. Fairness is weak
fairness of `Tick`: time passes.

**Registry.** `guest`, `type`, `room`, `stay` are the four tables with the
columns their rules read. The reads a handler makes before its commit are one
step, as no property depends on their order; the commit is the other, and the
foreign keys, the unique index on documents and the cascades are in it.
`touches` names the existing rows a request relies on. Guests:
`CreateGuest`, `UpdateGuest`, `DeleteGuest`, `Anonymise` and their commits.
Catalogue: `CreateType`, `UpdateType`, `CreateRoom`, `MoveRoom`, `DeleteRoom` and
theirs. Bookings: `Book`, `WalkIn` with `WalkInRegister` and `WalkInBook` (a
guest committed, then a booking), `Amend`, `Lifecycle`.

**Reports.** Operators only, each a query with its caller's arithmetic, over
`booking`, `room` and `today` of the desk: `arrivals_on`, `departures_on`,
`in_house`, `front_desk`, `occupied_on`, `occupied_per_day`, `occupancy_trend`,
`dashboard`, `total_nights`, `total_revenue`, `_room_type_performance`, and
`find_available`, rooms with the price of the stay, without its optional filters
by type and capacity. Each property is an account of the tables
(`BoardComplete`, `NightsOneAccount`, `RevenueOneAccount`, `SearchOneAccount`)
that the run looks at while no request is in flight (`Quiet`); with one session
the tables change only when a request ends, so no table state is missed. The
proofs need no `Quiet`: the accounts hold at every moment.

## Properties

| property | says | checked under | proved |
|---|---|---|---|
| `NoDoubleBooking` | no two blocking bookings share a room and a night | one request at a time without the constraint | `Spec` with the constraint; `ApartSpec` without it |
| `ImplementsRoomNights` | every step holds one free stay, releases one, or is invisible to the calendar | `Spec` with the constraint | the same |
| `StaysHaveNights` | partial edits never add up to an empty stay | `Spec` | the same |
| `PriceMatchesStay` | stored total = stored rate × stored nights | one request at a time | `ApartSpec`: `PriceFollowsStay` |
| `HistoryIsFixed` | room, dates and total of a stay past editing never change | one request at a time | `ApartSpec`: `HistoryHolds` |
| `OneOccupantPerRoom` | at most one checked-in stay per room, same-day turnover included | `ApartSpec` | `OneOccupant` |
| `GuestRoomInUse` | the room of a checked-in guest is neither available nor out of service | `ApartSpec` | `GuestKeepsRoom` |
| `NoBookingInMaintenance` | no blocking booking in a room out of service | `ApartSpec` | `NothingSoldInMaintenance` |
| `LifecycleRespected` | statuses change only along the lifecycle | `ApartSpec` | `LifecycleHolds` |
| `RoomFollowsGuest` | OCCUPIED at check-in, CLEANING at departure | `ApartSpec` | `RoomFollows` |
| `WriteOffsByManager` | in-house cancellations and waivers take effect in a manager's commit | `ApartSpec` | `ManagersWriteOff` |
| `LostRaceIsConflict` | a booking that loses a race is refused, not answered 500 | not at all: finding 1 | – |
| `OverdueKeepsRoom` | nobody is sold, for tonight, a room that a stay past its check-out date still has | not at all: finding 4 | – |
| `NobodyDisappears` | whoever keeps a room from being offered for tonight, or still has a room that was sold for tonight, is on the board, however overdue | one request at a time | `ApartSpec`: `BoardShowsEverybody` |
| `NightsReconcile` | chart, dashboard and report count the same nights, never more than are for sale | one request at a time | `ApartSpec`: `NightsAgree` |
| `ReportAddsUp` | adjacent periods, room types and all days add up to the headline and the stored charges | one request at a time | `ApartSpec`: `RevenueAgrees` |
| `SearchMatchesBooking` | the search offers no room out of service or with a night booked, misses no other that nobody holds beyond a stay's dates, and asks the price a booking would store | one request at a time | `Spec`: `SearchAgrees` |
| `KnownReceiptRefused` | a number that is on a stay's ledger without blanks is not recorded there again, however it is typed | one request at a time | `ApartSpec`: `KnownReceipts` |
| `RefundedAtMostOnce` | a payment has at most one counter-entry | one request at a time | `ApartSpec` |
| `NeverOverpaid` | a payment never takes the stay above what it costs with VAT | one request at a time | `ApartSpec`: `PaidWithinBill` |
| `DepartsSettledOrWaived` | who leaves has paid or has all that is missing written off | one request at a time | `ApartSpec`: `DepartsSettled` |
| `CashBooksAgree` | the daily series adds up to the headline, and that to what guests paid | one request at a time | `Spec`: `BooksAgree` |
| `DashboardAgreesWithFolios` | the outstanding total is the sum of the folios up to half a cent per stay and half for the sum | one request at a time | `Spec`: `DashboardNear` |
| `NumbersUnique` | no number twice, none above the counter, who took one has the next and holds the row alone | `Spec` | the same |
| `ImplementsInvoiceBook` | every step enters one invoice under the next number, strikes one out, or is invisible | `Spec` | the same |
| `RequestsAnswered` | every issue request is answered, lock waiters and losers included | `Spec` with its fairness | – |
| `AnAdminRemains` | an active administrator exists | no two requests changing one account | the same (`ApartSpec`) |
| `EmailsUnique` | one address in any case is one account | `ApartSpec` | `AddressesUnique` |
| `RevokedStaysRevoked` | a token that a sign-out or a new password ended never matches again | `ApartSpec` | `SignOutIsFinal` |
| `OldestFirst` | the store is in the order of the last touch | `Spec` | `Spec`: `StoreInOrder` |
| `LockInTime` | an address the store remembers is locked from the threshold's failure on, not before; beyond it count only logins already past the check, one each | `Spec` | `Spec`: `LocksFall` |
| `LockHolds` | only time, a right password in flight, or a failure elsewhere that pushes it, the oldest, out of a full store of live entries lifts a lock | `Spec` | `Spec`: `LocksLast` |
| `LockEnds` | a lock ends whatever is submitted | `Spec` with its fairness | – |
| `DocumentsUnique` | one document, one guest, placeholders of erased guests included | requests that rely on different rows | `Spec` |
| `HistoryNeverVanishes` | a stay and the guest it belongs to never disappear | `ApartSpec` | `HistoryStays` |
| `PartiesFit` | every live party fits its room's type | `ApartSpec` | `EveryPartyFits` |

The `TypeOK` of the desk also bounds every stored price by its column, that of
the folio says that a refund in flight is about a settled payment, that of the
tracker bounds the store, and that of the registry includes the foreign keys;
those are the parts of them worth the run. All are proved (`TypeCorrect`,
`LedgerTyped`, `InvoicingTyped`, `AccountsTyped`, `StoreBounded`,
`NothingDangles`).

## Runs

`tlc -workers 2 -config <run>.cfg <MC module>` in this directory.

| run | module | instance | question |
|---|---|---|---|
| `desk_serial` | `MCFrontDesk` | 1 session, 2 bookings, 2 rooms of different types, 4 days, stays of up to 2 nights, 2 rates, price ceiling 3, no constraint; no no-shows | do the handlers' own checks suffice when requests do not overlap, and do all screens give one account, of stays past their dates too? |
| `desk_apart` | `MCFrontDesk` | a manager and a receptionist, 2 rooms, 2 bookings, 3 days, stays of 1 night, every kind of request, no constraint | do the rules about guests, rooms and roles survive concurrency between rooms? |
| `desk_moves` | `MCFrontDesk` | 2 sessions, 2 rooms, 2 bookings, create, update and cancel, stays of up to 2 nights, constraint on | does the desk implement the abstract calendar under any interleaving? |
| `folio` | `MCFolio` | 1 session, 2 stays with charges of 25 or 50 cents at 18 % VAT, 3 payment rows of 29 cents, 2 days, a receipt number typed with and without a blank | is money taken and returned once, and do all figures agree? |
| `invoices` | `MCInvoicing` | 2 sessions, 2 stays, 2 years, numbers up to 2 in use before the migration | does numbering implement the invoice book, and is everybody answered? |
| `accounts` | `MCStaffAccounts` | 2 sessions, 2 accounts, 2 sign-outs, 1 new password each, 3 tokens, an address in two cases | does an administrator remain, and does revoking last? |
| `login` | `MCLoginTracker` | 2 sessions, 3 addresses, a store of 2, threshold 3, TTL 2, locks of 1 and 3 | does the lock fall in time, hold and end? |
| `registry` | `MCRegistry` | 2 sessions, 2 guests, 2 document types, 2 room types, 1 room, 1 stay, capacities 1 and 2 | do references, documents, capacities and history survive? |
| `lost_race_is_500`, `two_occupants`, `in_house_cancel`, `overdue_room_sold` | `MCFrontDesk` | the smallest instance with the requests concerned | the four findings: TLC finds each violation |

**Why the bounds are enough.** Two of each thing: each property relates at most
two bookings, two sessions, two payments or a row and the one it refers to, and
a rule that breaks with more breaks for some such pair. Stays of up to two
nights over the days 0 to 2 give every relative position of two ranges,
same-day turnover and partial overlap included; `desk_apart` needs only the
turnover. `desk_serial` has a day more, as a stay that ended before today and
another that begins today need days before and after. The price ceiling of 3 makes 2 nights at rate 2 too expensive, so the
refusal happens. In `folio` 25 cents owe 29.5 cents, a half that must go to the
even cent, 50 owe 59; one payment of 29 leaves a cent, two of 29 exceed the
smaller bill, and three rows hold a payment, its refund and another payment. Two
stays are what a sum per stay and a sum of all differ by. In `login` a store of two under three
addresses makes eviction happen, and locks on both sides of the TTL decide
whether expiry or the lock ends first. In `accounts` two
administrators can act on each other, or on themselves while the other row is
being created, which is all that two requests at once can do to each other; the
proof covers any number. In `registry` two
guests are what a document clash needs and two types what a move needs; one
room and one stay suffice because no rule relates two rooms or two stays (the
maximum over parties of `largest_party_for_type` is a quantifier here).

**State constraints.** `RoomsApart` (`desk_apart`) and `Apart` (`registry`) say that
no two requests in flight rely on one row, `TargetsApart` (`accounts`) that no
two are to change one account, while any number log in to it.
They are assumptions on concurrency, not bounds: without them the properties
checked there fail, as findings 2 and 3 and the list below show. TLC still
checks the states the constraint cuts off, and a step that leaves it only starts
a request. `BeforeLastDay` (`desk_moves`) is a bound: on the last day no stay of
the instance can begin. `FewPending`, `FirstDay` and `FewBlanks` (`folio`) are bounds: only the first row
may be a pending payment, followed by one row more; the first row is written on
the first of the two days; only the second row has a receipt with a blank. `Recordable` leaves out recording a payment directly as
refunded or failed, which is no movement of money, like pending.

**Symmetry.** Values of equal standing are permuted in the runs that check only
invariants and step properties, all symmetric in them; `invoices` and `login`,
which check liveness, use none.

**Fairness** is assumed in two places only and justified where the module is
described: strong fairness of a running issue request (PostgreSQL's lock queue)
and weak fairness of time.

`CHECK_DEADLOCK FALSE` is given where a bound or a restricted set of requests
lets the system run out of things to do: every row used, the last day or year
reached, the last token issued.

Every property of a passing run has a mutant in `PROJECT.json`: a plausible bug
in one definition (the alternative stands beside its original, as
`<definition>_<what is wrong>`) under which the same run finds the property
violated.

## Findings

1. **A lost race is answered 500** (`lost_race_is_500`). The constraint fires in
   the flush inside `BaseRepository.create`, before `_commit_booking`'s `try`.
2. **Two occupants** (`two_occupants`). Two check-ins on a same-day turnover both
   see an empty room; the calendar constraint cannot object, as nights do not overlap.
3. **A receptionist cancels an in-house stay** (`in_house_cancel`). `cancel`
   judges the row it loaded; a check-in may commit in between. No manager, no
   balance check, and the room stays OCCUPIED.
4. **The room of an overdue stay is sold** (`overdue_room_sold`). The README says
   that a guest past the check-out date and a booking past its dates "both still
   hold their room", and a test that such a room cannot be sold. `is_available`
   and `find_available` compare stored dates only, so it is offered and booked
   for tonight. The board shows both stays (`NobodyDisappears`), and the second
   check-in is refused while the first guest is in the house.

Behaviours the models have and the runs above do not isolate. They are why a
property is checked under an assumption; each was seen in a counterexample to
the property without it, or in the code while modelling it.

* Two payments at once on one stay exceed its balance; two refunds at once of
  one payment return it twice (nothing in the schema forbids the second
  counter-entry). A refund that commits between the balance and the check-out
  leaves a debt nobody waived.
* A room that is booked while a manager takes it out of service ends up in
  maintenance with a live booking, each having read before the other commits;
  `models/room.py:74` says that such a room "can never be sold".
* `record` looks a reference up stripped and stores it as typed. A number stored
  with a blank is never found, and the unique constraint compares the stored
  texts: `R ` and then `R` are two payments, against `payment_service.py:39-40`
  and `models/payment.py:46-48` ("one movement of money"). What holds is
  `KnownReceiptRefused`. A second empty reference, and any other duplicate that
  the lookup misses and that is typed the same, meets the constraint and is
  answered 500. A payment whose own reference is `REFUND-X` blocks the refund of
  payment `X`.
* A running lock is evicted when failures at other addresses fill the tracker.
  `tests/test_security.py:491` ("must not throw away a lock that is doing its
  job") and `audit-2026-08-19-architecture.md:181-182` say otherwise; that test
  keeps the entry young by recording failures on it, while `authenticate` refuses
  a locked address unrecorded. The comment in `_evict` accepts the eviction.
  `LockHolds` says that it takes the oldest entry of a full store only.
* The loser of two issues of one invoice is answered 500, although
  `routers/api/payments.py:63` calls the route idempotent. A number that is
  rolled back is given out again: `payment_repo.py:140-142` expects gaps that
  do not appear.
* On SQLite, which has no row locks, two administrators can demote each other.
  With locks the same needs a target that was promoted after the request loaded it.
  Two sign-outs at once add one to `token_version`. A reactivated account's old
  tokens are good again, as deactivation changes neither key nor version.
* A guest deletion that counted before a booking committed takes the booking
  along; a booking for a guest erased meanwhile is accepted. A change of the
  document type alone is not looked up and meets the unique constraint (500).
  Deleting a room with finished stays only fails on the foreign key (500).
* The report fetches stays that end on the first day of its window; they add no
  night but count as a booking. The occupancy chart counts confirmed and in-house
  stays only, so its past days lose the guests who have left.
* One room whose price for the nights asked exceeds the ceiling makes the whole
  availability search fail: `accommodation_charge` raises for it.
* A stay re-priced after its invoice was issued: the PDF prints the live folio,
  the invoice row keeps its amounts.
* Payments are dated by `utcnow()`, periods are asked for in days of
  `date.today()`. The model has one clock; where the server's zone is not UTC the
  two disagree for some hours of each day.

## Proofs

`tlapm <module>.tla` for each of the seven `*Proofs` modules and for `SumFacts`.
Assumptions are the `ASSUME`s on constants of the modules they extend, which TLC
evaluates on every run. Sets of rooms, bookings, sessions, accounts, guests are
arbitrary; they are assumed finite only where they are counted or summed over:
`Stay` in `Folio`, `Room` and `Res` in `Reports`, `Session` in `LoginTracker`.
Each invariant proof has one lemma per action, or per kind of effect.

**Desk** (`FrontDeskProofs`)

* `TypeCorrect`: `Spec => []TypeOK`. Not inductive alone: a commit merges into
  the row its request loaded, so `LoadedExists` — a request that will write to a
  reservation has one to write to — is carried along (`TypeInv`).
* `StaysAlwaysHaveNights`: `Spec => []StaysHaveNights`. `StayInv` adds what the
  requests in flight plan: a create request carries a checked range, a lifecycle
  request leaves room and dates alone, so the ORM writes neither; an update is
  judged by the database on the merged row. The key lemma, `NextTableStep`,
  says every step leaves the table alone or writes one row that satisfies both
  constraints.
* `NeverDoubleBooked`: with the constraint, `Spec => []NoDoubleBooking`. The
  proof uses nothing about `is_available`: the check gives the clerk a message,
  the constraint gives the guarantee.
* `DeskImplementsRoomNights`: with the constraint, `Spec => Calendar!Spec`; a
  written row with a blocking status is a `Hold`, any other a `Release`.
* `CalendarSound`: whatever implements the abstract calendar, as the desk does,
  never gives a night to two bookings.
* Under `ApartSpec`, with or without the constraint: `OneOccupant`,
  `GuestKeepsRoom`, `NothingSoldInMaintenance`, `PriceFollowsStay`,
  `CheckSuffices`, and the step properties `LifecycleHolds`, `HistoryHolds`,
  `RoomFollows`, `ManagersWriteOff`. None of them is inductive: what a commit
  writes is right because of what its request was told some awaits ago.
  `RequestsRely` says for each kind of request and stage what that is (the room
  is empty, nothing blocks it, the nights are free, the rows are as loaded) and
  that it is still so. A request's own steps establish it; `OthersRely` shows
  that a commit about other rooms leaves it alone, which is where `RoomsApart`
  is used, and only there. The five facts about the tables (`TablesAgree`) are
  proved together, as a commit needs some of them to keep the others: a stay
  edited without new dates is clear of the others because it was before.
  `CheckSuffices` complements `NeverDoubleBooked`: for the calendar either the
  constraint or requests that keep apart is enough; for the occupants of a room
  there is no constraint, and requests that meet there are finding 2.

**Sums** (`SumFacts`)

`SumFunctionOnSet` is a fold, a recursion over subsets, and the library's
induction theorems cannot be used. Each lemma instead takes the set of subsets
for which it would fail; strict inclusion below a finite set is well-founded, so
there is a smallest one (`LeastSubset`), and one unfolding of the fold refutes
it. From these: a sum does not depend on the order (`SumFirst`), adds over
disjoint sets (`SumUnion`) and over values (`SumPlus`), may be grouped by a key
(`SumByKey`) and counted along either side of a relation (`CountTwice`), and two
sums differ by no more than their terms do (`SumNear`).

**Folio** (`FolioProofs`)

* `LedgerTyped`: `Spec => []TypeOK`. `LedgerInv` adds what the rows of the table
  are (`RowsSound`). `StepIsDone` shows once that a step goes on with its request,
  appends one row or writes one reservation; the other proofs start from that.
* `BooksAgree` and `DashboardNear` under `Spec`: both follow from `LedgerInv`
  alone. The figures are sums of the same rows grouped by day and by stay; for
  the dashboard, each stay's share is within half a cent of its folio, clamping
  included (`OwedNear`), and `SumNear` adds that up.
* `RefundsOnce`, `KnownReceipts`, `PaidWithinBill`, `DepartsSettled` under `ApartSpec`. `ApartInv`
  adds to `LedgerInv` what each request in flight relies on (`Rely`): the payment
  it reverses has no counter-entry, no row carries the number it looked up, the
  amount is within the balance, the reservation is as loaded, the debt is what it
  asked about. `KnownReceipts` also needs that rows are entered one after the
  other (`InOrder`), so that the lookup has seen all rows before its own. True when it asked,
  and kept because nobody else is at work on that stay (`RelyLasts`).

**Reports** (`ReportProofs`)

The accounts follow from what `FrontDeskProofs` knows of the tables, the bookings
being typed with a night each (`StayInv`), not double booked, priced by the stay
and not in a room out of service (`TablesAgree`).

* `SearchAgrees`: `Spec`, constraint or not. Two ranges overlap exactly if they
  have a night in common, and the search multiplies as `create` does.
* `BoardShowsEverybody`: `ApartSpec`. A night that is taken belongs to one stay
  (`NoDoubleBooking`), so whoever else has the room has no night left there: a
  guest who is due to leave, or a booking nobody arrived for. It needs one thing
  more: a guest in the house has arrived. That is `ArrivalInv`; a check-in in
  flight carries it from its date guard to its commit, across edits of other
  bookings and midnight.
* `NightsAgree`: `ApartSpec`. The chart counts rooms by the day, the report
  nights by the stay: as no two stays share a night of a room, both count the
  pairs of a stay and a night of the window (`CountTwice`).
* `RevenueAgrees`: `ApartSpec`, as it needs the stored charge to be rate times
  nights. The nights of a window split at any day (`WindowNights`), and the table
  of room types groups the stays of the headline by the type of their room.

**Invoices** (`InvoicingProofs`)

* `InvoicingTyped`, `NumbersNeverRepeat`, `IssuingImplementsBook`. The invariant
  is `BookInv`: types, `NumbersUnique`, and `CommitsAlone` (who is at `commit` is
  alone at it for its reservation, which has no invoice yet and is still there).
  `NumbersUnique` alone is not inductive: a commit enters the invoice on the
  strength of what was checked one step earlier.

**Accounts** (`StaffAccountsProofs`)

* `AccountsTyped`, `AdministratorRemains` under `ApartSpec`. `AdminInv` says that
  the row a request loaded is still the row (`RowsFresh`), that a request about
  to take an administrator away holds locks on active administrators other than its target
  (`LocksHeld`), that a new account's row is still free (`Creating`), and that
  targets differ. A commit that takes one away needs the row's lock; whoever
  would take the last one has locked the other's row, so the two cannot both go on.
* `SignOutIsFinal`: `ApartSpec => RevokedStaysRevoked`. `RevocationInv` adds that
  no token and no loaded row is ahead of its account's key and version, and that
  a request about to change them knows them as they are. Keys and versions only
  grow, so a token that is behind stays behind, and a login that was in flight
  can only produce one that is.
* `AddressesUnique`: `ApartSpec => []EmailsUnique`, from the unique index at the
  two writes of an address and its being stored normalised (`EmailsApart`).

**Tracker** (`LoginTrackerProofs`)

* `StoreBounded`, `StoreInOrder`, `LocksFall`: `Spec => []TypeOK`,
  `[]OldestFirst`, `[]LockInTime`. `LockInTime` is not inductive: nothing in it
  says why a request in flight cannot add to a count again and again.
  `TrackerInv` has `GuessesLeft` and `LocksEarned` instead: at or above the
  threshold, and only there, an entry has a lock, running or run out, and its
  count and the logins in flight at its address together stay below the bound. A
  wrong password turns one of these logins into one failure; a new login at such
  an address is refused, or `is_locked` has forgotten the entry. The theorem is
  about what the store remembers: guesses that eviction or expiry forgot are not
  in any count, and an address can be tried again after that without a lock.
* `LocksLast`: `Spec => LockHolds`, one lemma for each action that could lift a
  lock. A failure at the locked address moves the lock's end and does not lift it
  (`WrongLocks`); one elsewhere can, and `LockHolds` says when.
  `EvictTyped` has the heart of it: eviction drops at most one entry beyond the
  expired, only when none has expired and the store is full, and then the first.
* The store is changed by selections (`ItemsAt`), a recursion over positions.
  `ItemsAtSelects` says what one returns: entries of the store, in its order, all
  that were asked for, and fewer than there were if one was not. It is proved
  at the least position that would be a counterexample.

**Registry** (`RegistryProofs`)

* `NothingDangles`: `Spec => []TypeOK`, the foreign keys under any interleaving.
* `DocumentsStayUnique`: `Spec => []DocumentsUnique`. `RegistryInv` adds
  `RequestsCarry`, what the fields of each request in flight are.
* `EveryPartyFits`: `ApartSpec => []PartiesFit`, and `HistoryStays`: `ApartSpec =>
  HistoryNeverVanishes`. `ApartInv` adds `RequestsRely`: what each request found
  when it asked its questions (the party fits, the guest has no stay, the booking
  is as loaded) is still so, and the rows it depends on are among those it
  touches. There is one lemma per table written: a request that touches none of
  the rows a write relies on is not disturbed by it.

**Only model-checked.** Liveness (`RequestsAnswered`, `LockEnds`) and the fairness
it rests on are outside the prover's reach. `LostRaceIsConflict` and
`OverdueKeepsRoom` are what the code does not do. Every other property of a run is the subject of a theorem. Where the
theorem is about `ApartSpec`, the findings and the list above say what two
requests about the same row can do.

## What is not modelled and why

HTML, JavaScript and CSS (no state of their own), PDF layout and exports, JWT
and bcrypt (libraries) and a token's expiry, logging, settings, middleware, the
seed script and the other migrations (run offline with the application
stopped). Names, prices, floors, numbers and notes of guests, rooms and types:
no rule relates them to anything but their own uniqueness. The split of revenue
by payment method, a grouping of rows already summed, and rates in percent.
A document number typed as `ERASED-n` and a reference longer than its column.
SQLite is the desk's model with `HasExclusion = FALSE`; its writer lock
serialises commits, which are single steps here anyway, and accounts are
modelled with PostgreSQL's row locks only.

## Plan

Done: the desk with its calendar, the folio, invoice numbering, accounts and
tokens, the tracker, the registry and the reports, each with its run, and a proof
of every safety property the passing runs check. Left, in this order:

1. An abstract ledger that the folio implements, as the calendar and the invoice
   book are implemented.
2. The split of revenue by method and the percentages of the report.
