# Verification of MicroOcpp

TLA+ models of the OCPP client library in this repository, the TLC configurations that
check them, and proofs for TLAPS. Paths below are relative to `src/MicroOcpp/`.

- [How to run](#how-to-run)
- [The system](#the-system): components, state, operations, what is hard, what makes them correct
- [Plan](#plan): what was planned and what has become of it
- [The modules](#the-modules): correspondence with the code, abstractions
- [The runs](#the-runs): questions, bounds, fairness, disagreements found
- [The proofs](#the-proofs)
- [What is only model-checked, and what is not modelled](#what-is-only-model-checked-and-what-is-not-modelled)

`PROJECT.json` maps each definition to the lines it stands for and lists the runs, a mutant
for each property (a plausible mistake in one definition that the run must notice), the
hazards of the code, the findings and the theorems.

## How to run

    tlc -config MCRequestQueue_rpc.cfg MCRequestQueue.tla
    tlapm VolatileRequestQueue_proof.tla
    tlapm RequestQueue_proof.tla
    tlapm BootService_proof.tla
    tlapm FirmwareService_proof.tla
    tlapm Connector_proof.tla
    tlapm Station_proof.tla
    tlapm Metering_proof.tla
    tlapm TransactionService_proof.tla

A module `X` models a component, `MCX` extends it for TLC, `MCX_<run>.cfg` holds the constants
of a run, `X_proof` holds the theorems about it. Four modules put several components into one run: `MCSessions` `Connector`
and `BootService`, `MCJournals` the journals of both versions of OCPP, `MCServices` `Metering`, `FirmwareService` and the
services that have no run of their own, `MCVolatileRequestQueue` the ring and the delivery of requests. `BootConstants` and `FirmwareConstants` hold the
parameters of `BootService` and `FirmwareService` with their assumptions, so that those modules can declare them
together with the parameters of others.

## The system

MicroOcpp runs on a microcontroller in a charging station. The firmware calls
`mocpp_loop()` again and again; everything happens inside these calls, in one thread, and
nothing blocks. What takes time spreads over many calls, so that the interleaving is one of
loop() calls of the services, callbacks of the WebSocket, calls of the API and power
failures. Hence the unit of atomicity in the models: one call of a method, split where the
code calls out (listeners, inputs) or where the power may fail (between file operations).

| Component | State | Operations | Interacts with |
|---|---|---|---|
| **Request buffers**: `VolatileRequestQueue` (Core/RequestQueue) | ring of unique_ptr, `front`, `len` | push (evicts the oldest), fetch, loop (expires) | three instances inside the RPC engine and BootService |
| **RPC engine**: `RequestQueue`, `Request`, `Operation` | the Request in flight, queues, server request being answered, `nextOpNr` | loop, sendRequest, sendRequestPreBoot, receiveMessage | polls the emitters for the lowest OpNr; runs listeners of the services |
| **Connection** | WebSocket | sendTXT, isConnected, receiveTXT callback | RPC engine |
| **Connector** (Model/ConnectorBase) | current transaction, `txNrBegin/Front/End`, `transactionFront`, availability, inputs | begin/endTransaction, loop, the emitter of transaction messages | journal, RPC engine, metering, reservation, authorization |
| **Transaction journal** (Model/Transactions) | a file for each transaction number, a weak cache of objects | getTransaction, createTransaction, commit, remove | Connector, flash |
| **Boot** (Model/Boot, `mocpp_initialize`) | boot statistics on the flash, registration status | load/store, recover, migrate, BootNotification until accepted | deletes the files of all services; opens the gate of the RPC engine |
| **Transactions of OCPP 2.0.1** (`TransactionService`) | event queue in files, sequence numbers | begin/end/authorize, the event emitter | RPC engine, metering |
| **Metering** (`MeteringService`, `MeteringConnector`, `MeterStore`) | sampled and clock-aligned values; files of tx data | loop, take/readTx…, flush | Connector, journal |
| **Firmware management** | stage, retries, last reported status, build number in the configuration | loop, scheduleFirmwareUpdate, status notifications | handlers and inputs of the firmware, Connector (transactions, availability), FTP client |
| **Diagnostics** | the same with an upload | loop, requestDiagnosticsUpload | handlers, FTP client |
| **Reset** | outstanding retries | initiateReset, loop | Connector (availability, end of transactions) |
| **Reservation** | a record for each connector in a configuration file | reserve, cancel, loop (expiry) | Connector |
| **Remote control, Availability, Heartbeat** | little | handlers of server requests | Connector |
| **Smart charging** | profiles by purpose and stack level, on the flash | set/clear profile, loop (limit), composite schedule | Connector, clock |
| **Local authorization list** | sorted entries, version, file | update, get | Connector |
| **Configuration, Variables** | key-value stores, a dirty revision on the flash | declare, set, save | all services |
| **Certificates, FTP, Filesystem, Memory, Time** | adapters | | |

### What is hard, and what makes a component correct

- *Request buffers*: a ring that loop() shortens while iterating over it, wrap-around, and
  eviction. Correct if it is a bounded FIFO that loses no Request without calling its
  listeners, and if one call of loop() gives up all that has timed out.
- *RPC engine*: many producers, one slot; timeouts racing answers, answers to earlier
  attempts, sendTXT() failing, reconnects. Correct if each Request ends exactly once, on
  its own answer or its own timeout; transaction messages reach the server in order; nothing but the
  PreBoot queue sends before the registration; everything ends, given a connection.
- *Connector and journal*: numbers given out again, file numbers modulo a size, objects
  shared between connector, send queue and listeners, power failures between any two file
  operations, retries that span reboots. Correct if each session that has charged is reported
  in order or given up after its attempts, nothing confirmed is sent again, and the flash always holds
  what the charger would need after a reset.
- *Boot*: counters of 16 bits that start over, a recovery that can itself be interrupted,
  deletion of the journal. Correct if a boot loop is broken, files are deleted for cause only,
  a boot number identifies a run, and a station whose registration is withdrawn asks again.
- *Firmware update*: stages polled from inputs of the firmware, replaced by the server at any
  stage. Correct if attempts are bounded, failures are reported, only what has been fetched is installed, and
  the routine ends.
- *Transactions of OCPP 2.0.1*: events in files that are thinned out, confirmed and restored, while the
  send queue works on one of them. Correct if the server gets the events in order and never loses a first or
  a final one.
- *Metering*: files numbered by transactions whose numbers are used again. Correct if a StopTransaction
  carries the samples of its own session, from the first to the last.
- *Reservation, availability, remote control, reset*: they act on connectors in every state, and a
  reservation may change while an Authorize is under way. Correct if reservations are honoured, and kept
  over reboots.
- *Smart charging*: a limit that is computed ahead, up to the next change. Correct if the charger always knows
  the limit in force.
- *Diagnostics*: a file put together chunk by chunk, sent in pieces of any size. Correct if an upload that has
  been reported is complete.
- *Local list*: binary search over a list that is updated in place. Correct if charger and server agree.
- *Configuration, variables*: whether to write a file is decided by sums of counters. Correct if
  what has been accepted survives.
- *Clock*: differences of a counter that wraps around. Correct if the time does not drift, and times of before
  the first synchronization can be corrected.

## Plan

In order of importance, and what has become of it.

1. `BoundedFifo`, `VolatileRequestQueue`: done, with proofs of the invariant and the refinement.
2. `RequestQueue`, the RPC engine on top of the abstract queues: done, with proofs of its safety properties.
3. `Connector`: done, with proofs of all its safety properties. Its liveness stays with TLC.
4. `BootService`: done, with proofs of its safety properties.
5. `FirmwareService`: done, with proofs of its safety properties. `Diagnostics`: done.
6. `Metering`: done for OCPP 1.6, with proofs of its safety properties. Open: MeterValuesV201.
7. `Station`, the composition of reset, reservation, availability and remote control with an abstract
   connector: done for OCPP 1.6, with proofs of its safety properties. Open: their counterparts of OCPP 2.0.1.
8. `TransactionService` (OCPP 2.0.1): done for one EVSE, with proofs of its safety properties. Open: liveness of
   the delivery, several EVSEs.
9. `Configuration`, `Variables`: done.
10. `SmartCharging`, `AuthorizationList`, `Clock`: done. Open: units and phases, several connectors.

Abstract specifications: the bounded FIFO is one, and the ring is proved to implement it. The others that were
considered (a journal that is a sequence of sessions, a set of meter values for each transaction, a function from
keys to values) are stated as properties over history variables instead: `NoTransactionLost` and
`ServerOrder`, `StopDataIsOwn`, `AcceptedSurvives`. In `AuthorizationList` the variable `server` is the
abstract list, which `LocalListAgrees` relates to the code's.

## The modules

### BoundedFifo, VolatileRequestQueue

`BoundedFifo` is what the owner of a queue may rely on: Requests leave once, fetched from the front or
timed out, the oldest one when room is needed. `VolatileRequestQueue` has the variables of the
class and one action per method; loop() is one step per iteration (`LoopEnter`, `LoopSkip`,
`LoopDropFront`, `LoopDropInner`, `LoopReturn`), because the clock moves on between two calls of
`isTimeoutExceeded()`. `fate`, `due` are history. The refinement mapping
turns the window of `len` slots from `front` into a sequence.

### RequestQueue

One action per producer (`SendRequest`, `SendRequestPreBoot`, `EmitTx`), `Loop` for one call of
RequestQueue::loop() with its three exits (offline; a response is sent; a request is sent), the
two directions of `receiveMessage`, `BootServiceLoop` for the gate, the clock and the network.

- The three ring buffers appear as the sequences they implement.
- The OpNr of a message of the default queue is 1 and of the PreBoot queue 0 or 1, as in the code;
  transaction messages have numbers from 10 on.
- A transaction message is made into a new Request for each attempt; calls and answers carry the
  attempt, as the message ID does. Which emitter makes which Request, and what is in it, is `Connector`.
- Matching of a response is by message ID, and a response that matches nothing resets the slot, as
  `receiveResponse` does.
- `sendTXT()` may fail at each try. A dropped connection loses all that is under way.
- Left out: JSON, the operation registry, errors raised while a message is being created.

### Connector

One connector of an OCPP 1.6 station with its journal. The actions are the API calls
(`beginTransaction`, `beginTransaction_authorized`, `endTransaction`), the parts of loop() that
change a transaction (`Rollback`, `CollectStopped`, `SessionLoop`: in the code they follow each
other in one call; the model lets other steps come in between and thus has more behaviours), the
emitter (`Poll…`, which stands for getFrontRequestOpNr() and fetchFrontRequest() as called by the RPC
engine), the listeners of the three operations, and `Reboot`, which reads the journal back.

- A *session* is a call of beginTransaction(); numbers are reused, sessions are not. Session 0 is
  a transaction of an earlier run with number MaxTxCnt-2, so that the numbers wrap around.
- `mem` holds the Transaction object of a session while somebody refers to it, `flash` the file of
  each number. An object may outlive its file, and two objects may have one number: the
  weak cache yields the newest of them.
- File operations are atomic and succeed. `BeginInterrupted` is a power failure after any
  of the file operations of allocateTransaction(); a failure elsewhere is a `Reboot` between two actions, of
  which none does more than one file operation.
- The network is reduced to the one Request in flight (`exchange`) and to `late`: an answer
  to a Request given up may still come. sendTXT() failing is in `RequestQueue`.
- The default send queue holds the Authorize requests of the connector only, with room for
  `CacheSize`; the eviction gives the timeout that other traffic would cause.
- What authorization, plug, EV and input callbacks say is nondeterministic: each outcome of the
  conditions in loop() is allowed. Local authorization yields the same two outcomes.
- MO_TX_CLEAN_ABORTED is 1 (the default). Meter files are the subject of `Metering`.
- The clock may be set or not when a session starts, as with PreBootTransactions.

Two constants restrict the environment of the run that passes. `BeginEarly` FALSE: a session begins only when
the send queue has released the ones rolled back. `EndEarly` FALSE: a session is not ended while its
Authorize is pending. The code does not enforce either one; without them the properties fail in
the ways described under "Disagreements" and below. The proofs have the first one as a hypothesis, and the one
of `StartedIsCurrent` the second one too.

### BootService

`PowerUp`, `loadBootStats`, `recover`, `migrate`, `assignBootNr` are the steps of
`mocpp_initialize()`; files are removed one at a time and the power may fail between any two steps. A write
of the statistics that is cut off leaves the old file, the new file or a damaged one. Then there is the run
with services that write and remove their files, the timer of a successful boot, a clean
shutdown, and the registration. State files stand for classes of files: those that both recovery and
migration remove (`tx`, `sd`, `sc-`) and those that recovery alone removes (`reservation`).
Boot numbers are modulo `Width`. Pending and Rejected are merged. `suffered`, `failedBoots`,
`cause`, `lastVersion` and `run` are history.

### FirmwareService

Each stage of loop() is an action, taken after the report to the server, in the same step as in the code.
`hooks` is the set of handlers and inputs that the firmware has installed, fixed from the start
(a status input comes with its handler). `downloading` and `installing` name the update the
firmware works on, which need not be the one scheduled last. `update` stands for the location. The
model has the report of an old status between `downloadIssued` and onDownload(): with the built-in FTP
handler a second attempt reports DownloadFailed, or Downloaded, before it has begun.
`available0` (connector 0 made unavailable and never available again) is kept although no property is about it.

### TransactionService

One EVSE of an OCPP 2.0.1 station: the API calls, the parts of loop() (`Collect`, `LoopTransaction`,
`LoopBegin`), the emitter of TransactionEvents, its listeners, and `Reboot`. `txFlash` holds for each
transaction number the files of its events, of which the last one restores the transaction. A commit removes an
event when the record is full (`Shrunk`), writes the new file and removes the one it
replaces, and the power may fail in between: `CommitCutOff`, `FetchCutOff` and `ConfCutOff` are the states of the
flash that such a failure leaves beside the ones between two calls. Inside beginTransaction(), which removes several
transactions, it does not fail. Sessions stand for transactions as in `Connector`. The
contents of an event are left out, except whether it is the first or the final one. `MaxEvents` bounds the
events of a session, `LastSeqNo` is beyond their numbers. `BeginEarly` FALSE: no transaction begins that would remove
the one the queue refers to (`Released`), as in `Connector`; the code does not check that. EventRecordSize has to be 3 or more, otherwise nothing can be given up between
a first and a final event.

### Metering

`MeterStore` with its files `sd-<connector>-<txNr>-<i>`, the caching `TransactionMeterData`, the hooks by
which `Connector` takes samples at the begin and the end of a transaction and in between, and the queue of MeterValues.
`journal` stands for `Connector`; numbers are used again, and each sample carries the session it was taken
in as history. The power may fail before and after the steps of a removal.

### Configuration, Variables

`Configuration` is one container on the flash: declaration with a type and a default by a version of the firmware,
loading, ChangeConfiguration, removal of what no version declares, and the sum of revisions that
decides about storing. `Variables` has buckets with a file each, the sum of write counts, SetVariables with
two entries, GetVariables, and the reports. In both, a write may be cut off (`Torn`).

### SmartCharging

Profiles by purpose and stack level in memory and on the flash, `Limit` with everything below it
(absolute, relative and recurring schedules, their duration and minimum rate, the priority of purposes and levels), what
loop() caches (`nextChange`, `output`), the announcement to the charger, SetChargingProfile, ClearChargingProfile,
GetCompositeSchedule, transactions that begin and end, and reboots. `fresh` tells that loop() has just run.
`DayStart` is the remainder as C++ has it: before startSchedule it is negative, a recurring schedule has its basis ahead, defines
no limit, and has the next change a day after the basis. `LimitIsCurrent` has two parts, `OutputIsCurrent` for
what the charger is told and `ScheduleIsRight` for what the server is told. It is checked for profiles of which none ends before
the last time of the clock, none is recurring with a startSchedule after its first time, and only one that is looked
at first has later periods, since `nextChange` is wrong for others; the run `recurring` shows it for the second kind.

### Station

Two connectors and connector 0, reduced to what reservations, availability, reset and remote control
depend on. `Loop` is a call of Model::loop() in the order of the code: connectors, then reservations, then
reset. ReserveNow, CancelReservation, ChangeAvailability, RemoteStartTransaction, RemoteStopTransaction,
Reset, the user at the connector, the answers to Authorize and their timeout are actions.
ReserveNow with an id that is known updates the reservation in any case (ReserveNow.cpp:79), whatever
connector, idTag and date it names. The listener of a pending Authorize works with the reservation that it has found when the
transaction began, so that it honours no reservation which such an update has made out of another one meanwhile. The history
variable `reassigned` names the connectors concerned: those to which ReserveNow has moved a reservation, or whose
reservation it has given another idTag or extended past its expiry, until no reservation is in force there and nobody
waits. `ReservationHonoured` excepts them, `ReservationAlwaysHonoured` does not, and the run `reassigned` shows it
violated. Updates of a reservation at another connector, or for the same idTag and in time, are covered.

Both properties are about *unexpired* reservations (`InForce`): after a reboot the charge point takes those that had
expired for active until its clock is set, and if the server then cancels the newer one of two reservations of a
connector, a transaction of the newer one's idTag gets through against the older one, which is over. With reservations
that are merely active `ReservationHonoured` is violated in six operations; the proof attempt led there.

### Diagnostics

The routine of `DiagnosticsService::loop()` with its retries, the reader that puts the report
together (preamble, log, postamble, each file under a heading; `Chunk` is one call), and the FTP client:
`process_ctrl` with each reply, `process_data`, and what closes which connection. The server answers each command
with the reply that takes the transfer on, with an error, with 530, upon which the client logs in again
(`LogsInAgain`; not once the server takes the report), not at all, or by closing the connection; replies that belong to
another command are left out. The socket may take any part of the buffer. `OneAtATime` TRUE: no GetDiagnostics while a
transfer is under way.

### AuthorizationList

SendLocalList in full or differential with up to two entries, the index and the sort, the file, the binary search
that lookups use, the conflicts with the server. `server` is what the server concludes from the answers.
`CarefulServer` TRUE: an update names an idTag to be removed only at its end, at most one; the run
`locallist` shows what happens otherwise.

### Clock

Timestamps with the lengths of months and leap years, `now`, `setTime`, `adjustPrebootTimestamp` with its
signed comparison, and the due time of the heartbeat. `calendar` and `frac` are the server's clock, which
the uptime, a counter that does not wrap around, moves on; the code sees the uptime modulo `Width`.
A day has two seconds and a second two ticks, so that a few ticks cross months and years. A recursive
operator carries days into months: nothing is proved in this module.

### MCSessions, MCJournals, MCServices

The components of each of these modules share no variables at the level modelled here. The module extends the first one,
instantiates the others and chooses one of them in the initial state, so that the states add up and do not multiply; the
fairness of a component is that of its own module, for the behaviours of that component.
`MCSessions` has `Connector` and `BootService`; `MCJournals` has `TransactionService` and `Connector` once more, with
one session more and none silent; `MCServices` has `Metering`, `Configuration`, `Variables`, `SmartCharging`, `Diagnostics`,
`AuthorizationList`, `Clock` and `FirmwareService`. In `MCServices` a component that has used up its bounds comes to a stop; the step
`Rest` lets it stay there, but `FirmwareService`, which has something to do forever, has no such step, and TLC would report
its deadlock. `MCVolatileRequestQueue` does the same with the ring and the engine.
The properties of an instance have the name that they have in its module; the theorems about them are stated for the
module itself.

## The runs

| Run | Question | Bounds | Why they are enough | Distinct states |
|---|---|---|---|---|
| `queues` | Is the ring a bounded FIFO, for every interleaving of its methods with the clock? Does everything the engine takes from its queues end? | 3 slots, 4 requests; 1 BootNotification, 1 triggered and 1 other request, 2 messages of 2 connectors, 1 attempt | wrap-around at every position, inner and front removals, evictions, and the proof covers any size; all queues compete for the slot | 98,848 |
| `rpc` | Do Requests of all kinds that share the slot end once, in order, on their own answer? | one BootNotification, 1 triggered request, 1 without timeout, 2 transaction messages of 2 connectors, 2 attempts, 1 server request, queues of 1 | the PreBoot queue overflows (the default queue is of the same class, and its requests time out in `queues`), retries and late answers of each kind meet each other; the proof covers any bounds | 2,446,000 |
| `sessions` | Is every session reported in order or given up, over retries and reboots? Recovery, migration, boot numbers, registration | below | below; the proofs cover any bounds | 303,258 |
| `journals` | Are first and final events of OCPP 2.0.1 kept, and all events in order? Is a running transaction of OCPP 1.6 never orphaned? | below | below; the proofs cover any bounds | 633,130 |
| `station` | Are reservations honoured by transactions under way, and kept until there is a cause? | 2 connectors, 2 reservations, 2 idTags, 2 expiry dates, 4 operations | the reservation changes, expires, is updated or is lost from view while an Authorize is pending; the proof covers any bounds | 2,050,930 |
| `services` | Does a StopTransaction carry the samples of its own session? Is a firmware update sound, and does it end? And six more services, a property for each | below | below; of `Metering` and `FirmwareService` the proofs cover any bounds | 419,218 |
| `rpc_stray`, `skipped`, `zombie`, `locallist`, `reassigned`, `recurring` | see below | | a counterexample needs no more | |

MaxTxCnt is 10 with the journal of one file of `Connector`, and 6 with the journals of two files in `journals`: the scan for the newest
file needs the files to lie within half of the range, as with MAX_TX_CNT 100000 and MO_TXRECORD_SIZE 4. `Metering` has no such scan.
Symmetry is used in `rpc`, `station` and `reassigned`, which check no liveness. The type invariants of the ring, of `Station` and
of `BootService` are proved and not checked in the runs that pass; the other ones are checked.

The bounds of `sessions`: Connector two sessions after one of an earlier run, the first or the second one silent if need be, a
journal of one file, two attempts and one reboot, which comes before, between and after the attempts of both messages and
the file operations of a new transaction, with eviction and wrap-around (119,310 states); BootService five runs, numbers
modulo 8 and recovery after 3 failures, which is a whole boot loop and one more boot, with numbers that wrap around
(183,948 states).

The bounds of `journals`: TransactionService three sessions, a journal of two, up to four events of which three are
recorded, two boots, so that a record overflows, numbers start over, and a boot finds a commit or a removal half done (371,870
states); Connector three sessions after one of an earlier run, a journal of two files, one attempt and one reboot, so that
the numbers start over, and a session runs and a reboot comes while earlier ones are still to be reported, have been evicted
or rolled back (261,260 states). Three sessions are what the run `zombie` needs, in which a silent one breaks the same property.
A VIEW leaves out the history variables of Connector but `sends`: no action reads them, and `StartedIsCurrent` does not mention them.

The bounds of `services`: Metering four sessions, a journal of two, three numbers and records of three values, so that
a record is full, numbers are used again after a removal and after a rollback, and each call is cut off (121,547 states);
Configuration two versions of the firmware and three keys, three changes; SmartCharging a profile of each purpose, among them
one with two periods, a recurring one and a malformed one, two operations; Variables five variables in two files;
Diagnostics four files (one empty, one
that cannot be opened), a buffer that a heading fills up, one retry; AuthorizationList three idTags in a
list of two; Clock a leap February and the end of a year, a counter that wraps around; FirmwareService two updates, two
retries and three boots in all configurations of handlers, so that an update is replaced at each stage, and a build is
announced and booted again.

### Fairness

- The firmware calls loop() forever, and clocks do not stop: weak fairness of the loop actions and of the
  expiry of timeouts. This is the execution model of the library (docs/intro-tech.md).
- `RequestsEnd` needs nothing else. `TxMessagesEnd` has the premise `ConnectionReturns`: each
  disconnect is followed by a reconnect, and the connection stays up long enough, again and
  again, for sendTXT() to succeed and a retry interval to end, hence strong fairness. The server need not answer.
- `SessionsAreReported` assumes the same of the connection (`SF_vars(PollRequest)`).
- `StationRegisters` assumes a server that accepts in the end if asked again and again.
- `UpdateEnds` has the premise that transactions come to an end, and assumes that a download or an
  installation that has begun ends, in one way or another.
- No fairness on users, servers (but the last-mentioned acceptance), power failures or updates.

Deadlock is checked in all runs that pass but `station` and `journals`, which come to a stop when their bounds are used
up; in `services` it is checked for the component without such bounds. Of the runs that show a violation, `locallist`,
`reassigned` and `recurring` have it switched off, too.

### Disagreements between code and documentation

- `rpc_stray`: a response that matches nothing resets the Request in flight with no listener
  called, although Core/Request.h promises a call of the abort listener.
- `skipped`: `transactionFront` is kept over the rollback of its transaction; the next session with the
  same number is skipped by the send queue and never reported.
- `zombie`: a silent transaction has been removed from the journal when its Authorize times out; the
  listener commits it and its file comes back. A reboot takes it for the newest transaction, and the one
  that was running is not resumed.
- `locallist`: an update clears the entries to be removed in place and goes on searching by bisection, so that it
  can miss an entry and insert it once more.
- `reassigned`: while A waits for Authorize at a connector, ReserveNow with a known id moves a reservation to it, or gives
  the one that is there to another idTag, B. When Authorize times out, A is authorized, although the comment in ReservationService.h
  asks to check that the idTag matches before a transaction starts.
- `recurring`: a recurring profile that is installed before its startSchedule has its next change computed a day too late,
  so that the charger is not told the limit when it begins, although MicroOcpp.h promises a call whenever it changes.

### What else was met

The models contain the following, or exclude it by a named constant; no run states it, for want of a text in the
repository that says otherwise.

- *Connector*: a session ended while its Authorize is pending (`EndEarly`) has its listener commit to a
  file number that may belong to the next session. A CALLERROR for Authorize, or a reboot before its answer, leaves the
  session without a decision until the user ends it. The StatusNotification of Connector.cpp:527 has
  no timeout: if its answer is lost while the connection stays, nothing else is ever sent. A start time that
  StartTransaction.cpp:51 corrects is not committed.
- *TransactionService*: `bootNr` of an event is never assigned (TransactionService.cpp:881); a stray
  response leaves `txEventFrontIsRequested` set; :585 notifies StartTx for Ended. A transaction that goes silent at
  :886 is not collected by the next getFrontRequestOpNr(), as the comment at :898 has it: `txEventFront` stays set, so
  that :810 returns at once and fetchFrontRequest() at :877, and nothing is sent until a reboot. With `BeginEarly` the
  same happens as in the run `skipped`: beginTransaction() evicts a transaction whose last event has just been
  confirmed, `txFront` still refers to it, and getFrontRequestOpNr() passes by the one that is now at `txNrFront`.
- *Metering*: without a filesystem the data of a StopTransaction is lost with the object; MeterValues carry a
  transaction number that may be given out again after a rollback.
- *Configuration*: a change made by the firmware before removeUnused() can cancel out in the sum of revisions; a
  store that fails is not retried; a key found in the file with another type is orphaned; a default that is
  confirmed is not written to the file.
- *SmartCharging*: `nextChange` ignores validTo (SmartChargingModel.cpp:99); loadProfiles() leaves out the highest stack level
  (SmartChargingService.cpp:436); the old profile is removed before the capacity is checked; toJson() writes
  "minChargeRate" and the parser reads "minChargingRate".
- *Variables*: commit() reserves room for the persistent variables but goes through the first ones of all.
- *Station*: an expired reservation is
  active again after a reboot until the clock is set; reservations of connector 0 count one connector too many.
- *Diagnostics*: a success found at the timeout wraps the unsigned number of retries (DiagnosticsService.cpp:101);
  `uploadIssued` stays set after a failure, so that it is not tried again (:97); a GetDiagnostics during an upload
  frees buffers that the new one uses (`OneAtATime`); success is reported before the server's 226.
- *Clock*: `(int) system_basetime / 1000` (Time.cpp:376) is negative from 24.8 days on, and then a time of before the first
  synchronization becomes the time of the synchronization; a HeartbeatInterval above 4,294,967 s overflows 32 bits.

## The proofs

`VolatileRequestQueue_proof` is about a ring of any size and any set of Requests. Assumptions:
`SizeAssumption` (Size is a positive number), `NoRequestAssumption`.

`Inv` is the conjunction of `TypeOK`, `WindowExact`, `OneSlotEach` and `SweptPrefix`. None of them is
inductive alone: that a removal keeps the slots of a Request unique needs the window to be exact; that
the window stays exact needs uniqueness, or a shift would overwrite a Request; and that loop()
skips nothing is known only from what the positions already passed hold. The proof goes

1. arithmetic of the ring: `SlotIs`, `OffsetIs`, `SlotOffset`, `OffsetSlot`, `Advance`, `NextSlot`, then
   `Ring` and `RingAdvance` in terms of the module's operators;
2. one lemma per action that it preserves `Inv`. `ReleaseFront` serves both actions that remove the
   front, `Shifted` says what the shift of an inner removal leaves in each slot;
3. `Invariance`, from which `TypeCorrect`, `WindowIsExact` and `EachInOneSlot` follow, and
   `SweepIsComplete`: an action property from `SweptPrefix` at the return of loop();
4. `ImplementsFifo`: each step maps to a step of `BoundedFifo` or stutters, which licenses `RequestQueue`
   to use sequences.

`RequestQueue_proof` is about the RPC engine with queues of any size, any sets of requests and any number of emitters
and attempts. Assumptions: `ConstantsAssumption` (the limits are positive numbers, `None` is no message) and
`KindsAssumption` (a message is of one kind). The property `Conservation` says where a pending request is, but
not that it is there once, and an eviction or a timeout of one of two copies would break it. `Inv` adds to `TypeOK`:

- `Tracked`, for each kind of request: its queue holds no request twice and not the one in flight, and
  these are the pending ones. It gives `Conservation`, and `OutcomeIsFinal`, since whatever leaves a queue or the slot was pending;
- `TxTracked`: the queues of the emitters are disjoint and rise, no number beyond `nextOpNr` is used, and
  the message in flight, which stays in its queue, is the smallest of all: hence `TxInOrder`;
- `Gate`: before the activation only a request of the PreBoot queue can be in flight, for a retry of
  the slot does not look at the queues again;
- `Attempted`: a request other than a transaction message has the one attempt its call is tagged with;
- `Answered`: what has been answered is done with, so that it cannot be answered again.

`Tracked` and `TxTracked` have values as parameters, hence one lemma per thing that happens to a queue
(`PushTracked`, `SweepTracked`, `ReleaseTracked`, `FetchTracked`; `EmitKeepsTx`, `FetchKeepsTx`, `DoneKeepsTx`) serves all queues.
`KeptSeq` says that `Kept`, the removal of Requests from a queue, keeps the others and their order; it counts positions, because
SelectSeq is recursive. `Timeouts` covers the first part of loop(), which all its exits share. Each action has a lemma that it
preserves `Inv` and is `Lawful`, the conjunction of the four action properties, which follow with `NextStep`. `Inv`
has been checked with TLC on small instances first.

`FirmwareService_proof` is about any number of updates, retries, builds and boots, and about each
configuration of handlers, which stays what it is from the first state on. Assumption:
`FirmwareAssumption` (there is a build and a boot). Here too no safety property is inductive, and
`Inv` adds to `TypeOK` what they rest on:

- `StageFlags`: the two flags from which the status is computed follow the stage, an attempt is
  under way only while retries are left and after the first report, and without handlers no update ever begins;
- `Budget`: the attempt that is under way has been counted but is still among the retries, hence
  the 1 on the right-hand side. A reset or a new update in any stage keeps it, and it gives `AttemptsBounded`;
- `FetchedForStage`: while the routine is past the download of its update, no download is
  under way that could end for another one. That onDownload() takes the place of a download that an update
  replaced since had begun is what makes it hold;
- `BuildIsKnown`: what has been announced is on the flash.

There is one lemma for each stage of loop(), for which `StageInv` collects what a stage can disturb
and `ReportInv` what the report before it does, and one for each action of the environment. `Invariance`
combines them. `TypeCorrect`, `AttemptsAreBounded` and `BuildIsAnnouncedOnce` follow from `Inv`,
the action properties `OnlyFetchedIsInstalled` and `NoFailureUnreported` from `Inv` and the step. `Inv`
has been checked with TLC on the instance of the run `services` first.

`BootService_proof` is about boot numbers of any width, any number of tolerated failures, any state files and
any firmware versions. Assumptions: `BootAssumption` (there are fewer runs than boot numbers, so that the
numbers wrap around at most once, and the limit of failures is at least three below the number of them) and
`NoFileAssumption` (`NoFile` and `Damaged` are not file contents). `Inv` adds to `TypeOK`:

- `FlashIsRight`: what the flash says about failures and the version agrees with the history, unless the
  file is damaged;
- `LocalIsRight`: what mocpp_initialize() works on comes from the flash, or starts anew after a loss or a recovery;
- `SufferingIsCounted`: no file has been there in more failed runs than are counted, which gives
  `BootLoopBroken`. It needs that a recovery interrupted half-way is begun again;
- `CleanedUp`: a count that starts anew starts with no file of before;
- `DatesAreRight`: the boots since a file was written, as the numbers tell, are no more than the runs since, at least
  one for a file of another run, and fewer than that before the run has its number; this gives `BootNrIdentifiesRun`.

The arithmetic modulo `Width` is in three lemmas (`DistanceIs`, `DistanceRange`, `NextDistance`), and `NextBoot`
says what the assignment of a number does to every file. There is one lemma for each action;
`RemoveInv` serves the removals of recovery and migration. `DeletionsHaveACause` is an action property that follows
from `Inv` and the step.

`Connector_proof` is about a journal of any size, queues of any size, and any number of attempts, sessions and
reboots. Assumptions: `ConstantsAssumption`, where `MaxTxCnt >= 2 * RecordSize + 2` is one more than
Transaction.h:45 asks for ("at least 2*MO_TXRECORD_SIZE+1"), because a silent transaction is an entry beyond
the record and the scan at boot has to tell the newest file from the oldest (the build has 100000 and 4); and
`NoneAssumption` (`None` is neither a Request nor a file). Each theorem has the hypothesis `~BeginEarly`, without which
the run `skipped` refutes `NoTransactionLost`. An object may have outlived its file and its number may
have been given out again, so that no property is inductive. `IInv` adds to `TypeOK`:

- `Numbers`: a file has the number of its transaction, a session has one file, and no two objects in use have one number.
  Hence the weak cache, which could return either of two, finds one;
- `Places`: an object in use is in the journal and agrees with its file, up to the corrected start time and a
  StopTransaction that was given up, or it has just been rolled back; this gives `JournalIsCurrent`;
- `Window`, `Ends`: the files lie within RecordSize numbers of `txNrBegin`, or one more for a silent one; the current
  transaction is the last entry, `transactionFront` the one at `txNrFront`;
- `Ordered`: the entries that are still good follow in the order of their sessions, from which `ServerOrder` follows;
- `MemSound`, `FlashSound`, `FreshOnes`: what a copy, in memory or on the flash, knows of the messages sent and confirmed
  is no less than what has happened, so that a reboot takes nothing back. This gives `SettledIsFinal` and `AttemptsBounded`,
  although the decision to give up a StopTransaction is not written: its count of attempts is;
- `Unlost`: what has charged and is neither reported nor given up lies between `txNrFront` and `txNrEnd`; this
  gives `NoTransactionLost`;
- `ServerKnows`, `InFlight`: what the server has received by the time a message is in flight.

The distances of the numbers modulo MaxTxCnt are in `MinusIs` to `Next1Is`. `JournalCommit`, `JournalRollback`, `JournalBoot`,
`JournalBegin`, `JournalPoll` say what each kind of step does to the journal, whatever the object is; the choices
of the code (`Oldest`, `Newest`, `Trimmed`, `Collected`) each have a lemma that the choice exists (`OldestIs`,
`NewestIs`, `TrimmedIs`, `CollectedIs`), the last two from the principle of the least number (`Least`). `BeginBootable` covers
a power failure after each file operation of allocateTransaction(). There is then one lemma for each action.

`NoneIsOrphaned`, the theorem about `StartedIsCurrent`, has two hypotheses more: `~SilentOffline`, without which the run
`zombie` refutes it (the run `journals` checks it with as many sessions, none silent), and `~EndEarly`, without which a late
Authorize writes the file of a session ended and rolled back once more, beyond the end of the journal, where a reboot takes
it for the newest. `Orderly` adds to `IInv` that no file lies
there (`BeforeEnd`) and that a session whose Authorize is pending is neither rolled back nor reported (`Waiting`).
`IInv` and `Orderly` have been checked with TLC on small instances first.

`Station_proof` is about any number of connectors, reservations, idTags and operations. Assumption: `ConstantsAssumption`
(counts and dates are numbers). There is no other hypothesis. `IInv` adds to `TypeOK`, for each connector that is not `reassigned`:

- `OneInForce`: of two reservations of the connector the one in the higher slot has expired. It rests on what ReserveNow
  replaces, and on a new reservation taking the first slot that is free;
- `Unblocked`: if the listener of a pending Authorize knows of no reservation that blocks the transaction, those that are in
  force at the connector have its idTag. A reservation may be cancelled, updated, expire or be lost from view
  meanwhile, and the listener goes by what beginTransaction() has found. This gives `ReservationHonoured`.

and for all connectors `Undecided`: as long as its Authorize is pending, a transaction has not been authorized. A connector
that leaves `reassigned` has no reservation in force and nobody who waits, so that both hold there for want of either.
`KeepsIInv` says what the slots and transactions of each connector must do in a step for `IInv` to be kept, and
`UpdateKeeps` that the update of a known reservation does, or puts the connector into `reassigned`.

`ReservationKept` is an action property: what loop() does is broken up into connectors, reservations, reset
(`Loop`), in the order of the code, of which the mutant has the first two the other way round.

`Metering_proof` is about journals, records and caches of any size and any number of sessions. Assumptions:
`ConstantsAssumption` (a record has room for two values, the begin and the end, and the journal for no more
transactions than there are numbers; Transaction.h:45 asks for more) and `NoneAssumption`. There is no other hypothesis. `IInv`
adds to `TypeOK` and `StopDataIsOwn`:

- `Numbered`: the transactions of the journal have consecutive numbers up to the one given out last, so that no two have the
  same, although numbers start over and a rollback gives one back;
- `Phases`: those before the last one have stopped, and a silent one does not become stopped;
- `FilesOwn`: the files of a transaction that is still to be reported are a prefix of the record, all of its session, the first of
  the begin, and the last of the end once it has stopped. The files that a power failure leaves behind may be of anybody:
  they belong to no such transaction, and the next one with their number cleans them up first;
- `DataAgrees`: the object in memory is the current transaction's and is what restore() would read from the files, unless
  the transaction has gone silent. So it does not matter which of the two getTxMeterData() takes, and no older object
  makes remove() stop short (`RemovedCount`).

`MvCountOfFiles` says what the scan for the last file returns (its maximum exists by well-foundedness, `Greatest`), `AddedIs`
that a further sample changes object and files alike, also with a full record. `LastChanges` and `EntryChanges` say what a
change of one transaction leaves of the invariant; there is then one lemma for each action. `IInv` has been checked with
TLC on the instance of the run `services` first.

`TransactionService_proof` is about a journal, an event record, sessions, attempts and boots of any number, and any
start and stop points. Assumptions: `ConstantsAssumption` (as for `Connector`, and EventRecordSize is 3 or
more, without which a full record has no event to give up) and `NoneAssumption` (`None` is no session, transaction, file or event).
Each theorem has the hypothesis `~BeginEarly`; TLC finds `StartAndEndKept` violated without it, as described under "What
else was met". A transaction is proved about as a pair of the object and its files, whose last one is all that a boot
has. `IInv` adds to `TypeOK`:

- `Sound`, of a pair: each event of the record has its file, no other file but one with the state lies there, and the
  last file restores what the object says, up to a decision of the server that processConf() has made in memory. Giving
  up events of a full record, commit() and remove() keep it, and each file operation of theirs does (`ShrunkIs`,
  `WrittenIs`, `RemoveEventIs`);
- `Journal`: from `txNrBegin` on lie RecordSize sound transactions or fewer, and perhaps a silent one beyond, in the order
  of their sessions, and no file elsewhere. So the scan at boot finds the oldest and the newest;
- `Objects`, `FrontIsFirst`: the transaction of the EVSE is the last entry, that of the queue the one at `txNrFront`, and the
  event at the front is the oldest of its record. Both may be the same object, and an emitted event may be the
  first of an empty record;
- `Passed`: what the queue has gone past is reported, aborted or silent;
- `Owed`: each first or final event that is owed is in the record of its entry. With `Passed` this is
  `StartAndEndKept`: a transaction that owes something is not done with. A record that is full gives up only events between
  others, and an eviction or a rollback only what is done with;
- `InOrder`: what is left of the records is not older than what the server has received. It is stated for the files, so
  that a reboot, which loads the events again, is covered; it gives `EventsInOrder`.

`Follows` says what one entry may become in a step so that the invariant of the journal is kept. The lemmas about
journals are stated for any pair that follows another one, and each action then has a lemma that its pair does.
`TrimmedIs`, `LeftIs` and `GoneIsDone` are about the entries that beginTransaction() removes, and `CutOffStep` says that a boot
finds the journal again from any files of a pair that are Sound, which covers the power failures between file operations. `IInv` has been checked
with TLC on the instance of the run `journals` first.

## What is only model-checked, and what is not modelled

- Liveness (`RequestsEnd`, `TxMessagesEnd`, `SessionsAreReported`, `StationRegisters`, `UpdateEnds`): TLAPS does
  not handle fairness and ENABLED.
- The services of `MCServices` beside `Metering` and `FirmwareService` have no proofs. What they
  are correct about is mostly computed over sequences, by folds or recursively (sums of revisions in `Configuration` and
  `Variables`, the limit in `SmartCharging`, the bisection in `AuthorizationList`, the days of `Clock`, the chunks of
  `Diagnostics`), and what such a definition returns for every input is out of the reach of the installed provers.
- Partly modelled; the notes in `PROJECT.json` say what is left out of each: mostly data (units, phases,
  attributes, the contents of reports and events), and the services of OCPP 2.0.1 beside transactions and variables.
- Not modelled: certificates (cryptography behind an interface, hardly any state), the filesystem and memory adapters
  (platform services), the C and C++ API (passes each call on), JSON and its parser. File operations succeed unless the
  power fails, but in `Configuration` and `Variables`; running out of memory is left out.
