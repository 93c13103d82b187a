# Verification of the blockchain-based drone system

TLA+ models of the code in `src/`, model-checked with TLC on small instances and, where marked,
proved with TLAPS for every value of the constants. `PROJECT.json` maps every definition to the
lines it models and lists runs, mutants, findings, hazards and theorems.

## 1. Inventory

| Component | State | Operations | Hard behaviour |
|---|---|---|---|
| Block, consensus rules (`blockchain/block.py`, `consensus.py`) | index, payload, previous hash, hash, signatures of a block | hash, sign, `valid_signatures`, `has_majority`, `check_block_acceptable` | the rules must be enough for a network without a leader |
| Node (`blockchain/node.py`, `chain.py`) | list of blocks, its JSON file | `/validate`, `/commit`, `/chain`, `/chain/tip`, `/verify_integrity`, start | Flask threads without a lock; kill between truncating and writing |
| Client (`blockchain/client.py`) | locals of one proposal | `get_tip`, `request_signature`, `commit_to_all`, `propose_and_commit` | stale tips, rival proposals, timeouts, partial commits |
| Key registry (`blockchain/keys.py`) | `known_nodes.json`, one PEM file per node | generate, load, save, sign, verify | read-modify-write under a file lock that readers do not take |
| Agents (`agent/base.py`, `agent_a.py`, `agent_b.py`) | API client | `propose`, `_parse_proposal` | an answer that is not JSON raises `AgentError` |
| Coordinator (`agent/coordinator.py`) | locals of a cycle | `negotiate_cycle`, `run_and_record_cycle` | bounded rounds, tie-break |
| Flight (`simulation/safety.py`, `flight_cycle.py`, `flight_runner.py`, `sim_drones.py`) | positions, record so far | `run_flight_cycle`, `run_full_flight`, `Simulation.step` | an exception in mid-flight, sampling of the distance |
| Firmware (`firmware/common`) | last loop time, motors, safety flag | `begin`, `loop`, `triggerSafetyStop`, `writeMotors` | 32-bit clock, sensor failures |
| flix (`flix/*.ino`) | arming, commands and their time, parameters | `loop`, failsafe, control, commands, parameters | radio loss, a clock that wraps, passes that block, restarts |
| Demo (`demo/run_demo_flight.py`) | node processes, the report | `start_nodes`, `wait_health`, `main`, `narrate` | nodes that do not start or die under way, a flight that ends in an exception |
| Plots (`simulation/visualize*.py`) | none | plotting | none |

How they interact. A flight (one Python program) samples the simulated distance, asks the safety net
or the two agents through the coordinator, and writes each decision with `propose_and_commit`. The
demo starts the nodes, flies, and reads its report back from them. The
client talks HTTP to three node processes; nodes never talk to one another. Nodes share only the
files of the key registry. The firmware and flix are separate programs for microcontrollers; neither
talks to the Python side.

What makes each part correct: chains always verify, forks stay shallow and a majority's commit is
final (network); what a node acknowledged is on its disk (node); signatures are never misjudged
(registry); the record fits the path flown and no decision is head-on (flight); every cycle that the
flight went on from is on a majority of the nodes (demo); motors stop in time (firmware, flix). What could break these, line by line, is the list `hazards` of `PROJECT.json`.

## 2. Modules

| Module | Models | State and actions |
|---|---|---|
| `Block` | `block.py`, `consensus.py`, the checks of `chain.py` and of `/validate` | no state; a digest is the sequence of what was hashed, so digests are equal exactly when the histories are. Ed25519 and SHA-256 are assumed unforgeable and collision free |
| `PoANetwork` | three nodes and the clients | one request to one node is one action (`GetTip`, `RequestSignature`, `RequestCommit` and the ways each fails); `Crash`, `Restart`; `ServeLate` is a commit served after its client gave up, and one that never reaches its node is in no variable |
| `AuditLog` | the abstract specification: an append-only record of linked digests | `Extend` |
| `ChainNode` | one node opened up: `/commit` in its steps (checks, index check, append, dump, open, write, reply) on request threads that interleave, `/validate`, kills, starts | `blocks` is the list in memory, `file` the disk, `Torn` a file that does not parse; the history variables `raced` and `early` say which requests have overlapped |
| `DurableNode` | the abstract specification of one node: a commit is served in one step, and a kill loses nothing that was answered or voted on | `Serve`, `Answer`, `Vote`, `Kill`, `Restart` |
| `KeyRegistry` | `keys.py`: start-up under the file lock, sign, verify, kills | one action per line that touches a shared file or the lock |
| `Negotiation` | `coordinator.py`; the agents are its environment | `ProposeA`, `ProposeB`, `AgentFails`, `Decide` |
| `FlightRun` | `run_full_flight` and all it calls; extends `Negotiation` | one action per block proposed, per cycle and per simulation step; `flown` is the `path_history` |
| `DemoFlight` | the demo: `FlightRun` with `Negotiation`, and `PoANetwork` with one client, composed | `Propose`, `Proceed`, `Conclude` are one proposal; `FlyOn` is what the flight does between two; `ComeUp` .. `NeverHealthy` start the nodes, `ReadFirst` .. `StopNodes` report and stop |
| `FlightController` | the firmware's `begin` and `loop` | the loop's early return, pass, reading, stop; `Tick` and `Approach` are the world |
| `Flix` | `loop()` of flix, part by part, and `setup()` | `Step`, `Control`, the commands, `CommandTest` and `TestEnds` around a motor's test, `ProcessMavlink`, `SyncParameters`, `CommandReset`, `Restart` |
| `MC*` | instances for TLC | routes, requests, the geometry of the scenarios, a clock that rounds |
| `*_proofs` | theorems and proofs about the module they are named after; `AuditLog_proofs` is the refinement | |

How they compose. `FlightRun` sees `propose_and_commit` as one of three outcomes: the block is
recorded, it is returned although it is on no chain, or an exception is raised. `DemoFlight` takes
these steps of `FlightRun` when a proposal of `PoANetwork` has ended. Which of the first two it is, is
not for the flight to say, which does not look at the results of its commits: the ledger grows when
the block is on a node's chain by then (`Kept`). `RecordIsComplete` says that up to one failure nothing
the flight went on from is missing. `PoANetwork` in turn takes a node's commit for one step that is on
the disk when it is answered; that is `DurableNode`, and `ChainNode` refines it until requests overlap
in one of two ways (`ImplementsNode`; history variable `saved`, the last text that was written to its
end).

Assumptions about overlap. Flask serves each request on a thread of its own and nothing is locked.
`ChainNode` has that, with any number of threads. `raced` becomes true when a `/commit` passes its
check while another one is between its check and its written file: from then on a chain may be broken
for good (`node_race`), a torn file may be written, an acknowledged block may be lost, since the older
of two dumps may be written last, and no property of `ChainNode` says anything. `early` is the set of
blocks that `/validate` signed between another thread's append and its file, which a kill may part
from their parents. `PoANetwork`, and what is built on it (`AuditLog`, `DemoFlight`), assume that
neither happens: all that is checked and proved of them is about nodes that serve one request at a
time. With two clients, or one client and a late request of its own, the code does not see to that.

Assumptions about the registry. `KeyRegistry` has the POSIX branch of the lock, which waits for as long
as it takes; on Windows `LK_LOCK` gives up after about ten seconds and the start raises
(`keys.py:79-81`). It has one process per node at a time. The code does not prevent a second one: a
process makes its key (`node.py:57`) before it binds its port (`node.py:151`), and two first starts of
one node may leave a key in the registry that is not the one in the file.

Abstractions. Payloads, keys and parameter values are model values or small numbers. Space is, for
each pair of ways the drones have yet to go, the distance between them (`Gap`, any function in the
proofs). Time is counted in units in which the thresholds are a few units long. In `FlightRun`, an
arrived drone stays where it is and `flown` goes on with it, where its `path_history` does not; the
proximity reading is the distance, so the fail-safe for an invalid reading (`safety.py:49-55`) has no
case. In `Flix`, throttle
is counted in the time the descent takes to bring it to zero, so `dt / DESCEND_TIME` is `dt`, full
throttle is `DESCEND_TIME`, and a command may be below off or up to `MaxThrottle`, which stands for
the 32767 / 1000 that an `int16` can carry; all parameters behave as one, which is a gyroscope's bias
where `Measured` says so: `setup()` measures these after it has loaded them, so that the variable may
start with any value (`Measured = TRUE` has the behaviours of `FALSE` among its own); `setup()` takes
up to `SetupTime`; the clock rounds (`Rounded`), as the float it is, to within `Resolution`; what
control computes is replaced by "armed motors may turn or not"; while a motor is tested (`pc =
"test"`), it turns at full whatever is armed, and `active` is about the others; of a packet, the last
`MANUAL_CONTROL` and the last `PARAM_SET` count, and a `PARAM_SET` may be for no parameter, which is
acknowledged all the same. In `FlightController`, a reading
says what is so or was so at most `Staleness` ago. Histories that exist for the properties only:
`acked`, `signed`, `used`, `saved`, `raced`, `early` (network, node, registry), `changed`, `since`, `cleared` (firmware),
`uptime`, `heard`, `calm` (flix).

## 3. Runs

Passing runs:

| Run | Shows | Bounds | States |
|---|---|---|---|
| `network_faults` | chains verify, votes stand, forks stay at the tip, acknowledged blocks stay, majority commits are final; refinement of `AuditLog`; with one client and one failure a majority keeps a common tip | 2 clients, 3 payloads, every order of the nodes, 1 kill, 1 unanswered request | 219,188 |
| `node_requests` | until two commits overlap: chains verify, what was acknowledged is in every file that loads, and so is the parent of every vote that was not given before the file; the steps refine `DurableNode` until requests overlap | 2 threads, 4 requests, 2 kills at any step | 381,776 |
| `registry_starts` | no signature misjudged, no start fails without a kill, every start ends | 3 nodes, 1 kill | 90,637 |
| `flight_swap` | record fits path, no head-on decision, summaries count the record, one block per cycle if none goes unrecorded, flights end | lengths 3 and 4 half-metres, speeds 0 to 2, 2 steps per cycle, 3 cycles, 3 actions | 318,755 |
| `flight_network` | with one kill or lost answer at any request, a majority holds every cycle the flight went on from and nothing else; a report of agreement counts that; the script ends | 3 nodes, 1 kill and 1 unanswered request, a conflict in cycle 1, a safety stop in cycle 2, 2 actions | 73,532 |
| `firmware` | the time step is true over the wrap; readings are fresh; stop in time | a clock of 16 values, interval 4, calls up to 2 late, readings up to 3 long | 23,008 |
| `flix_flight` | silence stops the motors, parameters get saved, with a clock that rounds, commands of any size and a parameter that is measured at each start | 12 units of time, clock of 16 exact to 4 and even from there on, passes and blocking commands up to 2, `setup()` up to 1, commands from -1 to 3 with full throttle at 2, any number of restarts | 1,146,614 |

Why the bounds are enough to be interesting: three payloads let two clients race for one height and
one of them build on top (a fork two deep needs no more), and let one client propose twice after the
failure that `NeverStuck` allows; two threads are enough for every overlap, and the four requests are
a block, its successor, a rival, and a copy without a majority; two kills let a node be killed,
started and killed within one commit; three cycles hold a safety stop, a negotiation of one round and
one of two, and speed 0 is a drone that never arrives; a clock of 16 wraps in the middle of every
phase of the loop; 12 units are two losses of the radio with a recovery between them, a descent from
above full throttle among them, and the clock rounds by as much as a short pass lasts from 4 units on.
In `flight_network` a kill and a lost answer can fall on any request of six blocks, also on both; the
properties about the record speak of behaviours with one. The bounds on kills, unanswered requests,
payloads, cycles and uptime are constants used in guards and named there.

Findings: runs whose property TLC refutes. Each states what the repository says of itself.

| Run | What happens |
|---|---|
| `network_stuck` | Two clients with different node orders, no failure at all: after four proposals the three nodes are on three tips. A node signs only on its own tip and none copies another's chain, so no block can get two signatures ever again. One client gets there too, with two lost commits: one block does not reach one node, the next, built on that node's tip, does not reach another; or with kills. `NeverStuck` says that one such failure is not enough |
| `node_race` | `try_append` takes no lock, Flask has threads: two commits pass the checks against one tip and both are appended; `/verify_integrity` reports the chain broken from then on |
| `flight_unrecorded` | every node may reject a block after it was signed; `propose_and_commit` returns it all the same, and the cycle counts although nothing is on the chain |
| `demo_agreement` | one commit request to the third node is lost; the report compares the other two and says "All 3 nodes agree on identical history: True" (`run_demo_flight.py:187-190`) |
| `flix_wrap` | the radio falls silent shortly before `micros()` wraps after 71 minutes: `t - controlsTime` is negative and the failsafe does nothing for another 71 minutes; armed motors keep their throttle |

Other disagreements that the models have and no run is spent on, because one line of code shows them:
a dead node makes `get_tip` or `request_signature` raise, so with one of three nodes killed every
proposal that lists it ends in an exception although two signatures could be had (`client.py:37`
against `node.py:9-10`); a kill between truncation and writing leaves a chain file that ends every
later start of the node (`chain.py:67`, the value `Torn` of `ChainNode`); the drones fly on after a
safety stop, since `run_full_flight` records decisions and applies none (`flight_runner.py:129`
against `safety.py:4-6`); `verify` reads `known_nodes.json` without the lock that writers hold, and
raises if it finds the file truncated (`keys.py:142`; `Verify` of `KeyRegistry` has it); a node that
never gets healthy makes the script leave the others running (`run_demo_flight.py:203` is before the
`try`; `NeverHealthy` of `DemoFlight`). In flix, `controls` are documented as "normalized controls in
range [-1..1] ([0..1] for throttle)" (`flix.ino:32`), and `mavlink.ino:91` stores any `int16` over
1000: a throttle of 2 takes twice `DESCEND_TIME` ("time to descend from full throttle to zero",
`failsafe.ino:7`) to descend, and 32.767, MAVLink's mark for an axis that is not valid, 98 seconds;
a `PARAM_SET` is acknowledged with the value asked for also when `setParameter` knows no such name
(`mavlink.ino:131-136`); the biases of the gyroscope are parameters that are saved, loaded, and then
overwritten by each start (`imu.ino:35`); and a motor's test turns its motor at full for three seconds
in which the failsafe does not run (`cli.ino:104-113`). After the wrap of its clock, flix also stops saving parameters, logging
and sending heartbeats until the old times are reached again.

Deadlock. Checked in `firmware` and both flix runs. The other configurations say `CHECK_DEADLOCK
FALSE`: payloads, kills and cycles are used up, and a flight ends.

Mutants. Each property of a passing run has a mutant in the module it is about: a comment
`A bug: ...` marks the operator that stands for the plausible mistake.

## 4. Fairness

- `PoANetwork` and `ChainNode` have none: their properties are about safety. That a proposal comes to
  its end is part of `DemoEnds`.
- `KeyRegistry`: weak fairness of each process on its way up, strong fairness of the lock: `flock`
  wakes a waiter when the lock becomes free (POSIX, see section 2). Nobody must start a process.
- `FlightRun`: weak fairness of the program; the agents' API and `requests` return or raise.
- `DemoFlight`: weak fairness of the script (`Main`): `requests` is called with a timeout of 5 seconds,
  so a request is answered, refused or given up. A node need not come up, none is started again, and
  no late request must be served.
- `FlightController` and `Flix` need none: "in time" is said with clocks.

## 5. Proofs

All theorems hold for every value of the constants under the named `ASSUME`s of the modules, and
those hypotheses that the theorem states itself. The network's assumption is that there are finitely
many nodes and that `RequiredSignatures` is a majority of them.

**`PoANetwork_proofs`**, `AuditLog_proofs`. The inductive invariant grows in three stages.
`IntegrityInv` = `TypeOK`, `IndexIsHeight`, `IntegrityHolds`: needs only the rules of
`check_block_acceptable` and the index check of `try_append`, and holds without disks too.
`HistoryInv` adds `VotesStand`, `ParentOnMajority`, `CommittedIsKept`: with disks a node never loses
a block, so what a vote meant stays true, and a committed block's parent is where the votes came
from. `RecordInv` adds `ForkOnlyAtTip`, that some chain is longest, and that all begin with genesis.
The key step: the parent of a new block lies on a majority, the parent of any rival's successor too,
the two majorities share a node, and a node holds one block per height. `NetworkImplementsAuditLog`
maps the record to the longest chain without its tip, and shows that each step extends it by one
linked digest or leaves it alone. The hypothesis `Persist` is needed: without disks a restarted node
forgets and the fork can be deeper.

All of it is about nodes that serve one request at a time (section 2).

`OneClientNeverStuck` is about one client at a time (`Alone`) that asks every node (`Covering`, the
order is free), with no more kills and unanswered requests than `SpareNodes`, the nodes that a majority
can do without; disks are not needed, and a lost commit may be served late or never. `SteadyInv`:
there are a set `X` of nodes, one at most for each failure so far, and a chain `c`, such that every
node outside `X` is up and has `c`, or `c` and the block under way once its commit request was made. A
majority has a member outside `X` (`BeyondX`), which votes on top of `c`, so that a block that gets its
majority is appended by all the nodes outside `X`, and these are a majority; late requests and restarts
only touch `X`. `network_stuck` shows that two clients break it.

**`KeyRegistry_proofs`**. `RegistryInv`: the holder of the lock has read the registry under the
lock, so what it writes has every entry that was there; the key a node has signed with is the one in
its file and in the registry from its registration on; a torn file is due to a kill.

**`FlightRun_proofs`**. `FlightInv`: `flown` has `StepsPerCycle` entries per finished cycle, so the
reading of cycle i is entry `(i - 1) * StepsPerCycle + 1`, each decision fits its reading, and the
record fits the path. `LedgerInv` (for `SummariesMatchRecord`, if no proposal goes unrecorded) says
that the ledger is two pre-flight blocks followed by `cycles`; a bijection between positions makes
the counts equal. `OneBlockEachCycle` has the same hypothesis: a cycle ends with one block on the
ledger. `flight_unrecorded` shows why it is needed.

**`FlightController_proofs`**. `FirmwareInv`: a pass is never later than one call after its interval,
so between two passes the counter cannot go round (`ClockAssumption`: interval, call and reading fit
into the clock), unsigned subtraction is the true time, and every pass renews the clear reading or
stops the motors.

**`ChainNode_proofs`**, for any number of threads. Types hold whatever runs at once. The rest is for a
node with a disk (`Persist`) and speaks of behaviours up to the overlap. `NodeInv` says that until
`raced`, at most one thread is between its check and its written file (`Busy`), and follows that one:
before the append and after the write, memory is what was last written to its end (`saved`); in
between it is ahead by the one block that passed both tests; the file is that text, or torn while the
thread is at its write or after a kill there. Acknowledgements are given where memory and `saved`
agree, votes there or into `early`, so they are promises about the disk; and the whole of `/commit`
shows in `saved` as the one step `WriteFile`: `NodeImplemented` maps it to `Serve` of `DurableNode`.
`SerialNodeImplemented`: with one thread neither overlap happens, and the node is a `DurableNode`
without any condition.

**`DemoFlight_proofs`**. `UpInv`: a process on its way up is not healthy yet. `PartsInv`: the flight's
`FlightInv` with the network's `IntegrityInv`, shown to be inductive in the whole by the step lemmas
of both modules, since the script starts, stops and reads the nodes besides. It gives
`DemoTypeCorrect`. `RecordInv`: as long as there was at most one failure, there are a set `X` of at
most one node, empty before the failure, and a chain `c` whose blocks are the flight's ledger, so that
every node outside `X` has `c`, or `c` and the block under way once its commit request was made. What
keeps it: a block needs a vote from outside `X` (`MajorityReaches`; here two signatures are required,
by `MajorityAssumption`), a vote from there is a vote on top of `c`, so a block with its majority is
appended by every node outside `X`, and so none is returned that is on no chain (`Complete`); a late
request can only go to `X`; and a node comes up with genesis only before the flight (`Fresh`), when
all have genesis. Counting the holders gives `FlightAlwaysRecorded`; with `Complete`, which is where
`FlightRun`'s `LedgerInv` and `OneBlockPerCycle` are shown of the ledger on the nodes, it gives
`RecordAlwaysComplete`. `ReportInv`, for `AgreementAlwaysCounts`, adds to it the moment between the two
reads. If the first node is outside `X` it has `c`, and what was read is the ledger. If it is exempt,
the second is not, and a report of agreement means that two chains that verify have the same digests,
hence the same data (`SameHistory`). That the first node still holds it then (`ReadSoFar`) is a matter
of late requests: one may yet be served there, but only for a block no higher than the flight's last
(`Missed`, with `LastIndex`), and a node that has the whole flight rejects that. The assumptions: a
majority is at least two nodes and not all of them, the URLs name each node once, and those of the two
parts.

**`Flix_proofs`**. `MotorsInv`: at the end of each pass, throttle plus the time since the command, by
the clock, is at most the timeout plus the highest command, because the descent takes `dt` off and the
`dt`s add up to the time of the clock. `SavedInv`: `lastSync` is later than the last moment at which
all was saved, a motor was active or the board was started by no more than `Resolution`. True times differ from the clock's by
`Resolution` at either end. `RoundingAssumption` says that the clock rounds to within `Resolution`
and keeps the order of times, as conversion to `float` does; with the rounding terms left out of the
two bounds TLC refutes them. Both need `NoWrap`: the board is switched off before its clock wraps.
`flix_wrap` shows what happens otherwise.

Only model-checked: liveness (`StartEnds`, `FlightEnds`, `DemoEnds`), which is beyond the prover. Every
safety property of a passing run is a theorem.

## 6. Not modelled

Agents' prompts and the API; HTTP itself; plots, the animation, the scripted agents and the wording
of the demo; `run_and_record_cycle` (the same cycle without a safety net) and the sensor faults that
only tests inject; `/verify_integrity` after tampering with files; attitude estimation, PIDs, filters
and motor mixing of both firmwares (floating-point); telemetry; flix's log buffer, which nothing but
a debugging command reads.

## 7. Plan

Done, in this order: `Block`, `PoANetwork`, `AuditLog` and their proofs; `ChainNode`; `KeyRegistry`;
`Negotiation`, `FlightRun`; `FlightController`; `Flix`; then the proofs of `ChainNode` and its
refinement of `DurableNode`, the rounding clock of `Flix`, and `DemoFlight`, the composition; then the
proofs of its types, its record and its report, and of `NeverStuck`; then the threads of `ChainNode`,
with their proofs.

Left:

1. `PoANetwork` over nodes whose commits may overlap: which of its properties survive a race on one
   of the three nodes, and which do not.
2. Tamper evidence: what `verify_full_chain` notices when a block of a file is changed, and what it
   does not (it does not look at the first block).
3. flix's log buffer and telemetry timers.
4. The composition of flight, firmware clock and proximity stop: how far a drone gets after the
   trigger.
