# Verification of the Phoenix NPU post-quantum and QKD services

TLA+ models of the stateful parts of this repository, TLC configurations that
check them on small instances, and TLAPS proofs that hold for every value of the
constants. Paths below are relative to `phoenix_sdr_dsp/pqc/` unless they start
elsewhere.

## 1. The system

The repository runs post-quantum cryptography on the AIE2 tiles of an AMD Phoenix
NPU. Each milestone DRn is a service: a kernel in C++ (`kernels/drN_*.cc`), a graph
in Python that joins tile workers by ObjectFifos and dispatches one request
(`drN_*_graph.py`), and an ABI that packs descriptors and unpacks results
(`drN_*_abi.py`). A host call fills a request and a descriptor, waits for the
terminal result, and unpacks it. Most services are functions of one request. The
interesting state is where a kernel keeps statics between requests, where several
workers run concurrently, and where the host keeps sessions.

### Inventory

| component | state | operations | interacts with | what makes it correct |
|---|---|---|---|---|
| DR27 entropy reservoir | ring of 16 blocks, head, tail, fill count, mode (tile statics) | ingress, drain, status, zeroize | QRNG appliance over HTTP, DR23 provider | FIFO; a block is handed out once; no residue after a drain or a wipe; the mode follows the water marks and does not flap |
| DR23 OpenSSL provider | none of its own; seeds in flight | keygen, encapsulate, decapsulate, sign, verify | DR27 for seeds, DR5-DR15 graphs | no seed is used twice; no output from a known seed |
| DR10 sealed lifecycle | one session slot (tile static) | raw ingress, authenticated ingress, teardown | hosts, key sources; DR23 token (by intent) | fail closed; key bound to domain and epoch; freshness |
| DR23 PKCS#11 token | sessions, login, objects, sign and verify contexts, handle counter | the `C_*` functions | provider, DR10 (by intent) | keys only while logged in; contexts and handles never outlive their object |
| the 60 tile graphs of DR0 to DR42 | ObjectFifos between 1 to 7 workers and the host | one `run_*` each | host callers; DR23 provider | every call returns, unless left results clog the graph; each result is handed out once and in order; a failed stage gives no answer |
| DR41 key vault | 8 slots; the host sends the whole bank with each request and keeps it from the results, the tile keeps none | store, derive, transition, zeroize, query | DR10, DR16 (by intent) | a destroyed slot holds no key and only a new key takes it back; no key is derived from a compromised one; kernel and Python oracle agree |
| DR16 QKD-014 service, `idq_qkd_adapter.py` | ring of four keys, last epoch (tile statics); keys at the appliance | ingress, get key, get key with id | remote KME | a positive epoch is accepted once; the ring has the last four keys |
| what the graphs compute | none kept | keygen, encaps, sign, verify, combine, hash | | bit-exact functions (known-answer vectors) |
| `run_all_silicon_tests.py` | results of gates | run a gate, parse its record, summarise | child processes, source files | evidence is of this execution; the suite ends; the summary accounts for every gate |
| `tools/` | status files | verify evidence, promote | git, files | no promotion without evidence |
| installer, demo packaging | files | install, build archive | operating system | - |

### What is hard here

* Statics on a tile outlive a request and are shared by every process that can
  dispatch: operations of several hosts interleave request by request, and a
  reload of the hardware context resets the statics (`customer_demo/GO_NO_GO.md`
  reports that user-mode XRT does so).
* A dispatch may raise before or after its kernel has run. The host does not know
  which; in a pipeline, the workers may carry on with the abandoned request, and
  what they make of it is the first thing the next call finds.
* Multi-step host calls (two drains for one key pair, a login test before a long
  dispatch) leave windows for others.
* Bounded FIFOs between workers that each need inputs and an output buffer.
* Every failure path must leave no secret behind and give no output.

The hazards are listed one by one, with their lines, in `PROJECT.json`.

## 2. Modules

| module | models | built on |
|---|---|---|
| `EntropyQueue` | what the reservoir promises: a bounded FIFO that loses nothing but by a wipe, a reload or a lost answer | |
| `QrngReservoir` | DR27 kernel, dispatch and fetch | refines `EntropyQueue` |
| `QrngReservoirProofs` | theorems about it | |
| `ProviderSeeding` | the provider's calls over the reservoir | EXTENDS `QrngReservoir` |
| `ProviderSeedingProofs` | theorems about it | EXTENDS `QrngReservoirProofs` |
| `SealedLifecycle` | DR10 service | |
| `SealedLifecycleProofs` | theorems about it | |
| `Pkcs11Hsm` | the PKCS#11 token | |
| `HsmOverSealedSlot` | token and slot on one device | EXTENDS `Pkcs11Hsm`, `SealedLifecycle` |
| `Pkcs11HsmProofs` | theorems about the token, alone and beside the slot | EXTENDS `SealedLifecycleProofs` |
| `RemoteCalls` | what a tile graph promises its callers: one reply to each call, in their order, out of one line of payloads | |
| `TileGraphs` | any tile graph: its workers, ObjectFifos, failing dispatches and host calls | refines `RemoteCalls` |
| `GraphTable` | the pipelines of DR0 to DR15, as the records `TileGraphs` runs | |
| `ServiceTable` | the services of DR16 to DR42, likewise | EXTENDS `GraphTable` |
| `TileGraphsProofs` | theorems about every set of graphs | |
| `QkmsVault` | DR41: kernel, oracle and the bank between them | |
| `QkmsVaultProofs` | theorems about it | |
| `QkdKeyRing` | DR16 kernel and the KME adapter | |
| `QkdKeyRingProofs` | theorems about it; no run | |
| `SuiteRunner` | `run_all_silicon_tests.py`: gates, records, summary | |
| `SuiteRunnerProofs` | theorems about it | |
| `MC...` | small instances for TLC | |

Operators whose comment begins with "A fault" are plausible bugs of the definition
beside them. Nothing uses them: they are substituted for it to see that a property
notices.

### QrngReservoir (`kernels/dr27_qrng_reservoir_service.cc`)

`reservoir`, `head`, `tail`, `fill`, `mode` are the five statics of the kernel.
`fetched` is what a process holds between the HTTP answer and the push, `reply` the
status and payload of its last dispatch. `swing` is a history variable that counts
blocks moved since the mode changed; nothing reads it but the properties. Blocks
are identities: an appliance's random bytes never repeat, so `Fetch` draws a block
that is nowhere in use. The shape of the fetched data (its length and its
repetition and proportion counts) is data of the instance; `HealthCounts` and
`PreflightOK` say what host and kernel do with it. One dispatch is one action because
the tile runs one request at a time and the host waits for it. `IngressRaises`, and
the EXCEPTION alternatives of `IngressStored`, `DrainBlock` and `Zeroize`, are the
dispatches that raise before and after the kernel ran. `Reload` is external: the
context goes away and the statics start anew.

`Contents` maps the ring to the queue of `EntropyQueue`: the `fill` slots from
`tail` on, modulo the capacity. `DrainBlock` maps to `Take`, `IngressStored` to
`Offer`, `Zeroize` to `Wipe`, `Reload` to `Lose`, the others to `Pass` or a
stutter.

### ProviderSeeding (`dr23_openssl_provider.py`)

`job` is a provider call in progress: how many seeds it needs and the ones it has.
Each `DrainSeed` is a dispatch of its own; other clients' operations, and `Reload`,
run in between. An output is a function of its seeds and is represented by them.
`DrainRaises` is the `except` branch, with and without a block lost on the way.

### SealedLifecycle (`kernels/dr10_sealed_lifecycle_service.cc`)

`slot` is `g_sealed_slot`. An envelope carries a content (epoch, domain, key) and a
tag that is the digest of some content or of none; SHA3-256 is collision free, so a
digest is the record of what it was computed over. The tests of mode 2 are the
disjuncts of `QkdIngress` in the order of the code. `floor` (the epoch field of the
last descriptor) and `voucher` (the digest behind the slot's key) are history
variables. `NPU_DRBG`, mode 1, is in the ABI and not in the kernel: `OtherMode`.

### Pkcs11Hsm (`dr23_pkcs11_hsm.py`)

A token object is made by each `C_Initialize`, so a call that began before a
`C_Finalize` may finish in a token that is no longer current: `token` is a function
over objects and `current` says which is in use. `holding` is the set of key pairs
whose private bytes an object still holds, since `zeroize` wipes objects. Handles
count from 0 instead of 1000. `C_GenerateKeyPair` is split at its dispatch.

### QkdKeyRing (`kernels/dr16_etsi_qkd014_service.cc`, `idq_qkd_adapter.py`)

`ring`, `last_epoch` and `active_slot` are the statics of the kernel, the counter
modulo four. `GetEncKey`, `EncKeyTimesOut` and `GetDecKey` are calls to the key
management entity, whose `key_store` forgets nothing; between a fetch and its
dispatch other processes run. A dispatch may raise before or after the kernel
(`Answered`), and `QReload` loads the context anew. `Stale` is the kernel's test as it
is: it is off while the last epoch is 0, so epoch 0 is accepted any number of times,
though `docs/PQC_DR16_SILICON_VALIDATION_20260829.md:15` says that an epoch at or
below the last one is refused. The slot in an answer is the one after the key's,
since the kernel advances the counter before it fills in the answer. `RingHoldsTheLast`:
a refused key leaves no trace in the ring and an answer that is lost loses no key.
`EpochsGoUp`: a positive epoch is accepted once between two reloads.

### HsmOverSealedSlot

`zeroize` is written to wipe the DR10 slot as well. The function it calls exists
nowhere, so its last statement is `UNCHANGED` on the slot.

### TileGraphs, GraphTable and ServiceTable (`dr*_graph.py` and their kernels)

The graphs differ in three ways and share everything else, so `TileGraphs` is written
once for a `graph` that is a record, and the two tables have one record for each
graph of the repository, mapped to the lines of its own program and host call:

* `stages`: its workers in order. A stage has a `guard`, what its kernel does with a
  token that an earlier one failed (forward the status without the payload, forward
  it with the payload, not notice), and a `work`, what it does with a sound token
  (compute; sample, and give up at the block cap with the payload left in the token;
  serve or refuse with a status; mask, and when the attempts run out overwrite the
  identifier). `aligned` stages test their buffers. So do `misplaced` ones, but they
  write the error word into the field of the identifier, where the host reads a status
  of zero: the last stages of the six ML-KEM-768 and ML-KEM-1024 graphs, FIPS 202,
  SLH-DSA and FN-DSA. The last stage of ML-KEM-512 decapsulation does it too, and its
  host compares the identifier.
* `refuses`: the hosts the loading functions turn away (no packages; an emulator or a
  redirected device; no device).
* `compares`: whether the host call compares the identifier, the status, both or
  neither.

`fifo[k]` has the tokens in the full buffers between stages `k` and `k + 1`. A token
is its header (identifier, status) and `of`, the request its payload was computed
from, or `Nothing`. An iteration of a worker (acquire, kernel, release) is one action.
`Fill` and `Drain` are the runtime's sequence for the first caller that waits.
`LaunchFails` and `DispatchFails` are the exceptions: before anything is filled; while
the host waits, with the tokens going on through the workers or lost with the context;
and after the drain.
Which requests make which stages give up is data of the instance (`Failing`), and so
are the builds with unaligned buffers (`Builds`).

Every call of the code that names no identifier has the same one, 1, so a caller is
modelled to take any, and nothing in the model keeps two apart. A dispatch that fails
while the workers go on leaves a late result; any number of them may be left, until
they fill every buffer and the graph is clogged (`Clogged`). What the runtime does with
the tiles after a dispatch has raised is not in the repository: that they go on, or are
lost with the context, are the two outcomes assumed (`DispatchFails`).

`RemoteCalls` is a graph without its tiles: the requests that calls bring in stand in
one line, and whoever's turn it is gets what stands first. `PayloadsFrom` maps the
FIFOs to that line, the oldest payload first. A worker is a stutter, or `Spoil` when it
takes a payload away.

The staging arrays of the host are left out: what a call clears is a list of statements
in its `finally` blocks.

### QkmsVault (`kernels/dr41_qkms_service.cc`, `dr41_qkms_abi.py`)

The result of DR41 has no room for a bank, so the kernel works on the copy that comes
with the request and forgets it. `bank` is what the host keeps, computed by the
oracle `compute_reference_oracle`; `answer` is the kernel's result and `expected` the
oracle's. The two are written separately here as they are in the code:
`KernelAnswer` with `IsValidTransition` from the C++, the actions `Store`, `Derive`,
`Transition`, `Zeroize`, `Query`, `BadSlot`, `UnsupportedOp` with `ValidTransitions`
from the Python. A key is the set of the stored keys that it was derived from, the
empty set for zero bytes; the order of two sources and the salt are abstracted, since
kernel and oracle use the same. A checksum is the slot it was computed of.

### SuiteRunner (`run_all_silicon_tests.py`)

`results` grows by one result for each gate; `child` is the gate whose process runs
and `output` the framed records it has printed. A nonce is named by the position of
the gate that it was drawn for, 0 for one of an earlier execution; a source file is
named by its version, which `Edits` advances. A child prints its own record or any it
has kept, ends, hangs or is missing. `Accepted` has the tests that bind a record to
this execution; those that look at the record alone (schema, device, dispatch,
buffers) and at exit codes and rejected markers are the flag `sound`. `Counted` and
`Balanced` are the two validations of the summary.

## 3. Runs

The tile graphs take a minute and a half, every other run less than 90 s, with two workers.

| run | expects | instance | shows |
|---|---|---|---|
| `reservoir` | pass | 2 clients, 5 blocks, capacity 4, marks 1 and 3, 6 shapes | the ring is a FIFO without residue or duplicates and its mode does not flap |
| `provider_seeding` | pass | 2 clients, 4 blocks, capacity 2, marks 0 and 2, 1 output | no entropy is spent twice; a seed is zero exactly when its drain said RESERVOIR_EMPTY |
| `zero_seed` | violation | the same with 3 blocks | an output made from 32 zero bytes |
| `sealed_lifecycle` | pass | 2 domains, 3 epochs, 2 keys, every envelope over them | fail-closed wipe; binding of key, domain and epoch |
| `epoch_rollback` | violation | the same | a newer session replaced by an older key |
| `hsm` | pass | 1 thread, 2 sessions, 2 token objects, 3 key pairs | zeroization reaches every key, context and handle |
| `logout_race` | violation | 2 threads, 2 key pairs | a key used while nobody is logged in |
| `sealed_slot_survives` | violation | 1 thread, 1 key | a session closes and the slot keeps its key |
| `tile_graphs` | pass | 60 graphs, 4 hosts, 2 callers, 2 requests, 1 identifier, depth 1, any number of late results in chains of up to 3 stages, 2 tokens on the tiles of longer ones, 5 builds | results are handed out once and in their order, nobody waits in a circle, every call returns unless late results clog the graph, and a host that looks where its kernels report returns no unsound result |
| `late_result` | violation | DR7 alone, 2 callers, 1 identifier | a call returns the key of an earlier request, whose dispatch failed |
| `vault` | pass | 2 slots, 2 keys, 1 epoch, every request over them | kernel and oracle agree; destroyed slots are wiped; lives go one way |
| `suite_runner` | pass | 2 gates of 2 cases, 6 claims, 2 kept records, 1 edit | evidence is of this execution; the suite ends and is summarised exactly when it is complete |

Why the bounds are enough:

* `reservoir`: capacity 4 with marks 1 and 3 has a fill below, at, between and above
  both marks; the ring wraps at every offset; five blocks let the ring be full while
  a client holds one more. The shapes are an empty, a short, a healthy, a
  failing-by-repetition, a failing-by-proportion and a too long sample, at the
  cutoffs 10 and 177 of the code. The proofs lift the ring to every capacity.
* `provider_seeding`: one ring of two slots is filled, emptied and refilled around a
  call that needs two seeds; the other client can have a call of its own.
  `MaxOutputs = 1` bounds the outputs that are remembered: two jobs and one output
  give three places between which a block could be shared.
* `sealed_lifecycle`: three epochs are needed for one below and one above a third, two
  domains for a mismatch, two keys for a foreign tag over the same domain and epoch.
* `hsm`: two token objects are the current one and one that was finalized; three
  pairs are made before, after and beside a logout. With one thread no call runs
  during another's dispatch; `logout_race` is the same model with two threads, where
  `LoginRequired` fails (finding below); `KeysNeedARace` and `UseNeedsARace` prove, for
  any number of threads, that no other step than the one of that finding does it.
* `tile_graphs`: depth 1 instead of IRON's 2 makes a full FIFO reachable with few
  tokens. Chains of at most three stages (`Short`; all services and half of the 30 graphs of `GraphTable`)
  are run with as many late results as their buffers hold, so a graph is clogged there,
  and liveness is checked on the whole state graph. For the longer chains the
  CONSTRAINT `FewOnTiles` keeps at most two tokens on the tiles (`MaxOnTiles`): a late
  result and the current one. With them `EveryCallReturns` is checked on a truncated
  graph. One identifier is what the code uses by default; more of them only make calls
  raise that are given a result here. One request is sound and one makes every stage of
  1, 2, 4 and 5 that can give up do so, which is early and late in the chain; a build
  has no unaligned buffer, or one in the first, fifth, sixth or seventh stage, and so in
  the last one of every graph that misplaces its error word. Graphs
  with equal records are one graph to TLC. The proofs lift all of these bounds.
* `vault`: two slots let a derivation have equal sources, distinct sources and a source
  as its target; a slot identifier beyond the bank and the one of the whole bank are
  asked for by every operation.
* `suite_runner`: the second gate can be given the record of the first; the claims are
  all passed, one failed, skipped or xfailed, one too few and one too many; the kept
  records are complete and of the first gate, one inside and one outside the
  tolerance of the timestamps. A child prints at most two records, since the parent
  only tells one from any other number.

`MaxOutputs`, `MaxTokens`, `MaxPairs`, `MaxOnTiles` and `MaxEdits` are the bounds that are
not in the code; `MaxOnTiles` is one of the run and not of the module. `MaxTokens` bounds objects alive at a time, not calls of `C_Initialize`.
Deadlock is checked in every run but `suite_runner`: a suite
that has reported is over.

### Properties

* `ImplementsQueue` (refinement), `NoResidue`, `SingleHolder`, `ModeMatchesMarks`,
  `NoFlapping` of the reservoir; `SeedsNeverShared`, `StatusTellsZeroSeeds` of the
  provider over it.
* `InactiveIsWiped`, `KeyBound` of the sealed slot. The freshness the code gives is part
  of `KeyBound`: an active slot has an epoch at or above the one of the last descriptor.
* `KeysOnlyWhileLoggedIn`, `ContextsLive`, `LoginRequired`, `HandleNamesOneObject` of
  the token.
* `ForeignLeavesOwn`, `ImplementsCalls` (refinement), `FailsClosed`, `StopsOnlyClogged`,
  `EveryCallReturns` of the tile graphs. That a call gets the answer to its own request
  (`OwnAnswer`) is false, see below; what is true is that a call that is given another's
  result leaves its own on the tiles (`ForeignLeavesOwn`) and that results are handed out
  in their order and once, with nobody's content but their own (`ImplementsCalls`). With
  no failed dispatch before it a call therefore gets its own. `FailsClosed` is stated of
  the graphs whose host looks where the kernels report (`Truthful`). DR12's exhausted
  masking loop, and builds with an unaligned buffer where DR8, DR9, DR21 and DR22 misplace
  the error word, are what `Truthful` excludes: there a call returns an empty or
  worthless result. `StopsOnlyClogged` is the safety part of `EveryCallReturns`:
  workers, runtime and host never wait for each other in a circle. Both leave one way to
  stop, late results in every buffer of the chain before a sequence has begun.
* `KernelAgrees`, `DestroyedIsWiped`, `LifeGoesOneWay` of the vault. The code's table
  calls DESTROYED terminal for transitions; STORE and DERIVE overwrite a slot in any
  state, so what holds is that only a new key takes a slot back.
* `EvidenceIsOwn`, `SummaryOfCompleteSuites`, `SuiteEnds` of the suite. The second is an
  equivalence: a timeout, a missing script or an error in a gate makes the summary
  raise, because such a result counts all its cases as failed and none as executed.

### Fairness

`TileGraphs` and `SuiteRunner` have liveness. The `Fairness` of `TileGraphs` is weak
fairness of each worker, of `Fill`, of `Drain` and of `NoDevice`. A worker is an endless
loop on a tile of its own (`Worker` of IRON repeats its body), so a kernel that has
its buffers runs; the runtime's sequence starts and ends by DMA without the host's
help, and without a device the launch raises. There is no fairness on calls (nobody
has to call) or on other failures (nothing has to fail). Hardware that stops is not
modelled: the code has no timeout for it and would wait.

`SuiteFairness` is weak fairness of the parent (it goes on to the next gate, to the
summary, to its refusal) and of `TimesOut`: `subprocess.run` has a timeout for every
gate. A child is under no fairness: it may hang, silent or after printing.

### Disagreements between code and documents

1. `zero_seed`: the provider's comment promises entropy "if available, else
   urandom"; the status of an empty reservoir is dropped and 32 zero bytes become
   the seed. `StatusTellsZeroSeeds` shows that testing the status would be enough.
2. `epoch_rollback`: the design promises a monotonic epoch; the floor is taken from the
   request's own descriptor.
3. `logout_race`: the token announces CKF_LOGIN_REQUIRED; keys whose generation spans
   a logout are usable without a login. With one thread the property holds.
4. `sealed_slot_survives`: the release notes promise that closing a session wipes the
   DR10 slot; the function does not exist.
5. `late_result`: "Return device-produced byte-exact K (32 B) or fail closed", says
   `run_mlkem512_decaps`. A dispatch that raises while the host waits and whose workers
   go on leaves its result behind. The next call drains it, finds the default identifier
   in it and returns the key of the other ciphertext. It rests on the assumption about
   the runtime named above; an identifier of its own for each call would make
   `unpack_result` raise.

## 4. Proofs

### The reservoir (`QrngReservoirProofs`)

From `MarksAssumption` (a positive capacity, LOW < HIGH <= capacity) and
`DataAssumption` (zero is not a block, cutoffs are positive), for every set of
clients, blocks and shapes:

| theorem | statement |
|---|---|
| `Invariance` | `Spec => []IInv` |
| `TypeCorrect`, `ZeroResidue`, `SingleHolding`, `ModeCorrect` | the four invariants of the run |
| `AntiFlapping` | `Spec => NoFlapping` |
| `RefinesQueue` | `Spec => Queue!QSpec` |

`IInv` adds two facts to the properties. `RingShape` says where the head is:
without it a push could land on a live slot. `SwingCovers` relates the fill count
to the distance moved since the mode changed; it is what makes `NoFlapping`
follow. The lemmas `StoredIInv`, `DrainIInv`, `WipedIInv`, `QuietIInv` and
`FetchIInv` are the steps of `StepIInv`, one for each way an action changes the
tile. `WrapAround`, `WrapSum` and `AdvanceSlot` are the facts about the remainder
that the solver needs as single steps. The refinement uses that `Contents` is a
sequence (`ContentsSeq`), that a push appends to it (`StoredAppends`) and that a
drain takes its tail (`DrainTakes`).

### The provider (`ProviderSeedingProofs`)

From the reservoir's two assumptions, for every set of clients, blocks and shapes and
every number of outputs:

| theorem | statement |
|---|---|
| `ProviderIsClient`, `ProviderQueue` | `PSpec => Spec`, and so `PSpec => ImplementsQueue` |
| `SeedInvariance` | `PSpec => []SeedInv` |
| `ProviderTypes`, `NoSeedTwice`, `ZeroSeedsAreTold` | the three invariants of the run |

The provider's steps are steps of the reservoir, so its inductive invariant `IInv` is
there for free. `SeedInv` adds that a block has one place among calls and outputs
(`OnePlace`), that a block in such a place is neither on the tile nor in a container
still to be pushed (`SpentIsGone`), and that a zero seed has the status of an empty ring (`AllHonest`).
`NoSeedTwice` needs the first two together: a block that is drained is new to the
seeds only because `SingleHolder` and `SpentIsGone` held before.

### The sealed slot (`SealedLifecycleProofs`)

From `EpochsAssumption`, `KeysAssumption` and `GarbledAssumption`: `SealedInvariance`
(the inductive invariant `SealedInv`), `SealedTypes`, `FailClosed` and
`DomainSeparation`. `SealedInv` is the conjunction of `STypeOK`,
`InactiveIsWiped` and `KeyBound`; `KeyBound` needs the types, since it compares
epochs and reads the voucher as a digest.

### The token (`Pkcs11HsmProofs`)

From `BoundsAssumption` (at least one token object), for every set of threads and of
session identifiers and all bounds:

| theorem | statement |
|---|---|
| `HInvariance` | `HSpec => []HInv` |
| `TokenTypes`, `ContextsNeverDangle`, `HandlesAreNotReused` | `HTypeOK`, `ContextsLive`, `HandleNamesOneObject` |
| `KeysNeedARace`, `UseNeedsARace` | how `KeysOnlyWhileLoggedIn` and `LoginRequired` can be lost, step by step |
| `NoKeysLoggedOut`, `NoUseLoggedOut` | the two invariants, for one thread |
| `TokenBesideSlot` | invariants of token and slot together, on one device |

`HInv` bounds handles by the counter, the counter by the pairs made and the pairs by
`MaxPairs` less the generations that are under way, which takes the cardinality of the
busy threads (`BusyCount`).

`KeysOnlyWhileLoggedIn` and `LoginRequired` are false with two threads (`logout_race`).
`KeysNeedARace` says that one step alone can do it, whatever the threads: a key
generation that ends although its token was finalized or its user logged out during the
dispatch (`EndsTooLate`). No logout, close, finalization or initialization ever leaves a
key behind that was not brought in so. `UseNeedsARace` says that `LoginRequired` is lost
only after `KeysOnlyWhileLoggedIn` is: signing asks for no login and relies on the keys
being gone. For one thread `OneThreadStep` proves that no generation ends too late,
since no other call runs during its dispatch, and the two invariants follow.

### The tile graphs (`TileGraphsProofs`)

From `TilesAssumption` (a positive depth, graphs with at least one stage that accept a
device, a request that is neither an error nor `Nothing`), for every set of graphs,
callers, requests and identifiers, every depth, every number of late results, every
choice of failing stages and of unaligned builds:

| theorem | statement |
|---|---|
| `TilesInvariance` | the inductive invariant |
| `TileTypes` | `TileTypeOK`: types, and no FIFO beyond its depth |
| `TilesFailClosed` | `FailsClosed` |
| `ForeignAnswersLeaveOwn` | `ForeignLeavesOwn` |
| `NoCircularWait` | `StopsOnlyClogged` |

`PInv` follows a token along the chain. `AllSound`: a token that bears all the host
compares has a payload and has passed no stage of a truthful graph that should have
failed it, in whichever FIFO it is and whichever call it is of. It is what makes
`FailsClosed` hold of late results too; no assumption about identifiers is in it. A
graph that refuses the host has nobody waiting (`NoneRefused`). The lemmas about
`Append` and `Tail` lift a fact about tokens over a FIFO's two ends, and there is one
lemma for each action.

`ForeignLeavesOwn` needs `Newest`: while a sequence runs there is a token on the tiles,
and the newest one, in the first FIFO that has any, is of the request of that call or of
nothing. Workers keep it, since none drops a token and none overtakes. A call that
drains the last token therefore drains its own.

`NoCircularWait` is what a proof without liveness can say of "every call returns". It
takes from `Newest` that a running sequence has a token on its way. Then the worker
after the last token can go on, or the drain; before the sequence has begun, it is the
worker before the first free buffer, or the fill. That there is a last token and a first
free buffer in a chain of any length is `First` and `Final`, from the well-foundedness of
the naturals.

### The vault (`QkmsVaultProofs`)

From `VaultAssumption` (at least one slot, the identifier of the whole bank beyond all
slots, 1 an epoch), for every number of slots and all sets of keys and epochs:
`VaultInvariance`, `VaultTypes`, `KernelMatchesOracle`, `DestroyedStaysWiped` and
`LivesGoOneWay`. `KernelMatchesOracle` is a proof by cases over the oracle's
actions, each of which is compared with the case of `KernelAnswer` it lands in; it
needs the types because the transition tables are compared state by state.

### The key ring of DR16 (`QkdKeyRingProofs`)

For every set of processes and of keys and, with `MaxEpoch \in Nat` as the assumption
of each theorem, every range of epochs: `QTypesHold`, `RingIsAWindow` and
`NoEpochTwice`. `QInv` adds to the properties that the counter is the number of
accepted keys modulo four and that the last epoch is that of the last one accepted;
from these the step of an accepted key follows, by cases on whether an index is the
new one. `OwnSlot` says that two counts less than four apart are different slots.
The module has no run: what it says rests on the proofs alone.

### The suite (`SuiteRunnerProofs`)

From `SuiteAssumption` (a nonempty sequence of distinct gates, a positive number of
cases, claims of natural numbers, kept records without a nonce of this execution), for
every suite, every set of claims and every archive: `SuiteInvariance`, `SuiteTypes`,
`EvidenceIsFresh` and `SummariesAreComplete`.

`EvidenceIsFresh` follows from `Nonces`: a record made under a nonce has it, and a
printed record with a nonce was made under it, so the one that is accepted for the
running child is its own. `SummariesAreComplete` needs arithmetic. `Totals` are folds
over the results, and the summary raises if the folds do not add up to the cases of
the suite; the theorem says that this never happens by itself. `SumsExist` and
`TotalIsFold` turn a fold into running sums, `FiveTotals` adds five of them column by
column, and `CountedSuitesBalance` applies it to the four counts and the blocked
cases. Each induction is done by a least counterexample (`Least`).

### Only model-checked

`EveryCallReturns` and `SuiteEnds`: liveness under fairness is out of the prover's reach,
and so is ENABLED. `ImplementsCalls` maps the FIFOs to a line by recursion over the chain
(`PayloadsFrom`), and a fact about what a recursive definition yields for a chain of any
length is out of reach as well. No module with theorems declares or reaches a RECURSIVE
operator; where a fold had to be reasoned about (the suite's totals), its defining
recursive function was, and inductions are by a least counterexample, since the
library's induction theorems take an operator that no backend can instantiate. Every
other invariant and action property of a passing run is a theorem;
`KeysOnlyWhileLoggedIn` and `LoginRequired` are so for one thread, as in their run.

## 5. Not modelled, and the plan

Arithmetic (Keccak, NTT, sampling, signature schemes) is taken as a function of its
inputs; known-answer vectors in `tests/` cover it. Host memory, the contents of a
released buffer, HTTP and file handling, text parsing, the installer, the integrity tool
(`tools/agent_integrity.py` and its relatives) and the demonstration package are left
out: they handle files and processes around the product and keep no state that two
actors share, but for the promotion of a milestone, whose lost update is a hazard in
the list. The token is modelled at the granularity of its calls: interleavings of
single Python statements (two threads in the handle counter, a logout during
`C_Sign`'s dispatch) are in the list without a property.

In order:

1. A run of `QkdKeyRing` beside its proofs, with two processes, three epochs and at
   most six accepted keys.
2. A thread-level refinement of the token.
3. Promotion (`tools/promote_dr_status.py`) over the suite's evidence.
