# deaddrop: TLA+ specifications and proofs

deaddrop moves encrypted files between two paired people through a relay that keeps each
ciphertext in memory until it is read. These modules model the relay from its start to its
end, the clients, the pairing handshake, and how commands come by passphrases, secrets and
keys. TLC checks them on small instances; TLAPS proves all but two of their safety properties for
every value of the constants. `PROJECT.json` maps every definition to the lines it models and
lists components, runs, mutants, findings, hazards and theorems.

## The system

| Part | Source | Module |
| --- | --- | --- |
| slot store: map, mutex, byte counter, capacity | `internal/relay/store.go` | `RelayStore` |
| HTTP handlers, GET semaphore, GC, shutdown | `internal/relay/handler.go`, `gc.go`, `cmd/deaddrop-relay/main.go` | `RelayServer` |
| `send`, `recv`, `recv --watch`, content layer, addresses | `internal/client`, `internal/slot`, `cmd/deaddrop/recv.go` | `Delivery` |
| starting and restarting the relay, secrets, hardening, unix socket, signals | `cmd/deaddrop-relay/main.go`, `internal/secretparse`, `internal/relay/lifecycle_*.go` | `RelayStart` |
| `bootstrap`, both roles | `cmd/deaddrop/bootstrap.go`, `internal/bootstrap` | `Bootstrap` |
| capsule file and passphrase cache | `cmd/deaddrop/{send,recv,passcache}.go`, `internal/passcache`, `internal/capsule` | `Unlock` |
| passphrase readers, confirmation, secret descriptors, in every command | `internal/passphrase`, `internal/fdread`, `cmd/deaddrop/*.go` | `Inputs` |
| identity entries, `fingerprint --identity` | `internal/identitystore`, `cmd/deaddrop/fingerprint.go`, `internal/bootstrap/finish.go` | `Identity` |

A sender derives a key (service_id of the hour, slot_id of the minute) from the pair's secret
and its clock and POSTs there; the receiver tries the current and the two earlier minutes of
its own clock. A slot is consumed by the GET that reads it. The pair's secret comes from a
capsule file, which `bootstrap` writes after a three-leg exchange over the same relay; the keys
of the content layer come from an identity entry it stores next.

How the modules compose:

    OneShotMailbox  <-- refined by --  RelayStore  <-- extended by --  RelayServer
          ^
          '-- instantiated as the relay by --  Delivery

`OneShotMailbox` is what the relay promises: a deposit is handed out at most as often as it
was granted, and may be discarded after its deadline. `RelayStore` implements it,
`RelayServer` uses the store only through its operations and so implements it too, and
`Delivery` has the mailbox in the relay's place. `Bootstrap` has a simpler relay of its own
(a set of slots with `Put`'s and `Take`'s tests of the deadline). `RelayStart` sees the server as
one stage. `Unlock`, `Inputs` and `Identity` are about single machines and the commands that
follow each other on them; they meet the others at three points. `Inputs` decides which
passphrase a capsule is wrapped under, `Unlock` opens it. `Bootstrap` ends where `Identity`'s
FinishBootstrap begins. `Identity`'s Get is the choice of `Layer` in `Delivery`.

## The modules

**RelayStore.** `m`, `bytes`, `mu` and the clock are the fields of `Store`. Put, Take and Delete
are one step each, being one critical section; Sweep and ZeroizeAll hold the mutex and visit
one key per step. Put's reading of "expired" (`!Now.Before`) and that of the others
(`Now.After`) differ at the deadline and are kept apart (`Reclaimable`, `Expired`). A
zeroized ciphertext is marked as such. `granted` and the reads so far are history.

**RelayServer.** One goroutine per request with a program counter: the checks of handlePost,
the upload, Put; the semaphore, Take, the response of handleGet; handleDelete. The GC is the
select of `gc.go`; `main` follows `run` from listen through Shutdown (drained or timed out),
`gc.Stop`, ZeroizeAll and return. net/http is external.

**RelayStart.** Incarnations of one relay, each a straight line from `run`'s first statement to its
return, that share a socket path. A secret is a record of what `Parse` tells apart; fd,
canonical, legacy and argv sources are resolved as the code does, beside what a client in the same
environment resolves; reading a descriptor may fail, or never end. Remove, bind, chmod and the
unlink of Close go by name. Off Linux, Mlockall and DisableCoreDump always fail. Signals and kills
come at any stage; on a TCP address there is no socket file.

**Delivery.** Sender, receiver and relay have clocks that differ by a constant. Requests and
answers travel apart: either may be lost or late, clients time out, and net/http may resend a
GET. recv's probes, its handling of version and content layer, its exit codes and the loop of
`--watch` are actions; a body may come out malformed or fail the outer AEAD (`Bodies`). A
behaviour's `setup` (clocks, flags, which faults) is chosen in Init and never changes. `gap`, the
longest time from one probe of a watch to the next so far, is history.

**Bootstrap.** Runs of both roles, several with the same spoken passphrase, so that a run may
meet the legs of an earlier one. A run's name stands for its key pair; `setup` says whether the
network loses requests and whether the sides are prompt. Poll rounds, the re-POST
of leg 1, the deadline, ENTER, the P_B prompt, the capsule and the identity entry are steps.

**Unlock.** Commands share a capsule path, which a new pairing rewrites (truncate, then write),
and a cache. Each system call is a step: stat, read, search, read or unlink a key, add, set
timeout; SecItemAdd, Update, Delete, CopyMatching. Each may fail. `spared` is history: the command's
Forget failed with the entry there. Distinct capsules have distinct cache IDs
(the ID is a hash of the fresh salt). That AddKey on an existing key keeps its serial and clears
its timeout is a property of the kernel.

**Inputs.** One keygen, bootstrap or capsule-opening command. Descriptors are numbers that are
handed out again; the bytes written to the passphrase descriptor are read one at a time, as FDReader
and ReadString do; a read or a write may fail on an open descriptor too. Every `os.NewFile` that is
not closed leaves an object to the garbage collector, whose finalizer closes the number at any later
step, whatever it refers to by then.

**Identity.** A pair's entries over several bootstraps, in the persistent, session or keychain store
`New` picks for each command, or in none where it finds none. AddKey, SecItemAdd and SecItemUpdate
are steps, and may fail; so are the end of a session, expiry, reboot and deletion by hand. An entry
is the tuple that MarshalEntry lays out, a key is named by its bootstrap and its side.

Cryptography is symbolic throughout: a sealed body opens exactly under its own key and
associated data, and derived identifiers do not collide.

## Runs

Runs that pass:

| Run | Shows |
| --- | --- |
| `store_capped` | read budget, the counter within its capacity and never charging for freed bytes, complete sweeps, refinement of the mailbox |
| `server_writes` | only uploads answered 201 are delivered; GETs inside the gate together never share a read; a drained shutdown leaves nothing |
| `server_reads` | the semaphore is exact, the server uses the store properly, shutdown terminates, overdue ciphertexts are swept |
| `delivery_pair` | two receivers, losses, resends, interrupts and a stopping relay, or skewed clocks around an hour boundary: at most one writes a message, a recv that destroyed it says so, send's exit codes are honest, strict mode, a miss is honest, no sender that is not ahead is refused |
| `delivery_watch` | a watch finds what is sent while it runs as long as skew, POST and its longest round fit two buckets, and it ends |
| `bootstrap` | agreement and no false alarm with stale legs and losses; two prompt sides pair up before their deadline |
| `unlock` | the cache is sound and harmless, forgetting works unless the delete failed, timeouts get set, the keychain's Put survives one Forget |
| `inputs` | a capsule is wrapped under the lines fed in, the first P_B prompt and the capsule file are safe from finalizers, one descriptor for secret and passphrase is refused, fed commands end |
| `relay_start` | however earlier incarnations ended, the one that serves is reachable, and only a killed one leaves a socket file that may block a start; relay and client agree on the secret; a signal is never lost |
| `identity` | fingerprints stay what the operators compared, keys match, a miss has a cause, a deletion never fails Put |

Runs that end in a counterexample, each against a sentence of the repository:

| Run | The code against the text |
| --- | --- |
| `store_capped_resident` | a Put refused at an expired slot subtracts bytes it does not free; the map outgrows its capacity |
| `server_signal` | after a timed-out Shutdown a handler that was reading its body, or had just read it, may store after the wipe |

Every property of a passing run has a mutant: a plausible slip in a mapped definition under which
TLC finds the property violated. The type invariants (`TypeOK`, `ServerTypeOK`, `DeliveryTypeOK`,
`BootTypeOK`, `UnlockTypeOK`, `StartTypeOK`, `IdentityTypeOK`) document the variables; they are
proved for the relay, `Unlock`, `Identity` and `RelayStart`, hold in each configuration when added
to it, and are not among the runs' properties.

### Further disagreements between code and text

These are defined in the modules but are not among the runs kept. TLC reports each one when it
is put in place of the properties of the configuration named, with the constants shown.

| Property | Configuration | What happens |
| --- | --- | --- |
| `NoBlankReads` | `RelayStoreCapped` | a refused Put at the deadline itself leaves zeros that Take returns as a read |
| `NotFoundMeansNone` | `DeliveryPair` | a resent GET finds the slot consumed by the first and reports "not found" |
| `HourEitherWay` | `DeliveryPair`, `Setups <- SenderAhead` | a sender slightly ahead is refused at an hour boundary: the window is the current and the previous hour |
| `WatchFindsNew` without its conjunct on `Delay` | `DeliveryWatch` | HOWTO calls `--watch` "immune to moderate skew"; beyond two buckets of skew, POST, interval and GETs it misses messages |
| `WatchFindsOld` | `DeliveryWatch` | a watch does not find what is more than three minutes old |
| `TimeoutWritesNothing` | `Bootstrap` | one side times out, the other has written its capsule |
| `FinishEnds` | `Inputs` | with `--passphrase-env`, P_B always equals P_A and the prompt repeats for ever |
| `LaterReadsOpen` | `Inputs` | passphrase.go leaves its file open for "subsequent ReadPassphrase calls"; the finalizer of an earlier call may close it before keygen's second reading or a repeated P_B prompt |

What keeps `Delay` within two buckets (120 s) is not in the code. The interval has a floor of 30 s
and no ceiling; a POST and each of a round's three GETs may take 30 s. With equal clocks, the
shortest interval and requests that all use up their timeouts come to 150 s, and a default
interval of 60 s leaves 60 s for skew and requests together. The bound is tight: with one tick
more TLC finds a message missed.

`SignalEnds` has to except a relay that waits on `--deploy-secret-fd` or `--write-token-fd`: the
signals are already routed to a channel that nobody reads yet, so it reacts only when that read
returns.

Three more follow from `Unlock` directly. `ForgetEffective` has to except a Forget whose delete
failed: the error is ignored, and the old entry unlocks the capsule without the prompt that HOWTO's
"forget cached passphrase and re-prompt" announces. `ExpiryArmed` has to except a process killed
between AddKey and KEYCTL_SET_TIMEOUT: it leaves an entry that never expires, against HOWTO's
"auto-expires". And no disjunct of `ItemUpdate` leads past the loop of the keychain's Put, so its
final "duplicate after retry" is never returned; a second missing item is reported as such.
`SharedFDRefused` shows that the two consumers of one descriptor do not, as the repository's README
has it, "deadlock or cross-read": the passphrase reader finds the descriptor closed.

### Bounds

Each bound is a named constant. The store has two keys and three blobs of two sizes, so that the
capacity can be reached, missed by one and reclaimed. `server_writes` has two POSTs on one key,
which collide and compete for the capacity, a DELETE, and two GETs with room for both in the gate,
so that both can be between the gate and the answer; `server_reads` has two GETs, which compete for
a gate of one, and time for the service hour to pass. Hours are two or three buckets long, so that
an hour boundary falls inside three probes; time runs past the boundary. The three watch setups put
the receiver behind, level and ahead, with intervals that leave room for slow requests within two
buckets or none, and POSTs and GETs take up to a tick, half a bucket, as 30 s are half a minute;
time runs past several probes. Bootstrap has two initiators and one responder, the least with a
stale leg; its calm setups are long enough for leg 1 to leave the window and be posted again.
`Inputs` has every combination of sources with every input of up to four bytes over two letters, CR
and LF (two lines, empty lines, CRLF, a missing last LF), and a secret cap of two; prompts and
dropped files are told apart up to three. `RelayStart` has two incarnations, of which the second
meets whatever the first left. `Identity` has two bootstraps, so that roles can be exchanged and a
capsule overwritten, and both ends on one machine or on two. `Unlock` has three commands, two of
them forgetting, and may start with an entry of an earlier one: enough for an entry to be deleted
twice under one Put. Symmetry is used in safety runs only, over interchangeable keys, requests,
commands or initiators. Deadlock checking is off where commands all end or modelled time runs out.

### Fairness

`RelayServer`: weak fairness for the GC's ticker and for `run`, a straight line whose Shutdown has a
timeout; strong fairness for the GC's exit, because a select with two ready cases chooses at random.
None for clients, signals or the clock. `Delivery`: running clients step, timers fire and time
passes; network and relay owe no answer. `Inputs`: the command runs, fed from a descriptor that
ends; the collector need never run. `RelayStart`: a process that can step does, except that a read
from a descriptor need not end; starts, signals and kills owe nothing. `Bootstrap` states its
progress as the invariant `PairsInTime`: time waits for a prompt side's next step, so that being
late is a state. `Identity` and `Unlock` have no liveness property: they wait for people.

## Proofs

Each proof module extends the component's module. Its assumptions are the named `ASSUME`s there (key
and blob sets without the values that mean "none", positive lengths, clocks away from the epoch);
TLC evaluates them in the runs. None of the properties is inductive alone: each proof has an
inductive invariant, one step per action, and lemmas for what several actions share.

`RelayStoreProofs`, for every key set, blob set, capacity and grant: `TypeOK`, `ReadBudget`,
`BytesWithinCap`, `PassComplete`, `NeverOvercounts` and the refinement `ImplementsMailbox`. `IInv`
(in `RelayStore`) says how the keys still to be visited relate to the mutex and to the entries, and
that no two slots hold the same ciphertext. `NeverOvercounts` counts the bytes in the map as a set
of (key, position) pairs, so that a step, which touches one key, replaces one part of the set
(`Accounted`). The refinement shows action by action that a step of the store is a deposit,
delivery, withdrawal, discard, tick or stutter.

`RelayServerProofs`, for any number of requests: `ServerTypeOK`, `GateExact`, `OnlyAccepted`,
`ReadsShared`, `CleanExitWipes`, `UsesStore` and from it the mailbox again. `ServerInv` adds to
`IInv` where a request of each kind can be (`RequestPhases`), that the store holds only what an
accepted POST brought (`Provenance`), and which goroutine holds the mutex in each phase of `run`
(`MainPhases`): without the last, a sweep could be thought to run beside the wipe; without the
second, a GET could be thought to read a refused upload. For `ReadsShared`, the copies in responses
and the reads an entry still offers never exceed its grant (`Offered`).

`BootstrapProofs`, for any runs, passphrases, clocks, timeouts and losses: `Agreement` and
`NoFalseAlarm`. Every leg in the relay was sealed by the run its address names, a leg 3 by a
responder that already has that peer (`LegsBound`); `Knows` says what a run knows at each point and
`Persisted` what it has on disk. Without the first, a stale leg might open under the wrong keys; a
responder's peer never changes once known, and so the first survives every other step.

`DeliveryProofs`, for any number of senders and receivers, any setup and any lengths:

- `AtMostOnce`, `SendReportHonest`, `LossReported` and `StrictMode`, from `IInv`: a message is on
  the way, in a slot, in an answer or with a receiver, and in one of these places only (`Posting`,
  `Held`, `Handed`, `Receiving`).
- `MissIsHonest`, from `PInv`: the buckets a probe has passed are empty of what was there before it
  began (`Probed`), and stay so, because a slot only gains messages accepted later (`Shrinks`).
- `HourSeam`, from `SInv`: a POST still waited for names the hour it was sent in (`OnTime`), and a
  lemma on integer division.
- `WatchFindsNew`, from `WInv`, which spans successive probes: a slot holds what was addressed to
  its bucket (`Placed`), which is that of its sending (`Dated`); a probe takes its buckets from the
  clock as it begins, and a watch asleep has left none of the last three filled that were so when
  it probed (`Scheduled`). Hence a watch is never more than two buckets past
  a message that waits and that its last probe could have found (`Chased`): either the probe before
  it began too early to find the message, or that one looked and the message is in a later bucket.

`UnlockProofs`, for any number of commands, capsules and passphrases: `UnlockTypeOK`, `CacheSound`,
`CacheHarmless`, `ForgetEffective`, `ExpiryArmed` and `OneForgetSurvived`. `UInv` has what a command
knows of itself (`Local`), that a serial names the key of one capsule for good (`Serial`), what an
entry holds (`Stored`), what a Forget leaves, or spared (`Forgot`) and which deletions paid for a
round of the keychain's Put (`Counted`).

`IdentityProofs`, for any machines, platforms and number of bootstraps: `FingerprintStable`,
`KeysMatch`, `MissExplained` and `DeleteSurvived`. In `NInv`, what a ring holds was put there by a
side on that machine that has finished (`Genuine`), and what was stored and not removed is there
(`Present`); `Finishing` and `Looked` follow FinishBootstrap and Get.

`RelayStartProofs`, for any number of incarnations: `Reachable`, `OnlyKillsBlock` and
`SameEnvironmentAgrees`. `RInv` says, as long as no two incarnations overlapped, whose the socket
file can be at each stage (`Mine`).

`InputsProofs`, for any input and any interleaving with the finalizers: `PBShielded` and
`SharedFDRefused`. Up to the first P_B prompt, descriptors are handed out upwards (`Room`), a
dropped file is the only one of its number (`Tidy`), and the descriptors still needed are not among
them (`Shield`).

Only model-checked: `CapsuleFromInput`, which is about what a reader makes of all bytes before it
and needs induction over them; `PairsInTime`, which contains ENABLED; the type invariants of
`Delivery`, `Bootstrap` and `Inputs`; and all liveness (`ShutdownTerminates`, `OverdueSwept`,
`WatchTerminates`, `FedCommandEnds`, `SignalEnds`), since fairness and ENABLED are outside the
prover.

## Not modelled

- Flag syntax and dispatch: no state, and each check is one comparison.
- Byte layouts, Argon2id, AEAD, HKDF and curve arithmetic: library code, symbolic here. The
  capsule fingerprint and keygen's random draws with them.
- `Forget` of the identity store: no command calls it.
- `recv.go`'s unsigned bucket arithmetic within two minutes of the epoch: assumed away.
- Two relays alive on one socket path: modelled, but nothing is claimed of them, because
  the code guards against nothing there.
- The developer tools and the MCP wrapper, which run beside the system or only call the CLI.

## What could come next

A composition of `Unlock` with `Delivery` (a capsule rewritten while a watch runs).
