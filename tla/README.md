# A verification development for libVES-jvm

libVES-jvm binds the C library libVES.c to Java and Android: about 1,900 lines of
Java (`com.vesvault.libves`) over about 2,600 lines of JNI C. It adds no cryptography
and no protocol of its own. What it adds, and what is hard in it, is *ownership and
concurrency*: native objects behind `long` handles, a library that is not
thread-safe behind Java objects that anyone may call, a worker thread per watch, and
calls that are several requests to a server. That is what is modelled here.

libVES.c, libcurl, OpenSSL and the VES server are not in the repository (the
submodule directory is empty). They are modelled as *external*, from how the code
under `src/` uses them and from what its comments and tests say they do.

Paths below are relative to `src/main/` of the repository; `V` is
`java/com/vesvault/libves/VESEventTarget.java`, the C files are in `cpp/`.

## 1. Inventory

| component | state | operations | what is hard, what makes it correct |
|---|---|---|---|
| **VESEventTarget**, `jni_watch.c`, the abort flag of `tls_root.c` | `running`, `worker`, `watchHandle`, the monitor; per worker its position, batch and error; the native watch and its stop flag | `start`, `start(long)`, `stop`, `close`, `join`, `dispatchOn`; the worker's `runLoop`; hooks | three kinds of threads on four fields, half of the accesses without the monitor. No freed watch is used, none leaks, one worker at most, `stop` cuts the poll, `close` returns and leaves nothing, events are handed out in order, none twice and none lost |
| **Vault: context and lock** (`Vault.java`, `Item.java`, `ItemCipher.java`) | `nativeHandle`, `ctxLock`, the native context | every method that enters native code; `close`; the creation of a watch | hooks call back while the application calls; `close` must join before it locks. One native call at a time, none on a freed context, no watch outlives it |
| **Vault: ownership of keys** (`Vault.java`, `jni_vault.c`, `jni_watch.c`) | `libVES.vaultKey`, `vaultKeyHandle`, `refct` of shared objects | `unlock`, `createAnonymous`, both `setVESkey`, `vault`, `subVault`, `vaults`, watches, `close` | manual reference counts, keys without references, children that outlive parents, a watch that gives back what it shares by hand. No dangling key, no leak |
| **Vault: creation and rotation of keys** (`jni_vault.c`) | the key slot, the session token, the server's keys | `createAnonymous`, `setVESkey(veskey, lostId, passwd)`, `setVESkey(veskey)` on a `subVault`, `unlock`, `lock` | several requests per call, other Vaults between them, lost requests and replies. What the Vault holds is what the server has |
| **Item**, `jni_item.c` | uri or a native item, parent | `get`, `put`, `putRaw`, `share`, `add`, `remove`, `refuse`, `delete`, ... | load-modify-post without a version; lost requests and replies. Readers agree on what was put last, nobody gets in who was not named |
| **ItemCipher**, `jni_itemcipher.c` | a native cipher | `Item.cipher`, `meta`, `encrypt`, `decrypt`, `close` | first callers each mint a key; a failed read taken for "none yet"; no lock on the stream. A cipher handed out goes on opening the item |
| **VESFlow**, `jni_vesflow.c` | a native flow | `start`, `url`, `auth`, `close` | uses a Vault's context without its lock; `auth` frees the flow whatever its callback does. Used while it lives, freed once |
| **VESLocker**, `jni_veslocker.c` | a native handle | `encrypt`, `decrypt`, last error, `close` | handle read twice, no lock |
| **OfflineKey**, `jni_offlinekey.c` | a native key, a private copy of the PEM | `fromPEM`, `decrypt`, `publicKeyPEM`, `close` | synchronized; construction may fail in the middle. Whole or gone |
| **TLS root** (`tls_root.c`) | one path per process | `setOption(TLS_ROOT)`, the hook before each request | the path is freed while another Vault reads it |
| **jVar conversion** (`jni_jvar.c`) | none | Java value to `jVar` and back | recursion over types; what has a type in JSON reads back as it was, integers as `Long`s |
| **Errors, loading, Event** | none | | plain data, stateless |

How they interact. A `Vault` owns a context and its lock; its `Item`s and
`ItemCipher`s call on the same context under the same lock. Children (`vault`,
`subVault`, `vaults`) own contexts and locks of their own but *share key objects*
with the parent by reference count. A watch is a further child context, made under
the lock by the worker thread and used by it alone; its hooks run on the worker, or
as tasks of an executor, and call back into the Vault. `stop` reaches the worker's
transfer through a flag that libcurl's progress callback reads. `VESFlow.start`
borrows a Vault's context.

`PROJECT.json` lists the hazards found in the code line by line, with the properties
that answer for each and a note where none does yet.

## 2. Modules

| module | models | state and actions against the code |
|---|---|---|
| `EventWatch` | the watch, all of `VESEventTarget` and its native half | one variable per field, per local of `runLoop`, and per native watch; one action per stretch of code no other thread can observe the inside of: `Start`/`Launch` (`startAt`), `Stop`/`Abort` (`stop`), `Join`/`ReadWorker`/`Joined` (`join`, `close`), `Create` ... `Free` (the worker from `nativeCreateWatch` to `nativeWatchFree`), `RunTask` (the executor) |
| `EventFeed` | what `start()` promises | the abstract feed: asked, open at a position, events one by one, ended |
| `VaultContext` | one context and its lock | a call waits, takes the lock and reads the handle (`Enter`), is in native code, returns; methods that behave alike towards lock and handle are one class of calls; `Close` joins, locks, forgets, frees; `StartFlow` does without the lock; watches are kept as far as they touch the context |
| `NativeRefs` | who owns a vault key | a slot and an own handle per context, a count per key; one action per native call; the end of a watch, which takes no lock, optionally in two steps; `program` says which calls an application makes |
| `VaultKeys` | how keys come to be | the server's keys beside what each Vault holds; one action per request or reply, with its failures |
| `NativeHandles` | the native objects of VESLocker, ItemCipher, VESFlow and OfflineKey | a Java field, the memory behind it, and per thread where it is in which method: the test of the field, the read for the call, native code, and in `close` read, forget, free; `auth` with its callback and the exit that frees nothing (`AuthRefuses`); every exit of `fromPEM` |
| `ItemStore` | one item of the server and the Vaults that work on it | what each recipient holds; per client the call between its load and its post (`Loads`, `Post`, `PostFails`) and the ItemCipher it has |
| `JVar` | `jni_jvar.c` | `ToJVar` and `ToJava` as recursive functions; `Plain` is what JSON has a type for, `Widened` an object with its integers made `Long`s |
| `EventFeedProofs`, `EventWatchProofs`, `VaultContextProofs`, `NativeRefsProofs`, `VaultKeysProofs`, `NativeHandlesProofs`, `ItemStoreProofs` | | theorems about these modules |
| `EventWatchFeedProofs` | | that `EventWatch` implements `EventFeed`; it uses the theorems of both |
| `MCEventWatch`, `MCVaultContext`, `MCNativeRefs`, `MCVaultKeys`, `MCNativeHandles`, `MCItemStore` | | instances for TLC |

How they fit together. `VaultContext` and `NativeRefs` know that a watch starts, polls
and ends, which `EventWatch` tells in full. `NativeRefs` treats a native call as atomic
*because* `VaultContext` shows that calls on one context are serialized (calls on
*different* contexts that share keys are not: see the limits). `ItemStore` lets a client
have one call at a time for the same reason, and takes the metadata of a cipher through
`JVar`, which it extends. `NativeHandles` is about the objects that have no part in the
lock of a Vault.

## 3. What the runs show

Bounds are in the configurations. `MaxCalls`, `MaxEvents`, `MaxFaults` and `MaxId`
bound how much the environment does; the program's own steps are never cut.

| run | question | instance |
|---|---|---|
| `MCEventWatchRace` | is the life cycle of a watch safe when threads race, and does a `close` leave nothing of what it found? | two application threads, either of which may be interrupted, each making every call (`start`, `stop`, `close`, `join`), and two workers: 4 calls, 2 faults, no events, for a hook that calls nothing is but a longer way to the next test of `running`. Two workers meet in every overlap of an ending and a starting watch; a third would repeat it. That hooks call too is in the theorems (any `Calls`) and in the next three runs |
| `MCEventWatchOwner` | does a stopped worker end, do `close` and the `join` of a stopped watch return, which watch ends unreported, does an event arrive in spite of poll errors? | one thread starts and closes; a hook, behind an executor that may be shut down, stops and joins; the first worker may be interrupted in its retry sleep, the owner may not, so that `close` returns by the end of the worker; fairness below |
| `MCEventWatchFeed` | are events handed out exactly, across batches, faults and restarts, and is the abort of `stop` kept from `onError` but where it cut a first load? | `start()`, `start(0)`, `start(2)` and `start(-2)`; three events, so that a batch, a gap at its end and what follows all differ; refinement of `EventFeed` |
| `MCEventWatchHookClose` (violated) | "A hook may call back into the watched Vault/Item" (V:65): may it close it? | it waits for itself forever |
| `MCVaultContext` | are calls under the lock serialized and none on a freed context, does no watch outlive the context, does `close` return though hooks wait for its lock? | two threads of which the owner may be interrupted, two watches with hooks, flows, 5 calls, 2 events; fairness below |
| `MCVaultContextFlow` (violated) | "every native call that touches one runs under that context's ctxLock" (Vault.java:61) | `VESFlow.start` does not |
| `MCNativeRefs` | no dangling key, exact counts, no leak; is the raw decrement of an ending watch harmless to its own Vault, even torn and even for an uncounted key? | five contexts and four keys, so a child of a child, two watches and a closed parent occur together; two programs, one without rotations and uncounted keys, one whose other contexts take no references |
| `MCNativeRefsRace` (violated) | "so the parent retains ownership at its original count" (jni_watch.c:82) | a reference taken between load and store is lost |
| `MCVaultKeys` | do Vault and server agree after every failure? | two apps on one anonymous name, two Vaults of one user, one Vault of an app vault, opened alone or below one of them, three keys: a rotation can fall into any step of the creation of an app key, and a session be elevated with an active key, a demoted one or the app vault's own |
| `MCNativeHandles` | is a native object used while it lives, freed once, never lost, and a key whole or gone? | two threads; a locker both use and one closes, a cipher and a flow of one thread, a key both use and close; an `auth` may be passed a null; 5 calls, which is two threads in two methods each and what follows |
| `MCNativeHandlesAuth` (violated) | "Either way the native handle is consumed; close() afterwards is a no-op" (VESFlow.java:76-77) | not after a `setCreds()` that threw, nor in one that closes the flow |
| `MCItemStore` | do readers agree on what was put last, does metadata stay with the cipher and read back, does a cipher go on opening the item, does nobody get in unnamed? | two clients and three vaults, so one is only ever a recipient; 4 writing calls that overlap as they like, requests and replies lost; two Maps, one with every type JSON has and an `Integer`, one with what it has not |

Every property has a mutant: a definition that maps to code, changed as a plausible
slip would change it (a dropped guard, a lost reset, a swapped order), under which
TLC finds the property violated. The slips are the operators marked "Slip".

**Fairness.** `EventWatch` and `VaultContext` assume weak fairness of each thread that
is inside a call and of each worker: the JVM schedules runnable threads, a long poll
ends by itself (30 s, or at once when the flag is raised), hooks return. Nothing
makes anybody *call* a method, post an event or recover from a fault: faults are
bounded by `MaxFaults`, which is the assumption that errors do not come forever.
What no catch takes (`ThrowsError`) is one of these faults: it may happen whenever a hook
or a load runs, and never has to.
Weak fairness is enough for the monitor because `start` and `stop` hold it for a few
steps and the calls of a behaviour are finitely many. No strong fairness is used. The
other modules state safety only: nothing in them waits for anything but the monitor of
an `OfflineKey`, whose methods wait for nothing.

**Deadlock** is checked in `MCVaultKeys`. In the others a behaviour may rightly stop:
everybody closed, nobody calling.

**Exceptions in the properties.** Some properties except what the code gives no way to
prevent, by a history variable that says when it happened: `torn` and `Stale` (a post
from a version of the item that was no longer the server's), `fault` (a cipher that
could not be read), `misused` (a `setCreds()` that threw or closed its flow), `refused`
(an `auth()` that was passed a null), `interrupted`, and the cause `"thrown"` (what no
catch of the watch's loop takes). Each exception is a limit listed in section 5, and TLC
violates the property without it.

## 4. What is proved

TLAPS proves, for any number of threads, workers, contexts, keys, objects, calls and
events:

| module | theorem | from |
|---|---|---|
| `EventWatchProofs` | `TypeCorrect`, `Lifecycle`, `HandlesStayLive`, `WatchesDoNotLeak`, `OneWorkerRuns`, `StopsCutPolls`, `Reporting`, `EndsAreTold`, `AbortsAreHidden`, `Closing`, `CloseIsFinal` | the assumptions on the constants alone |
| `EventFeedProofs` | `LooseExact`, `ExactHolds` | that its ids are numbers |
| `EventWatchFeedProofs` | `FeedsAreServed`, `FeedsAreExact` | the assumptions on the constants alone |
| | `WatchImplementsFeed` | and `NoCountWraps`: the n of every `start(-n)` fits an `int` |
| `VaultContextProofs` | `LockHolds`, `TypesAndSingleFree`, `LockSerializes`, `FreedIsForgotten` | the assumptions on the constants alone |
| | `WatchesStayWithin` | and `OneOwner`: one thread starts and closes, and all watches are the Vault's own |
| `NativeRefsProofs` | `TypeCorrect`, `OwnersHold`, `KeysStayLive`, `KeysAreFreed`, `CountsAreExact` | the assumptions on the constants, for disciplined programs: `KeysStayLive` says so, in the others the property does |
| | `WatchesAreHarmless` | the assumptions on the constants, for programs that open no Vault below another (`Childless`) |
| `VaultKeysProofs` | `TypeCorrect`, `AnonymousVaultsOpen`, `SlotsArePosted`, `SessionsFollowSlots`, `AppsAreRecoverable` | the assumptions on the constants alone |
| `NativeHandlesProofs` | `TypeCorrect`, `HandlesUsedWhileLive`, `HandlesFreedOnce`, `HandlesNotLost`, `KeysWholeOrGone` | the assumptions on the constants alone |
| `ItemStoreProofs` | `ReadersReadThePosted`, `MetadataKept`, `CiphersGoOnOpening`, `OnlyNamedGetIn` | the assumptions on the constants alone, and nothing about what the conversion of a Map gives |
| | `TypeCorrect` | and `MapsConvert`: every Map the instance uses becomes metadata |

The conditions are not decoration. Without `OneOwner`, `NoCountWraps`, `Disciplined` or
`Childless` the property is false of the code, and a run or the list of limits below
says how. `MapsConvert` is a fact about the recursive function `ToJVar`, which TLAPS
cannot establish (induction over data). The run `MCItemStore` answers for it: each of its
Maps is stored in some of its states, where `TypeOK` fails if the conversion does (which
is how its mutant violates it). That a Map *reads back* is likewise left to that run
(`MetaReadBack`); the theorem `MetadataKept` is the other half, which does not depend on
the conversion: readers have the converted Map of the last call that landed.

*EventWatch.* `OneWorker` and `NoUseAfterFree` are not inductive: whether a handle is
live depends on who published it, and that on who may hold the monitor.
`LifecycleInv` is the strengthening. `MonitorHeld` says that a call past its entry
holds the monitor and that a worker that exists is the worker field's; `HandleOwned`
that the published handle is the running worker's live watch, and that a `stop` that
has read it finds it published until it lets the monitor go, for the worker clears
it under the monitor before it frees. `StopCutsPoll` joins them because the worker
checks `running` *after* publishing. Types need two facts about the least and the
greatest of a set of ids, proved from the well-founded order of the naturals.

`ReportInv` is about what `onError` is told. An abort is possible only once `running` is
cleared, and a worker at its catch clause sees that; the one place without the test is
the outer catch, which only creation and the first load reach (`NewsOf`). A worker past
its last chance to speak has spoken, or was stopped, or is no longer the current one, or
was ended by what no catch takes (`EndOf`, `Told`). `Unopened` adds that a watch whose
abort was reported handed nothing out.

`CloseIsFinal` must hold though another thread may start a worker between `close`'s stop
and its read of the worker field. `before` records who was there when a `close` began,
and `CloseInv` says that of these only the one it waits for can still be alive: a new
worker starts only when the old one is gone, and the field names the new one then.

*The watch as a feed.* `FeedInv` makes `Exact` inductive: the cursor of a feed that has
handed something out is just past an event of the stream. In the mapping the cursor is
history (what was delivered last, or where the feed opened), while the code goes by its
local `next`, a batch, and what is left of it. `FeedSync` ties them: between batches
`next` *is* the cursor; within one, the batch holds all events from the cursor to its end
and the rest of it is what the cursor has not passed, though events posted meanwhile
belong to the next. `StepMaps` then shows each step of the watch to be one of the feed
or a stutter. Only the opening depends on the count asked: an `(int)` cast may change
it, and the feed then opens elsewhere. `LooseNext` lets a feed open anywhere, and `Exact`
holds of it all the same, so that `FeedsAreExact` needs no condition and only
`WatchImplementsFeed` does. `EventFeed` states no fairness, so the theorem is all of
`ImplementsFeed`.

*VaultContext.* `LockInv`: who is in native code under the lock holds it; the handle is
zero before the context is freed; an argument is live exactly while the handle is. It
holds beside any number of `VESFlow.start()`, as these touch neither lock nor handle.
`WatchInv` adds that between the join and the free no watch of the owner's exists; it is
only an aid to the proof.

*NativeRefs.* `RefsInv` is `TypeOK`, `NoDangling`, `CountsHolders`, `NothingLeft` and
`OwnersInv` (a key of Java's is one Vault's only; a watch shares the key of an open
Vault). They are inductive only together: that `Close` frees nothing shared needs
exact counts, exact counts need single ownership of `vaultKeyHandle`. `Disciplined` is a
predicate of the state, as each behaviour has its own program: the watch's decrement is
atomic, no key is unlocked without an external id, no rotation while Java or a watch
names the old key. It stands inside the properties and never changes. The other program
of `MCNativeRefs` has torn and uncounted keys but one Vault only: `Alone` (no other Vault is
open, Java names no key, and a watch has the Vault's key or none) is all that `NoDangling`
needs there, whatever the counts say.

*VaultKeys.* `KeysInv` joins the properties with what a call knows between its requests.
`SlotKnown` extends `SlotPosted` into the calls, and says that `createAnonymous` has an
empty slot until its reply, so that one that fails leaves the Vault as it was. `PostedKnown`: between a POST and its reply the server has the key. `Elevating`: an app vault with an elevated session has a key, so that its user has an
active primary key, whatever key elevated it; and what is shared with all active keys
stays recoverable (`Recoverable`), since a rotation makes only *new* keys active.
`Stages` keeps the calls of the three sorts of Vaults apart.

*NativeHandles.* Nothing about a handle is inductive without knowing where each thread
is: `Place` says which method a thread at a given point is in, and that the call is one
the instance lets happen, so that `Sole` (one caller, or one closer) excludes a second
thread there. `KeyOK` is mutual exclusion of an OfflineKey's methods. `OwnOK` is the
ownership of the other classes: a set handle is live unless its one closer is between
native `auth` and the reset of the field; what `close` read is what the field still
holds. `LostOK` needs neither: a forgotten handle was read by whoever forgot it, and freed by
native code if that was `auth()`, unless it refused its arguments. A step
about one object leaves the others as they are (`Elsewhere`), so that each action is
looked at only where it bites.

*ItemStore.* `OpsOK` says what a call carries from its load to its post: if the version
it saw is still the server's, it posts to all who hold the item, an `add` carries the
value they have, and a key was minted because there was none. With it a post that is not
stale replaces the value of everybody or of nobody, which is `ReadersAgree`. `RelyOK`
adds that nobody relies on a cipher while the item is torn or gone. Every other action
either loads (`Loaded`) or is seen by its own client only (`Quiet`), so that all of it is
proved of three kinds of steps.

`TypeOK` also bounds ids and versions: `Bounds` counts the calls still under way, each
of which may become a version. `Metadata` follows the Map from the call that converts
it, through the load and post of every other call, to what a reader gets; that readers
agree (`ReadersAgree`) makes it one value, which is `MetadataKept`.

Every invariant and every action property of the passing runs is thereby a theorem, but
for `MetaReadBack`. It is model-checked only, as are the liveness properties `StopEndsWorker`, `CloseReturns` (of the
watch and of the context) and `EventArrives`, as fairness is out of the prover's reach,
and what `ToJVar` and `ToJava` compute, for Maps with values of every type and two levels
of nesting.

## 5. Known limits of the code

What the models show besides the violated runs, or what was met while writing them.
Most are in `PROJECT.json` as hazards.

*Vault, watch and keys*

- `Vault.unlock()`, and other methods without a check, pass the 0 of a closed Vault to
  native code that dereferences it (Vault.java:239, jni_vault.c:390).
- `Vault.close()` joins only the Vault's own watch. A watch on one of its `Item`s goes
  on and outlives the context (`WatchWithinContext` fails with `OnVault` smaller than
  `Watcher`).
- An interrupted `Vault.close()` frees the context under its running watch (V:226).
- `start()` of another thread between `close()`'s stop and its read of the worker (V:222)
  makes `close()` wait for a watch nobody stopped; it returns when somebody stops that one.
- What no catch of `runLoop` takes ends a watch with `running` still set and without an
  `onError`: the `Error` of a hook (V:308, 322 catch `Exception`s; the comment at V:323,
  "a throwing error handler must not take down the worker", holds of these only), an unchecked
  throwable of the loop itself, such as an `OutOfMemoryError` (V:279 catches
  `VESException`s), and an executor that refuses a task (V:301). The native watch is freed
  all the same, and `start()` works again.
- `stop()` during the first load of `start()` reports its own abort to `onError` (V:280); a
  transient error in that load ends the watch, as it stands outside the retry loop
  (V:279).
- `start(-n)` with n beyond 2^31 wraps in the `(int)` cast (V:252).
- `unlock()` on a Vault without an external id stores an uncounted key. A closing
  `subVault`, or a watch that cannot be made (jni_watch.c:262), frees it under the
  parent.
- `setVESkey` of a primary on a Vault that came from `vault(uri)` frees the key that Java
  still names (jni_vault.c:906); under a running watch it leaks the old key.
- Keys of the Vaults that `vaults()` returns, and the item of `password()`, are never
  freed: `VaultKey_free` and `VaultItem_free` do not undo a reference
  (jni_vault.c:228, 547, jni_item.c:95).
- The comment at jni_vault.c:815 says that `ves->vaultKey` is left untouched; line 907
  replaces it.
- When the reply to the POST of `createAnonymous` is lost, the VESkey is wiped although
  the server has the key: the name is taken and the vault can never be opened.
- When the reply to a rotation is lost or cannot be decrypted, the Vault keeps a
  demoted key; a retry leaves two active ones.
- A rotation between the propagation of an app key and its POST (jni_vault.c:716, 721)
  leaves the app key shared with the demoted primary key only.
- `lock()` on a parent locks the key object its children are using, under another lock.
- Parent and children share key objects and their plain `int` counts under different
  locks: what `MCNativeRefsRace` shows of an ending watch goes for any two calls that
  change the count of a shared key at the same time.
- `items()` and the watch of a `vault(uri)` child follow the key it inherited, though
  Vault.java:53-56 says that they follow its `vaultKeyHandle` (jni_vault.c:567, jni_watch.c:253).
- Two threads in `Vault.init()` at once: one may free the name that libVES has just taken
  from it (jni_vault.c:43-45).
- `setOption(TLS_ROOT)` frees the process-wide path that another Vault's request may be
  reading: it is safe if it is set once, before any request (tls_root.c:28).

*Objects without a lock*

- VESLocker, VESFlow and ItemCipher are safe with one calling thread. A `close()` or
  `auth()` beside another call frees the object under it; two of them free it twice. The
  last error a VESLocker reports may be another thread's.
- A `setCreds()` that throws, or closes its own flow, leads to a second free
  (VESFlow.java:81, `MCNativeHandlesAuth`).
- `auth()` with a null argument returns `E_ARG` before it has done anything
  (jni_vesflow.c:61), but VESFlow.java:82 forgets the handle: the flow leaks.
- `nativeFromPEM` cleanses the bytes of the VESkey it was given; where the JVM pins the
  array instead of copying it, these are the caller's (jni_offlinekey.c:72).

*Items and ciphers*

- Every write is a load and a post, and no request names a version. A call that loaded
  before another's post brings the old value back, and with it vaults that were removed
  in between; `add` beside a `put` leaves some recipients with the old value.
- Two first callers of `cipher()` each mint a key. The later post replaces the key the
  earlier one already encrypts with.
- Any failure of `getCipher` is taken for "no cipher yet": a new key is posted over an
  existing cipher (jni_itemcipher.c:46-48).
- `cipher()` on an item that holds a text replaces the text.
- `meta(map)` on a cipher that is no longer the item's puts that cipher back. A
  `meta(map)` that fails leaves the local cipher changed.
- `Item.writable()` returns at the first match and leaves the rest of the Vaults of
  `share()` open (Item.java:183-192).
- A `Float` is cut to an integer (jni_jvar.c:191), though the comment at 189 says that it
  becomes a float, and so is a `BigDecimal`. `Integer`, `Short` and `Byte` come back as
  `Long` (jni_jvar.c:131, 196), so that a Map with one is not `equals` to what is read. Entries of a Map whose keys are no strings are skipped without an
  error, and what is of no supported type becomes null.


## 6. What is abstracted or left out

In the modules about threads and ownership, values, names and URIs are not modelled. In
`VaultContext` all methods of a class are one call. In `NativeRefs` users, external
references and items are left out (they are shared like keys), and each native call but
the end of a watch is atomic. In `VaultKeys` there is one anonymous name, one user and
one app vault; the server refuses a taken anonymous name (as CreateAnonymousHostTest
records) and demotes a lost key with the POST that replaces it; `sessionToken(String)`,
by which an application may install any token, is left out, as is `vault(uri)`. The
server gives an elevated token for whatever key a Vault has and has unlocked: an active
one, a demoted one, or the app vault's own. `libVES_me` finds a user unless the vault is
anonymous.

In `NativeHandles` every method that passes a handle and leaves the object alive is one
`"use"`. The last error of a shared locker is left out.

In `ItemStore` there is one item. What libVES.c does in a post is external: that a value
goes to those that were loaded, those the call names and the client's own vault, that
the server refuses a client that is not among the recipients, and that an item nobody
holds any more is gone. Items that carry a native handle (`password()`, `items()`) and
cache their value are left out, as is the state of a cipher's stream. In `JVar` doubles
are counted in halves and their JSON text is left out, as is a null key of a Map.

Which components have no module, and why, is in `PROJECT.json`: errors and loading hold
no state, the CA path is one pointer about which a model says no more than the hazard.

## 7. Plan

Done: the watch, its abstract feed, the context and its lock, ownership of keys, creation
and rotation of keys, the handles without a lock, items, ciphers and their metadata; with
proofs for all of them, the refinement included.

1. `NativeRefs` with users and items, which are shared like keys, and with every count
   change of two contexts split, as their locks differ; its proofs extended.
2. Items that carry a native handle (`password()`, `items()`) and cache their value.
