# Verification of cpuminer-argon2d

TLA+ models of the CPU miner in this repository, the TLC configurations that
check them, and TLAPS proofs about them. The miner is a multi-threaded C
program: what is hard in it, and what these models are about, is how its threads
share one piece of work, pass pointers to each other and react to a pool or a
node that answers late, fails, or repeats itself. Of the hash functions only the order in
which Argon2d fills its memory is modelled; the rest is pure arithmetic.

Paths below are relative to `src/`. Line numbers are those of the modelled commit.
`PROJECT.json` maps every definition to its lines.

## 1. Inventory

### Threads

| thread | code | state it owns | what it does |
|---|---|---|---|
| main | `cpu-miner.c` `main` | options, `thr_info[]` | starts the threads, waits for workio to end |
| workio | `workio_thread`, `workio_get_work`, `workio_submit_work` | its curl handle, its queue | serves one command at a time: fetch work for a miner thread, submit a share or a block |
| miner (`opt_n_threads`) | `miner_thread`, `std_get_new_work`, `scanhash_*` | its `struct work`, its part of the nonce range, its queue | copies `g_work`, hashes, sends what it finds to workio |
| stratum | `stratum_thread`, `stratum_*` in `util.c` | the connection (`stratum_ctx`) | reads the pool's lines, rebuilds `g_work`, restarts the miner threads |
| longpoll | `longpoll_thread` | its curl handle | waits for the node to announce a block and writes it into `g_work` |
| api | `api.c` | its socket | reports statistics, sets the pool's url, quits |

### Shared state

| state | guarded by | read without the guard by |
|---|---|---|
| `g_work` | `g_work_lock` | `stratum_thread` (`job_id`), `submit_upstream_work` (previous hash) |
| `g_work_time` | `g_work_lock` for writing | everybody |
| `stratum.job`, `next_diff` | `stratum.work_lock` | `job_id`, `diff`, `clean` are also read without it |
| `work_restart[]` | nothing | one flag for each miner thread |
| `struct thread_q` | its own mutex and condition variable | |
| `net_blocks`, `have_longpoll`, `submit_old`, `sharediff` | nothing | several |
| `stratum_need_reset`, `rpc_url` | nothing | api, stratum, longpoll |

### Components: operations, interactions, what makes them correct

* **Thread queues** (`util.c`: `tq_new`, `tq_push`, `tq_pop`, `tq_freeze`). Every
  hand-over between threads goes through one. Hard: the wait on the condition
  variable, pushes around a freeze. Correct: each pointer accepted is delivered
  once and in order, no wake-up is lost, NULL comes out only if NULL went in.
* **Work distribution in stratum mining** (`stratum_thread`, `std_stratum_gen_work`,
  `std_get_new_work`, `submit_upstream_work`, `stratum_notify`,
  `stratum_set_difficulty`). `g_work` is rebuilt by the stratum thread when the job
  id changes *and* by any miner thread that has used up its part of the nonce
  range. Hard: two locks, unlocked reads, restart flags that are cleared late, a
  pool that repeats a job, lost connections. Correct: every header built is new,
  no nonce of a header is hashed twice, the target belongs to the header's job or a
  later one, the latest job reaches all threads, only stale shares are discarded.
* **Nonce ranges and the scan loop** (`std_get_new_work`, `miner_thread`,
  `scanhash_argon2d_dyn`). Correct: the parts of the range are disjoint, and what is
  reported as `hashes_done` is right.
* **workio with getwork and getblocktemplate** (`get_work`, `submit_work`,
  `workio_*`, `get_upstream_work`, `get_mininginfo`, `submit_upstream_work`). A miner
  thread asks for work and holds `g_work_lock` until the answer is in its own
  queue. Hard: retries of a command on data the first try has changed, two threads on one
  template, heights and block counts taken at different times, a fall-back from one protocol to the other while works of both
  are about. Correct: each answer
  goes to the question, nobody waits for ever, no block is submitted twice, none is
  discarded while it still extends the chain.
* **Longpoll** (`longpoll_thread`). Writes into `g_work` beside workio's answers. Correct:
  `g_work` comes to stand on the node's best block whatever the order of the answers and
  the failures.
* **Stratum session** (`stratum_connect`, `stratum_subscribe`, `stratum_authorize`,
  `stratum_handle_method`, `stratum_handle_response`). Hard: answers identified by
  their place in the stream, shares answered after a reconnect, a url changed by the api.
  Correct: an answer is attributed to its request, each share is counted once.
* **Stratum line framing** (`stratum_send_line`, `stratum_recv_line`, `stratum_buffer_append`). State: the
  receive buffer and its size, `sock_lock`. Hard: lines cut anywhere, several in one buffer, time-outs in the
  middle of a line, a send given up halfway and made again, two sending threads, reconnects. Correct: each
  line sent by the pool is delivered once and whole, the buffer is never overrun, and what a thread takes for
  sent is under way.
* **Share accounting** (`share_result`). Correct: accepted + rejected = answered.
* **Argon2d** (`algo/argon2d/argon2d`: `argon2_ctx`, `fill_memory_blocks`, `fill_segment`, `index_alpha`). State:
  the memory matrix, the pass, slice and index of each lane's thread. Hard: a block is computed from one that another
  thread's lane holds, chosen by a number only known at run time, with an index that
  wraps around the lane. Correct: both blocks read are written, by the right pass, and not being written.
  Both of the miner's algorithms set `context.threads = 1` (`argon2d-dyn-gate.c:36`, `argon2d-crds-gate.c:36`), so that
  `fill_memory_blocks_mt` and its threads never run in this program: what can go wrong in it here is the index.
* **Algorithm gate** (`algo-gate-api.c`): tables of functions, set at the start.
* **JSON-RPC over HTTP** (`json_rpc_call`): a call with a result, or none.
* **CryptoNote stratum, benchmark, start and options, signals, `sysinfos.c`, the other
  hash algorithms**: see section 8.

## 2. Plan

In the order of importance; done in bold.

1. **`ThreadQueue`** implements **`Channel`**: every other module relies on it and models a
   queue as a sequence.
2. **`StratumMining`**: the threads around `g_work`, the usual way to mine.
   Inductive invariant and proofs.
3. **`NonceRange`**: the arithmetic `StratumMining` abstracts from. Proofs.
4. **`SoloMining`**: workio, miner threads and longpoll against a node.
5. **`StratumSession`**: connect, subscribe, authorize, the attribution of answers to
   requests, the counts of shares, `mining.set_extranonce`, `client.reconnect`, `seturl` and
   reset, the retry limit and the NULL that ends workio. Left: `sharediff` (the difficulty
   a verdict is credited with), the session id, the layout of the coinbase when the size of
   extranonce2 changes, and an abstract specification: a ledger in which each share has one verdict.
6. **`StratumLine`**: the receive buffer and the sending side. Proofs of its bounds and of what arrives.
7. **`Argon2Fill`**: passes, slices, lanes, threads and the reference rule. Proofs of all its safety properties.
8. `SoloMining` with **the fall-back from getblocktemplate to getwork**; left: the switch to stratum (X-Stratum),
   `lp_id` and `rpc_url` (who owns the strings).
9. **Proofs of the safety properties of every module**, with their inductive invariants. Left: proofs that go beyond the
   runs' properties, such as a refinement of a ledger of shares by `StratumSession`.

## 3. Modules and code

### `ThreadQueue`, `Channel`

`q`, `frozen` are the fields of `struct thread_q`. Everything between lock and unlock
is one step; `tq_pop` is two steps when it has to wait, since `pthread_cond_wait` releases
the mutex. `owner` is the program counter of the thread that owns the queue, in the
shape all owners have: pop in a loop, leave on NULL or on a failure, freeze.
`Push` is `tq_push` by any other thread, `PopNow`/`PopWait`/`PopResume` are `tq_pop`,
`Freeze` is `tq_freeze`, `Wake` is a wake-up with no signal, as POSIX allows.
`Channel` is what the threads rely on: values are put while it is open and taken once
and in order. `ImplementsChannel` is the refinement: what was put is
`delivered \o q`, the channel is open until the freeze.

### `StratumMining`

| variable | code |
|---|---|
| `job`, `nextDiff` | `stratum.job` (with `xnonce2`, `diff`, `clean`), `stratum.next_diff` |
| `gwork`, `gtime`, `gLock`, `wLock`, `restart` | `g_work`, `g_work_time`, `g_work_lock`, `stratum.work_lock`, `work_restart[].restart` |
| `torn` | `g_work` between the `free` of its strings and the end of its rebuilding, when unlocked readers may see anything |
| `work`, `nonce` | each miner thread's `struct work` and the nonce in it |
| `pc` | where each thread is |
| `shareQ` | workio's queue |
| `hashed`, `want` (in a work) | history, for the properties |

A step is a stretch of code that touches shared state once or runs under a lock the
others take as well. `GenBegin`, `GenBuild` and the last step of each caller (`Stamp`,
`TargetAndTake`) are `std_stratum_gen_work`: the target is set after `work_lock` was
released, so the difficulty may change in between. `Check` is the unlocked test at the
top of `stratum_thread`'s loop, split from `LockForJob` since a miner thread may rebuild
`g_work` in between. `TakeWork` and `GetNewWork` are `std_get_new_work`; `ClearRestart` is
separate since the flag is cleared long after the copy. `CompareShare` reads the previous
hash without a lock. Bodies of jobs, previous hashes and difficulties are numbered in the
order in which the pool introduces them; this is what lets "later" be stated.
The pool may send lines in any order, repeat its last job with either value of the clean
flag and change it while a miner thread is rebuilding.

### `NonceRange`

`std_get_new_work`, the computation of `max_nonce` in `miner_thread` and the loop of
`scanhash_argon2d_dyn`, with nonces that wrap at `W + 1` as a `uint32_t` does. `randomize`
is `opt_randomize`. `at` is "take" before the header is copied, "ready" before
`max_nonce` is computed, "scan" in the loop, "after" when `scanhash` has returned.
`done` is what the code reports, `made`, `low`, `high` are history.

### `SoloMining`, `MCSoloMining`

| variable | code |
|---|---|
| `tip`, `credit` | the node's chain, and which blocks of it are this miner's (external) |
| `gbt` | `have_gbt`, and who switched it off |
| `gwork`, `gtime`, `gLock`, `torn` | as above |
| `work`, `pc`, `reply` | each miner thread's `struct work`, place and queue |
| `queue`, `io`, `cur`, `got`, `fails` | workio's queue, place, command, answer and `failures` |
| `netBlocks` | `net_blocks` |
| `lp`, `lpAsked`, `lpGot`, `haveLp`, `submitOld` | the longpoll thread, the protocol of its request, the answer it holds, `have_longpoll`, `submit_old` |

`Request` ends at `tq_pop` in `get_work`, `Receive` is what follows, and `g_work_lock` is
held from one to the other. `Pop`, `Fetch`, `Answer` serve `WC_GET_WORK`; `Pop`,
`CompareHash`, `CompareHeight`, `Send` serve `WC_SUBMIT_WORK`, `Retry` goes back to the
first step of the function that failed or makes workio give up (`io = "dead"`), `Finish` is
`workio_cmd_free`. `Send` lets a call fail before or after the node acted on it. `cur.enc` records that
`std_malloc_txs_request` turned `work->data` over in place. `Fetch` may find that the node has no template, or none the
miner can use, and start again with getwork, for good. The longpoll thread may find the same while it decodes a
template into `g_work` (`LpDecode`), and may hold an answer to the protocol no longer in use.
`gbt_work_decode` sets the height before it may give up (`Unusable`), and a getwork keeps the height it finds (`Decoded`): a work may have the
height of another answer than its header, after a fall-back of workio or of the longpoll thread, and whenever a long poll brings a
getwork. `mixed` in a work records this, as history.
A work's `txs` says whether it has transactions, and whether they are those of its header: `submit_upstream_work`
chooses submitblock or getwork by it, not by `have_gbt`. Previous hashes are numbered
by height: the node's chain only grows in the model, a reorganisation is left out.
`mode` is how the miner is started and against which node; it is a variable that never changes, so that one run
covers the combinations that `MCSoloMining` lists, each with threads and bounds of its own.

### `StratumLine`

| variable | code |
|---|---|
| `sockbuf`, `size` | `sctx->sockbuf` as a string, `sctx->sockbuf_size` |
| `at`, `extra` | where the stratum thread is; whether it waits for a line it can do without (the answer to `mining.extranonce.subscribe`) |
| `lock`, `left`, `share` | `sock_lock`, what each thread has left to send of its line, workio's share |
| `open`, `down`, `up`, `put`, `got` | the connection, the bytes on it each way, and the pool (external) |
| `taken`, `odd`, `cut`, `first`, `used` | history, and what the bounds have used up |

A byte is the number of the line it belongs to, or the newline, so that a line is known from each of its bytes.
`RecvChunk` is one `recv` with `stratum_buffer_append`, of any part of what is under way; `RecvFails` is a
time-out or an error between two of them; `TakeLine` is the rest of `stratum_recv_line`, with what `strtok` and `memmove` do.
`SendSome` and `SendFails` are one turn of the loop in `send_line`. A handler's answer (`SendReply`) ignores a
failure, workio sends its share again.
`odd` says that the pool sent an empty line, which `strtok` skips (and which the length computed after it does not count), or
that a line was given up after a minute with a part of it in the buffer and the code went on with the same connection: the
properties of lines exclude these cases by name. `cut` says the same of a line of the miner's own.

### `Argon2Fill`

| variable | code |
|---|---|
| `threads`, `memory` | `instance.threads`; of each block of `instance.memory` the pass that wrote it last |
| `main`, `pass`, `slice`, `next` | `fill_memory_blocks_mt`: where it is, `r`, `s`, `l` |
| `at`, `pos`, `index`, `prev`, `ref` | `fill_segment` on each lane's last thread: `position`, `i`, `prev_offset`, the block chosen |

`Pick` chooses the reference block (`index_alpha`, with any pseudo-random number of `Width` values in place of 2^32),
`Write` is `fill_block` and the end of the loop's turn. They are two steps so that another thread may write in between.
`CreateThread` joins an older thread first if there are too many (`MayCreate`), `NextSlice` joins those that remain.
`fill_memory_blocks_st` fills the segments in the order `fill_memory_blocks_mt` does with one thread; this (`threads = 1`) is the only
case the miner reaches. `SlicesInStep` and `Finishes` are about the others, code kept in the repository that nothing calls.
Since `data_independent_addressing` is never set (`opt.c:188`), the number may come from either source; that
any number is allowed covers both.

### `StratumSession`

| variable | code |
|---|---|
| `at` | where `stratum_thread` is: the top of its loop, `stratum_connect`, before and after sending in `stratum_subscribe`, `stratum_authorize` and its extranonce part, `stratum_recv_line` |
| `open`, `url`, `xn`, `failures` | `stratum.curl` is set, `stratum.url`, `stratum.xnonce1`, the thread's `failures` |
| `again` | `retry` in `stratum_subscribe`, kept until the next connection |
| `rpcUrl`, `needReset`, `api` | `rpc_url`, `stratum_need_reset`, where the api thread is in `remote_seturl` |
| `queue`, `io`, `ioFails` | workio's queue, place and `failures` |
| `count` | `accepted_count`, `rejected_count` |
| `up`, `down`, `poolXn`, `poolAuth` | the connection and the pool (external) |
| `answered`, `early`, `used` | history, and what the bounds have used up |

The stratum thread and workio share the connection; the api thread writes `rpc_url` and the reset flag.
The pool answers requests in order and sends calls of its own in between. What the model is about is
that `stratum_subscribe` and `stratum_authorize` take the line they read for the answer to what they sent,
whatever its id is; only the main loop looks at it (`OfShare` is `stratum_handle_response`).
`Reset` and `ResetUrl` are two steps since the flag is cleared before `rpc_url` is read; if the api
thread has freed it (`api = "free"`), any url may be read. `ConnectFails` and the refusals in `ReadSubscribed`
and `ReadAuthorizing` share `GiveUpOrRetry`. `FreedTwice` is a case of undefined behaviour: a second
`mining.subscribe` that gets no line frees the first answer again, so the program may end there or go on.
`early` says that a share was sent on a new connection before the main loop was reached
(workio checks only that the connection is there), `again` that a second subscribe went out. In both cases the answers are off by one
and `stratum_authorize` can be satisfied by the wrong one. The properties exclude exactly these cases, and TLC finds
violations when either exclusion is removed.

Operators marked "A fault for the checks" are not used by the models. They are
wrong versions of one line of the code, and each property is checked to fail with one.

## 4. Runs

| run | module, cfg | question | states |
|---|---|---|---|
| `queue` | `ThreadQueue` | Is a queue a channel, and is no wake-up lost, with spurious wake-ups, failures of the owner, pushes after the freeze? | small |
| `stratum_work` | `MCStratumMining`, `StratumMining.cfg` | Are headers new, nonces hashed once and in order, targets right, locks held, over all races and a reconnect? | 6.1 million |
| `stratum_latest_job` | `StratumLiveness.cfg` | Does the latest job reach and stay with all miner threads? | with fairness |
| `stratum_stale_share` | `StratumStaleShare.cfg` | Are only stale shares discarded? **No**. | |
| `nonce` | `NonceRange` | Are the parts disjoint, where may they meet, is the count right? | 12 million |
| `solo` | `MCSoloMining`, `Solo.cfg` | Are answers, blocks and discards right with either protocol, a fall-back, long polling, failing calls and retries? Do the threads go on, and does `g_work` catch up with the node? | 0.6 million, with fairness |
| `solo_retry` | `MCSoloMining`, `Solo_retry.cfg` | Is only a stale block discarded as stale by submitblock? **No**. | |
| `solo_height` | `MCSoloMining`, `Solo_height.cfg` | Is only a solved block discarded as solved, with a long poll and getwork? **No**. | |
| `argon2` | `Argon2Fill` | Is what a block is computed from settled, whatever the threads do, and does the fill end? | 0.5 million, with fairness |
| `line` | `StratumLine` | Do lines arrive whole, once and in order both ways, over connections that cut them and fail? | 1.0 million, with fairness |
| `session` | `StratumSession` | Are authorization, extranonce and counts right, is the url followed, does giving up end the program? | 0.9 million |
| `session_seturl` | `StratumSession_seturl.cfg` | Is a change of url followed while the old pool is down? **No**. | small |

### Bounds, and why they are enough

* `queue`: four pushes, of two pointers and NULL. All that matters is whether the list is empty,
  whether the owner waits, whether it is frozen; four pushes reach every
  combination, with more behind a pending wake-up. The proofs have no bound.
* `stratum_work`: two miner threads and the stratum thread (three rebuilders of `g_work`),
  two job ids (the same again, and another), two bodies, two difficulties, extranonce2
  up to 3 (three rebuildings of one job, one by each), one share in flight, one lost connection.
  `EndNonce = 1`: a part is used up after two hashes, so threads rebuild all the time;
  nonces wrap at 6, beyond what a thread can reach, which `StaysInPart` confirms. `EndNonce = 1`
  never lets a scan go on below `max_nonce`; the liveness run has `EndNonce = 2`, where it does.
  `MaxPrev = 0`: the previous hash matters only to shares, and is checked by
  `stratum_stale_share`. Extranonce2 stops short of its wrap (`Xn2Wraps = FALSE`): the
  code lets it wrap, and then repeats a header, after 2^32 headers of one job with 4 bytes.
* `stratum_latest_job`: here extranonce2 does wrap (one value), so that threads rebuild without
  end on one job, which is what might keep the latest job away from them.
* `nonce`: four threads, 20 nonces, a reserve of 2 in place of
  0x20 (the overrun is one nonce), chunks of up to 2, both values of `opt_randomize`. Parts are 4 nonces long, and the largest offset
  is 16 divided by 4: a moved start does land on the next part's first nonce (with three threads it could not, and `MeetAtStartOnly` would say no more than
  `Disjoint`).
* `solo`: two miner threads, in some modes one. Without long polling: getwork with a chain of two blocks; getblocktemplate
  with a fall-back, two threads, one block and a failing call; the same with one thread and a chain of two blocks, in which the chain may grow between
  a template that cannot be used and the getwork after it; one thread with two failing calls (workio retries once, then gives up), those of
  getmininginfo among them. With long polling: getblocktemplate with two threads; a fall-back with one thread that finds blocks,
  and with two while the chain stands still; getwork with one thread and a failing call. One block in the queue and one being served.
  Each exclusion in a property names a cause with a run or a hazard of its own: `SubmitsOnce` is about a node that
  answers getmininginfo (otherwise the block count that would discard the second block is
  missing or old); `SubmitsOnce` and `SolvedIfAnswered` are about works whose height and header are of one answer, or whose
  height get_mininginfo supplied (`mixed`). In these modes TLC finds both violated if only getworks of the long poll are excluded: `SolvedIfAnswered` by workio's
  fall-back without long polling, `SubmitsOnce` by the longpoll thread's. `StaleUnlessEncoded` is
  `StaleIsStale` without the case of `solo_retry`; an older long poll's answer may overwrite a newer
  work and make a live block look stale, so it is about a miner without long polling.
  `LeavesOwnBlock` is the comment at `cpu-miner.c:1963`, which is about mining without long polling.
* `solo_retry`, `solo_height`: the one mode in which the case occurs.
* `argon2`: three lanes, so that one thread, two (one joined before the third) and three run; segments of
  three blocks (the shortest in which the first block, a middle and the last one differ, and one longer than the two blocks filled at the start), two passes (the
  second wraps around the lane, the first does not), six numbers.
* `line`: lines of up to two bytes, two in each direction, a buffer of 4 with a recv of up to 3, so that lines are cut, merged, and the
  buffer grows; two connections, two failures, one answer of a handler between two shares.

* `session`: two pools, one of which accepts no connection, so that giving up is reached by failing to connect
  as well as by failing requests; one share, one call of the pool (before, between or after the answers), two
  values of `xnonce1` (a reconnect or a `set_extranonce` can change it), one failure of the connection, one change of url,
  one retry. Attribution goes wrong, when it does, with a single extra line or share (the exclusions above are
  violated within these bounds). `opt_redirect` is taken to be on, and `client.reconnect` may name any pool.
* `session_seturl`: retries without limit, as by default; the first pool may be the dead one.

### Deadlock

It is checked in `stratum_latest_job` and `stratum_stale_share` (their pool can always send another
line). The other configurations say `CHECK_DEADLOCK FALSE`: the owner of a queue ends (`queue`);
extranonce2 is used up at the bound (`stratum_work`); each thread scans one header
(`nonce`); the threads end when workio has given up, and chain and blocks are bounded (`solo*`); the fill ends (`argon2`); lines and failures are bounded (`line`); the
stratum thread ends when it gives up (`session*`).
That nobody waits for ever is stated by the liveness properties `Answered`, `LatestJobReachesAll`, `GivingUpEnds`, `Finishes`, `LineArrives` and
the fairness part of `ImplementsChannel`.

## 5. Fairness

* `ThreadQueue`: weak fairness of the owner's own steps. It is a running thread, and
  `pthread_cond_signal` makes it runnable. Failing and spurious wake-ups are not fair.
* `StratumMining`: strong fairness of each thread's steps. The threads are scheduled by the kernel;
  a step may need a mutex that is free only now and then, and glibc's mutex hands it on in practice, though POSIX
  does not promise it. No fairness for the pool's lines, lost
  connections or the clock. `LatestJobReachesAll` therefore assumes, in its own statement, that `g_work_time` is
  fresh again and again: with a pool that is silent for 120 s the threads wait in `wait_for_diff`. That scans end is assumed with
  the threads' fairness. So the property is about the races of those who rebuild `g_work`; it says nothing of how long a lost restart
  (`cpu-miner.c:1916`) keeps a thread on old work, nor of threads held by `wait_for_diff`.
* `SoloMining`: weak fairness of workio, of the clock (the scan time passes) and of the longpoll thread's own steps, strong fairness
  where `g_work_lock` is asked for. The node need never answer a long poll. Failing calls
  are bounded.
* `Argon2Fill`: weak fairness of the caller and of each lane's thread. Failures to create a thread are not fair.
* `StratumLine`: weak fairness of the stratum thread's steps, with a select that times out. None for the pool, for
  sending, or for failures.
* `StratumSession`: weak fairness of the stratum thread (each of its waits has a timeout), of workio, of the
  api thread between its two writes, and of the pool's answers. None for the pool's own calls, for shares or
  for a new change of url. A connection fails at most `MaxFail` times, besides those to a dead pool.

## 6. Proofs

Checked by TLAPS for every value of the constants, under the `ASSUME`s of the module that declares
them (threads and markers are distinct, bounds are naturals, a part of the
nonce range is longer than the reserve). TLC evaluates these on the runs.

* **`ThreadQueue_proof`.** `TypeCorrect`. `NoWakeupIsLost`: inductive as it stands, with `TypeOK`. `NullIsSent`:
  under `~Spurious`, strengthened by "an owner that was signalled finds something in the list, or the
  queue is frozen". `QueueIsChannel`: initial states map to initial states of `Channel` and every
  step to a step or a stutter. It needs that a frozen queue has no owner any more.
* **`StratumMining_proof`.** `TypeCorrect`; then `Invariant`, that `IInv` is inductive, under
  `~Xn2Wraps`. The properties are not inductive: that a rebuilt header is new depends on who may
  rebuild and from what. `IInv` adds what this rests on: `LockInv` (who holds which lock is determined by where each thread is),
  `JobInv` (nobody builds a header before there is a job), `OrderInv` (no
  thread has a header later than `g_work`, and `job` is ahead of `g_work`), `NonceInv` (a thread that has left its part
  rebuilds before it hashes) and `DiffInv`. From it follow `HeaderIsFresh`,
  `MinersMoveForward`, `NonceIsHashedOnce`, `ThreadStaysInPart`, `TargetIsNoEarlier`. The proof of the step
  has one lemma for each part of `IInv`, and in it one case for each action.
* **`NonceRange_proof`.** For any number of threads, width and reserve. `RangeInvariant`: a thread's nonces lie between `Start`
  and `Last`, which is the end of its part or, when starts are moved at random, the first nonce of the next part;
  they stay below `W`, so that they do not wrap; and the nonce in the loop is `first` plus the hashes made. An offset is divided by
  the number of threads, so that a start moves by a part at most; behind `End` a thread makes one hash, since `max_nonce` is looked at
  after it, and this may be on the next part's first nonce. The reserve keeps the other nonces from wrapping. With it, and since parts of equal length do not overlap,
  `ThreadsAreDisjoint` (starts not moved), `ThreadsMeetAtStart` and `CountIsWithinOne` (however they are moved).

* **`Argon2Fill_proof`.** For any number of lanes, threads, passes, blocks and numbers. `FillInvariant`: where each lane's
  thread is determines which of its blocks are written and by which pass, every lane whose thread is not at
  work is at a slice's boundary, and a thread is at the slice being filled (`MayCreate` keeps `threads` of them at most). Lemmas on `index_alpha`:
  the area is positive and shorter than the lane by what is being written, the position stays in it for any number, and
  its blocks lie before the current one in the order of the fill. From it follow
  `FillTypeCorrect`, `ReadsSettled`, `PicksAnotherBlock` and `FillInStep`.
* **`StratumLine_proof`.** `LineInvariant` says that a thread has something left to send exactly while it holds `sock_lock`,
  that workio has a share under way only while it waits for it, and that the buffer has one byte more than the
  string and its NUL. `LineTypeCorrect` and `CopyStaysInBounds` follow, the latter for any buffer sizes and lines: the
  `memmove` in `stratum_recv_line` copies a byte too many, and it is always inside.
  `FlowInvariant` is about what is received: `sockbuf` and what is on its way, put together, are what the pool sent after
  the lines that were returned. Recursion being out of the provers' reach, this is said with the offsets at which lines end:
  there is an increasing `off` such that line `v` stands between `off[v - 1]` and `off[v]` (`Holds`). A chunk moves bytes from one part to the other, a
  line sent adds an offset (`LineCome`), a line returned drops the first one (`LineGone`), and by `FirstLine` what
  `strtok` finds is the line that is due. From it follow `LinesStayWhole` and `TokenIsFound`.
  `SentInvariant` is about what is sent: what a thread has left to send continues what stands at the end of `up`, nothing
  of the other thread's in between (`Begun`; here `sock_lock` is needed); a share's newline is in `up` once at most, and not at all before the share is sent,
  nor after it was read (`SentOnce`); while no line was given up halfway, a newline is exactly each third byte (`Framed`). `ReadOnce` alone
  is not inductive: that a share is not read twice depends on what of it is still in `up`, also on pieces that stand
  behind another piece and may be taken for its line (`EndsAt`). From it follow `ShareIsReadOnce` and `SharesAreUnderWay`.
* **`StratumSession_proof`.** For any pools, options, order of events and bounds. `SessionInvariant`: `IInv` says for each place of
  the stratum thread which requests may be under way, in `up` or as an answer in `down`. mining.subscribe was sent
  once at most and its answer is read before mining.authorize is sent (`SubscribesOnce`); no answer but that of mining.authorize can be read where it is waited
  for (`AuthorizesOnce`, `NoEarlyShare`), so that it is the pool's verdict (`Verdict`) although `stratum_authorize` does not compare ids; and the last line
  under way that carries an xnonce1, if there is one, brings the pool's, else the miner has it (`XnonceOnItsWay`). The exceptions are those of the properties: a second
  mining.subscribe (`again`) and a share sent before the main loop (`early`). `Ledger` is not inductive
  either: it needs `Connected`, that nothing is under way without a connection and that what was lost with the last one
  is settled. From it follow `AuthorizedIsByPool`, `XnonceIsThePools` and `LedgerIsKept`.

* **`SoloMining_proof`.** For any number of miner threads, any modes, any length of the chain and any number of
  failing calls. `IInv` is built in layers, each proved inductive with the ones before it. `Offered`: the longpoll thread
  runs only if the node offered it. `Locks`, `Serving`, `Questions`: a question, wherever it is (queue, workio, answer), is
  that of the holder of `g_work_lock`, and there is one at most; this is `OneQuestionAtATime`. `Transactions`: after workio's
  fall-back `g_work` may keep a template's transactions only while a miner thread holds the lock, which then writes its
  own answer over them; this is `TransactionsAreOwn`. `Chain`, `Given`, `Heights`: every work names a block
  the chain has, and its height is right, or it is `mixed`, or the block after it is somebody else's. For this it needs that `g_work`
  holds a work once the node has offered long polling, unless a miner thread has the lock and is about to fill it: a getwork decoded into
  an empty `g_work` would have no height. `BlocksAreSubmittedOnce` follows, while the node answers getmininginfo (its assumption `AllowInfo`).
  `Order`: with no long polling works are given out in the order of the chain. `Leaves`: once a thread has found a block on its
  previous hash, whatever answer it can get is later, or comes to a question behind its block in workio's queue, and `g_work_time`
  is 0 until then; `MinersLeaveOwnBlock` is what remains of this when the block was
  accepted. `Compared`: `net_blocks` is never ahead of the chain, and nothing but a template's block is turned over;
  with `Order` and `Heights` it gives `StaleBlocksAreStale` and `SolvedBlocksAreSolved`.

Every safety property of the passing runs is the statement of a theorem. Only model-checked: every liveness property (`LatestJobReachesAll`,
`UrlFollows`, `GivingUpEnds`, `Answered`, `CatchesUp`, `Finishes`, `LineArrives`) and the fairness part of
`ImplementsChannel`, which the prover cannot treat (ENABLED), and the four violations of section 7. The inductive
invariants were checked by TLC on the instances of the runs before they were proved.

## 7. What the checks found

Four places where the code does not do what a comment or a description of its says. Each has a run in which TLC finds the behaviour.

1. `stratum_stale_share`: `submit_upstream_work` compares the share with `g_work` without
   the lock (`cpu-miner.c:1112`). While another thread rebuilds `g_work` for the *same* block it sees a
   cleared header and drops the share.
2. `solo_retry`: `std_malloc_txs_request` turns `work->data` over in place
   (`cpu-miner.c:1083`). If submitblock fails, the retry compares turned-over data with `g_work`, takes
   the block for stale and reports it as served.
3. `solo_height`: a getwork that arrives by long poll keeps the height of the work before (`cpu-miner.c:2148`);
   a block found on it is dropped as "already solved". The same happens without long polling: `gbt_work_decode` sets the height
   (`cpu-miner.c:480`) before it gives up on a template, `get_upstream_work` starts again with getwork and the same work
   (`cpu-miner.c:1248`), and if the chain grew in between the getwork's height is one too small.
4. `session_seturl`: `stratum_need_reset` is looked at only at the top of the loop (`cpu-miner.c:2387`), and the thread
   does not come back there while it fails to connect. With retries not limited, "Change pool url"
   (`api.c:192`) has no effect when it is needed most, when the present pool is down.

Limits found on the way that no run is about:

* `tq_pop` waits once (`util.c:2253`), not in a loop on its condition. A wake-up with no signal, which POSIX allows, makes it return NULL,
  which `workio_thread` takes for the order to end (`NullIsSent` proves that nothing else does).
* "we can't submit twice a block!" (`cpu-miner.c:1963`) holds for the
  thread that found the block (`LeavesOwnBlock`), and for two threads only while getmininginfo answers and heights are right
  (`SubmitsOnce`). An older getwork that a long poll decodes into a newer `g_work` has a height too large, and
  a second block on its previous hash is sent; so has the older work in `g_work` when a long poll brings a template
  that `gbt_work_decode` gives up on after it has set the height.
* If the longpoll thread itself falls back to getwork, `g_work` keeps the old template's transactions, and the next getwork it
  receives is submitted by submitblock with them (`OwnTransactions` excludes it by `offByLongpoll`).
* An empty line from the pool, or one that takes longer than a minute, garbles the line after it (`odd`). A send given up
  halfway is followed by a repetition on the same connection, and the pool reads the two as one (`cut`).

## 8. Not modelled

* Planned, not yet written: what is left of the session (difficulties of shares, session id, size of
  extranonce2), the switch to stratum at run time, the longpoll thread's
  strings (section 2, items 5 and 8). `StratumMining` has no `mining.set_extranonce`, time limit or
  termination; `StratumSession` has the first and the last, without jobs.
* In `StratumSession`: a share sent on a closed connection fails. That its file descriptor may by then belong
  to another connection is not modelled.
* In `Argon2Fill`: the contents of the blocks, Blake2b, and what threads do that outlive a failed fill.
* Left out for good: the hash functions and assembly (arithmetic with no state between calls; most
  of it third-party), `sysinfos.c` (display), option parsing and
  start-up (run once before the threads), the algorithm gate (function pointers set once; the models take the functions
  argon2d-dyn uses), CryptoNote's stratum (`jsonrpc_2`, other algorithms only), benchmark mode, `tq_thaw`,
  `tq_free` and the timeout of `tq_pop` (never used), reorganisations of the node's chain.
* The compiler and the memory model: accesses without a lock are taken to be atomic for single words
  (`g_work_time`, flags), and for strings and arrays to return anything while they are being
  rewritten.
